----------------------------- MODULE ArcProofs -----------------------------
(* Proofs about Arc for any number of threads, keys and objects: the lists and
   the objects agree, what is being fetched is in no list, the counters are what the
   objects take, and the lists stay within the memory the cache was given.

   Types does not say that the counters of the lists and the references stay above
   zero.  Of the counters CountersTrue does, which are sums of sizes, and of the
   references ArcReferenceProofs. *)
EXTENDS Arc, TLAPS

ObjectI == [key : Keys \cup {"none"}, state : Lists \cup {"none"}, size : Nat,
            locked : BOOLEAN, refs : Int]

Types ==
    /\ hash \in [Keys -> Objs \cup {NoObj}]
    /\ obj \in [Objs -> ObjectI]
    /\ lists \in [Lists -> Seq(Objs)]
    /\ size \in [Lists -> Int]
    /\ c \in Nat /\ p \in Nat
    /\ needs_balance \in BOOLEAN
    /\ thr \in [Threads -> Thread]
    /\ \A t \in Threads : thr[t].pc \notin {"idle", "lookup", "create"} => thr[t].obj \in Objs

In(s, x) == \E i \in 1 .. Len(s) : s[i] = x

-----------------------------------------------------------------------------
(* What the operators on lists and objects do *)

(* Without takes o out of s and leaves the rest. *)
LEMMA WithoutFacts ==
    ASSUME NEW S, NEW s \in Seq(S), NEW o \in S, In(s, o),
           \A i, j \in 1 .. Len(s) : s[i] = s[j] => i = j
    PROVE  /\ Without(s, o) \in Seq(S)
           /\ \A x : In(Without(s, o), x) <=> x # o /\ In(s, x)
<1> DEFINE i == CHOOSE n \in 1 .. Len(s) : s[n] = o
           w == [j \in 1 .. Len(s) - 1 |-> IF j < i THEN s[j] ELSE s[j + 1]]
<1>1. Without(s, o) = w
  BY DEF Without
<1>2. i \in 1 .. Len(s) /\ s[i] = o
  BY DEF In
<1>3. Len(s) \in Nat /\ Len(s) - 1 \in Nat
  BY <1>2
<1> HIDE DEF i
<1>4. w \in [1 .. Len(s) - 1 -> S]
  BY <1>2, <1>3
<1>5. w \in Seq(S) /\ Len(w) = Len(s) - 1
  BY <1>3, <1>4
<1>6. ASSUME NEW x, In(w, x)
      PROVE  x # o /\ In(s, x)
  <2>1. PICK j \in 1 .. Len(s) - 1 : w[j] = x
    BY <1>5, <1>6 DEF In
  <2>2. CASE j < i
    BY <1>2, <1>3, <2>1, <2>2 DEF In
  <2>3. CASE ~ (j < i)
    <3>1. x = s[j + 1] /\ j + 1 \in 1 .. Len(s) /\ j + 1 # i
      BY <1>2, <1>3, <2>1, <2>3
    <3> QED
      BY <1>2, <3>1 DEF In
  <2> QED
    BY <2>2, <2>3
<1>7. ASSUME NEW x, x # o, In(s, x)
      PROVE  In(w, x)
  <2>1. PICK j \in 1 .. Len(s) : s[j] = x
    BY <1>7 DEF In
  <2>2. CASE j < i
    <3>1. j \in 1 .. Len(s) - 1 /\ w[j] = x
      BY <1>2, <1>3, <2>1, <2>2
    <3> QED
      BY <1>5, <3>1 DEF In
  <2>3. CASE j > i
    <3>1. j - 1 \in 1 .. Len(s) - 1 /\ w[j - 1] = x
      BY <1>2, <1>3, <2>1, <2>3
    <3> QED
      BY <1>5, <3>1 DEF In
  <2> QED
    BY <1>2, <1>7, <2>1, <2>2, <2>3
<1> HIDE DEF w
<1> QED
  BY <1>1, <1>5, <1>6, <1>7

(* Without keeps a sequence a sequence, whatever o is. *)
LEMMA WithoutType ==
    ASSUME NEW S, NEW s \in Seq(S), NEW o
    PROVE  Without(s, o) \in Seq(S)
<1> DEFINE i == CHOOSE n \in 1 .. Len(s) : s[n] = o
           w == [j \in 1 .. Len(s) - 1 |-> IF j < i THEN s[j] ELSE s[j + 1]]
<1>1. Without(s, o) = w
  BY DEF Without
<1> HIDE DEF i
<1>2. CASE Len(s) = 0
  <2>1. w \in [1 .. 0 -> S]
    BY <1>2
  <2> QED
    BY <1>1, <2>1
<1>3. CASE Len(s) # 0
  <2>1. Len(s) - 1 \in Nat /\ w \in [1 .. Len(s) - 1 -> S]
    BY <1>3
  <2> QED
    BY <1>1, <2>1
<1> QED
  BY <1>2, <1>3

(* Prepending puts o in front and keeps the rest. *)
LEMMA PrependFacts ==
    ASSUME NEW S, NEW s \in Seq(S), NEW o \in S
    PROVE  /\ <<o>> \o s \in Seq(S)
           /\ \A x : In(<<o>> \o s, x) <=> x = o \/ In(s, x)
<1> DEFINE w == <<o>> \o s
<1>1. w \in Seq(S) /\ Len(w) = Len(s) + 1 /\ Len(s) \in Nat
  OBVIOUS
<1>2. w[1] = o /\ \A j \in 1 .. Len(s) : w[j + 1] = s[j]
  OBVIOUS
<1>3. \A k \in 1 .. Len(w) : k = 1 \/ (k - 1 \in 1 .. Len(s) /\ w[k] = s[k - 1])
  BY <1>1, <1>2
<1> HIDE DEF w
<1>4. ASSUME NEW x, In(w, x) PROVE x = o \/ In(s, x)
  BY <1>2, <1>3, <1>4 DEF In
<1>5. ASSUME NEW x, x = o \/ In(s, x) PROVE In(w, x)
  <2>1. CASE x = o
    BY <1>1, <1>2, <2>1 DEF In
  <2>2. CASE In(s, x)
    <3>1. PICK j \in 1 .. Len(s) : s[j] = x
      BY <2>2 DEF In
    <3>2. j + 1 \in 1 .. Len(w) /\ w[j + 1] = x
      BY <1>1, <1>2, <3>1
    <3> QED
      BY <3>2 DEF In
  <2> QED
    BY <1>5, <2>1, <2>2
<1>6. \A x : In(w, x) <=> x = o \/ In(s, x)
  BY <1>4, <1>5
<1> QED
  BY <1>1, <1>6 DEF w

-----------------------------------------------------------------------------
(* Types *)

(* Assigning a value of its type to a field of an object, or of a thread, keeps
   the record's type. *)
LEMMA ObjectFields ==
    ASSUME NEW r \in ObjectI
    PROVE  /\ Free \in ObjectI
           /\ \A x \in Lists \cup {"none"} : [r EXCEPT !.state = x] \in ObjectI
           /\ \A x \in Nat : [r EXCEPT !.size = x] \in ObjectI
           /\ \A x \in BOOLEAN : [r EXCEPT !.locked = x] \in ObjectI
           /\ \A x \in Int : [r EXCEPT !.refs = x] \in ObjectI
<1>0. 0 \in Nat /\ 0 \in Int
  OBVIOUS
<1>1. Free \in ObjectI
  BY <1>0, Zenon DEF Free, ObjectI
<1>2. \A x \in Lists \cup {"none"} : [r EXCEPT !.state = x] \in ObjectI
  BY Zenon DEF ObjectI
<1>3. \A x \in Nat : [r EXCEPT !.size = x] \in ObjectI
  BY Zenon DEF ObjectI
<1>4. \A x \in BOOLEAN : [r EXCEPT !.locked = x] \in ObjectI
  BY Zenon DEF ObjectI
<1>5. \A x \in Int : [r EXCEPT !.refs = x] \in ObjectI
  BY Zenon DEF ObjectI
<1> QED
  BY <1>1, <1>2, <1>3, <1>4, <1>5

LEMMA ObjectField ==
    ASSUME NEW r \in ObjectI
    PROVE  /\ r.key \in Keys \cup {"none"} /\ r.state \in Lists \cup {"none"}
           /\ r.size \in Nat /\ r.locked \in BOOLEAN /\ r.refs \in Int
  BY Zenon DEF ObjectI

LEMMA ReleasedType ==
    ASSUME NEW r \in ObjectI
    PROVE  Released(r) \in ObjectI
<1>1. r.refs - 1 \in Int
  BY ObjectField
<1>2. Free \in ObjectI /\ [r EXCEPT !.refs = r.refs - 1] \in ObjectI
  BY <1>1, ObjectFields, Zenon
<1> QED
  BY <1>2, Zenon DEF Released

(* An update of one object with an object. *)
LEMMA ObjUpdate ==
    ASSUME NEW f \in [Objs -> ObjectI], NEW o \in Objs, NEW r \in ObjectI
    PROVE  [f EXCEPT ![o] = r] \in [Objs -> ObjectI]
  BY Zenon

PCs == {"idle", "lookup", "create", "check", "move", "fetch", "link", "balance",
        "resident", "ghosts", "hold", "release"}
Unheld == {"idle", "lookup", "create"}
ThreadsT(th) ==
    /\ th \in [Threads -> Thread]
    /\ \A t \in Threads : th[t].pc \notin Unheld => th[t].obj \in Objs

(* A thread that becomes a well-typed record, with an object when it needs
   one, leaves the threads well-typed. *)
LEMMA ThreadUpdate ==
    ASSUME ThreadsT(thr), NEW t \in Threads, NEW r \in Thread,
           r.pc \notin Unheld => r.obj \in Objs
    PROVE  ThreadsT([thr EXCEPT ![t] = r])
  BY Zenon DEF ThreadsT

LEMMA ThreadField ==
    ASSUME NEW r \in Thread
    PROVE  /\ r.pc \in PCs /\ r.key \in Keys \cup {"none"} /\ r.obj \in Objs \cup {NoObj}
           /\ r.to \in {"mru", "mfu", "none"} /\ r.new \in BOOLEAN /\ r.size \in Nat
  BY Zenon DEF Thread, PCs

LEMMA IdleType == Idle \in Thread /\ Idle.pc = "idle"
<1>1. 0 \in Nat
  OBVIOUS
<1> QED
  BY <1>1, Zenon DEF Idle, Thread

LEMMA GotoType ==
    ASSUME ThreadsT(thr), NEW t \in Threads, NEW pc \in PCs, Goto(t, pc),
           pc \notin Unheld => thr[t].pc \notin Unheld
    PROVE  ThreadsT(thr')
<1> DEFINE r == [thr[t] EXCEPT !.pc = pc]
<1>1. thr[t] \in Thread
  BY Zenon DEF ThreadsT
<1>2. r \in Thread /\ r.pc = pc /\ r.obj = thr[t].obj
  BY <1>1, Zenon DEF Thread, PCs
<1>3. r.pc \notin Unheld => r.obj \in Objs
  BY <1>2, Zenon DEF ThreadsT
<1>4. thr' = [thr EXCEPT ![t] = r]
  BY Zenon DEF Goto
<1> HIDE DEF r
<1> QED
  BY <1>2, <1>3, <1>4, ThreadUpdate, Zenon

(* The threads keep their type. *)
LEMMA ThreadsStep ==
    ASSUME Types, Next
    PROVE  ThreadsT(thr')
<1>0. ThreadsT(thr)
  BY Zenon DEF Types, ThreadsT, Unheld
<1>1. ASSUME NEW t \in Threads, thr' = [thr EXCEPT ![t] = Idle]
      PROVE  ThreadsT(thr')
  BY <1>0, <1>1, IdleType, ThreadUpdate, Zenon DEF Unheld
<1>2. ASSUME NEW t \in Threads, NEW k \in Keys, Lookup(t, k)
      PROVE  ThreadsT(thr')
  <2>1. CASE hash[k] # NoObj
    <3> DEFINE r == [Idle EXCEPT !.pc = "check", !.key = k, !.obj = hash[k], !.to = "mfu"]
    <3>1. hash[k] \in Objs
      BY <2>1, Zenon DEF Types
    <3>2. r \in Thread /\ r.obj \in Objs
      BY <3>1, IdleType, Zenon DEF Idle, Thread
    <3>3. thr' = [thr EXCEPT ![t] = r]
      BY <1>2, <2>1, Zenon DEF Lookup
    <3> HIDE DEF r
    <3> QED
      BY <1>0, <3>2, <3>3, ThreadUpdate, Zenon
  <2>2. CASE hash[k] = NoObj
    <3> DEFINE r == [Idle EXCEPT !.pc = "create", !.key = k]
    <3>1. r \in Thread /\ r.pc \in Unheld
      BY IdleType, Zenon DEF Idle, Thread, Unheld
    <3>2. thr' = [thr EXCEPT ![t] = r]
      BY <1>2, <2>2, Zenon DEF Lookup
    <3> HIDE DEF r
    <3> QED
      BY <1>0, <3>1, <3>2, ThreadUpdate, Zenon
  <2> QED
    BY <2>1, <2>2
<1>3. ASSUME NEW t \in Threads, NEW k \in Keys, Remove(t, k)
      PROVE  ThreadsT(thr')
  <2> DEFINE r == [Idle EXCEPT !.pc = "check", !.key = k, !.obj = hash[k]]
  <2>1. hash[k] \in Objs
    BY <1>3, Zenon DEF Types, Remove
  <2>2. r \in Thread /\ r.obj \in Objs
    BY <2>1, IdleType, Zenon DEF Idle, Thread
  <2>3. thr' = [thr EXCEPT ![t] = r]
    BY <1>3, Zenon DEF Remove
  <2> HIDE DEF r
  <2> QED
    BY <1>0, <2>2, <2>3, ThreadUpdate, Zenon
<1>4. ASSUME NEW t \in Threads, Insert(t)
      PROVE  ThreadsT(thr')
  <2>1. CASE hash[thr[t].key] # NoObj
    BY <1>0, <1>4, <2>1, GotoType, Zenon DEF Insert, PCs, Unheld
  <2>2. CASE hash[thr[t].key] = NoObj
    <3>1. PICK o \in Objs : thr' = [thr EXCEPT ![t].pc = "move", ![t].obj = o,
                                               ![t].to = "mru", ![t].new = TRUE]
      BY <1>4, <2>2, Zenon DEF Insert
    <3> DEFINE r == [thr[t] EXCEPT !.pc = "move", !.obj = o, !.to = "mru", !.new = TRUE]
    <3>2. r \in Thread /\ r.obj \in Objs
      BY <1>0, ZenonT(60) DEF ThreadsT, Thread
    <3>3. thr' = [thr EXCEPT ![t] = r]
      BY <1>0, <3>1, Zenon DEF ThreadsT
    <3> HIDE DEF r
    <3> QED
      BY <1>0, <3>2, <3>3, ThreadUpdate, Zenon
  <2> QED
    BY <2>1, <2>2
<1>5. ASSUME NEW t \in Threads, FetchFits(t)
      PROVE  ThreadsT(thr')
  <2>1. PICK s \in DataSizes : thr' = [thr EXCEPT ![t].pc = "link", ![t].size = BaseSize + s]
    BY <1>5, Zenon DEF FetchFits
  <2>2. BaseSize + s \in Nat
    BY ArcSizes
  <2> DEFINE r == [thr[t] EXCEPT !.pc = "link", !.size = BaseSize + s]
  <2>3. r \in Thread /\ r.obj \in Objs
    BY <1>0, <1>5, <2>2, ZenonT(60) DEF ThreadsT, Thread, FetchFits, Unheld
  <2>4. thr' = [thr EXCEPT ![t] = r]
    BY <1>0, <2>1, Zenon DEF ThreadsT
  <2> HIDE DEF r
  <2> QED
    BY <1>0, <2>3, <2>4, ThreadUpdate, Zenon
<1>6. ASSUME NEW t \in Threads, Fetched(t)
      PROVE  ThreadsT(thr')
  <2> DEFINE r == [thr[t] EXCEPT !.pc = "balance", !.size = 0]
  <2>1. r \in Thread /\ r.obj \in Objs
    BY <1>0, <1>6, IdleType, Zenon DEF ThreadsT, Thread, Fetched, Unheld, Idle
  <2>2. thr' = [thr EXCEPT ![t] = r]
    BY <1>0, <1>6, Zenon DEF ThreadsT, Fetched
  <2> HIDE DEF r
  <2> QED
    BY <1>0, <2>1, <2>2, ThreadUpdate, Zenon
<1>7. ASSUME NEW t \in Threads, Drop(t)
      PROVE  ThreadsT(thr')
  <2> DEFINE r == [thr[t] EXCEPT !.pc = "check", !.to = "none"]
  <2>1. r \in Thread /\ r.obj \in Objs
    BY <1>0, <1>7, ZenonT(60) DEF ThreadsT, Thread, Drop, Unheld
  <2>2. thr' = [thr EXCEPT ![t] = r]
    BY <1>0, <1>7, Zenon DEF ThreadsT, Drop
  <2> HIDE DEF r
  <2> QED
    BY <1>0, <2>1, <2>2, ThreadUpdate, Zenon
<1>8. ASSUME NEW t \in Threads,
             \/ Check(t) \/ Move(t) \/ FetchedUncached(t) \/ StartBalance(t)
             \/ ResidentDone(t) \/ BalanceDone(t)
      PROVE  ThreadsT(thr')
  <2>1. PICK pc \in PCs : Goto(t, pc)
    BY <1>8, ZenonT(60) DEF Check, Move, MoveToHead, MoveOut, MoveBetween, StartFetch, FetchedUncached,
                StartBalance, ResidentDone, BalanceDone, PCs
  <2>2. thr[t].pc \notin Unheld
    BY <1>8, Zenon DEF Check, Move, MoveToHead, MoveOut, MoveBetween, StartFetch, FetchedUncached,
                StartBalance, ResidentDone, BalanceDone, Unheld
  <2> QED
    BY <1>0, <2>1, <2>2, GotoType, Zenon
<1>9. ASSUME NEW t \in Threads, FetchFailed(t) \/ Release(t)
      PROVE  ThreadsT(thr')
  BY <1>1, <1>9, Zenon DEF FetchFailed, Release
<1>10. ASSUME UNCHANGED thr
       PROVE  ThreadsT(thr')
  BY <1>0, <1>10, Zenon
<1>11. ASSUME NEW t \in Threads,
              \/ EvictMru(t) \/ EvictMfu(t) \/ ForgetMfu(t) \/ ForgetMru(t)
              \/ UpdateSize(t) \/ Clear(t) \/ \E k \in Keys : Load(t, k)
       PROVE  ThreadsT(thr')
  BY <1>10, <1>11, Zenon DEF EvictMru, EvictMfu, ToGhost, ForgetMfu, ForgetMru, Forget,
                             UpdateSize, Clear, Load
<1>12. CASE SetSize
  BY <1>10, <1>12, Zenon DEF SetSize
<1> QED
  BY <1>2, <1>3, <1>4, <1>5, <1>6, <1>7, <1>8, <1>9, <1>11, <1>12, Zenon
     DEF Next, Fetch, BalanceStep

(* The last object of a list that is not empty is an object. *)
LEMMA LruType ==
    ASSUME lists \in [Lists -> Seq(Objs)], NEW l \in Lists, Len(lists[l]) > 0
    PROVE  lru(l) \in Objs /\ In(lists[l], lru(l))
<1>1. lists[l] \in Seq(Objs)
  BY Zenon
<1>2. Len(lists[l]) \in 1 .. Len(lists[l])
  BY <1>1
<1> QED
  BY <1>1, <1>2 DEF lru, In

(* The objects keep their type. *)
LEMMA ObjectsStep ==
    ASSUME Types, Next
    PROVE  obj' \in [Objs -> ObjectI]
<1>0. obj \in [Objs -> ObjectI] /\ \A o \in Objs : obj[o] \in ObjectI
  BY Zenon DEF Types
<1>1. ASSUME NEW o \in Objs, NEW r \in ObjectI, obj' = [obj EXCEPT ![o] = r]
      PROVE  obj' \in [Objs -> ObjectI]
  BY <1>0, <1>1, ObjUpdate, Zenon
<1>2. ASSUME UNCHANGED obj
      PROVE  obj' \in [Objs -> ObjectI]
  BY <1>0, <1>2, Zenon
<1>3. ASSUME NEW t \in Threads, thr[t].pc \notin Unheld
      PROVE  thr[t].obj \in Objs
  BY <1>3, Zenon DEF Types, Unheld
<1>4. ASSUME NEW o \in Objs, obj' = [obj EXCEPT ![o].refs = @ + 1]
      PROVE  obj' \in [Objs -> ObjectI]
  <2> DEFINE r == [obj[o] EXCEPT !.refs = obj[o].refs + 1]
  <2>1. obj[o].refs + 1 \in Int
    BY <1>0, ObjectField
  <2>2. r \in ObjectI
    BY <1>0, <2>1, ObjectFields, Zenon
  <2>3. obj' = [obj EXCEPT ![o] = r]
    BY <1>0, <1>4
  <2> HIDE DEF r
  <2> QED
    BY <1>1, <2>2, <2>3, Zenon
<1>5. ASSUME NEW t \in Threads, NEW k \in Keys, Lookup(t, k) \/ Remove(t, k)
      PROVE  obj' \in [Objs -> ObjectI]
  <2>1. CASE hash[k] = NoObj
    BY <1>2, <1>5, <2>1, Zenon DEF Lookup, Remove
  <2>2. CASE hash[k] # NoObj
    <3>1. hash[k] \in Objs
      BY <2>2, Zenon DEF Types
    <3> QED
      BY <1>4, <1>5, <2>2, <3>1, Zenon DEF Lookup, Remove
  <2> QED
    BY <2>1, <2>2
<1>6. ASSUME NEW o \in Objs, NEW k \in Keys \cup {"none"}, NEW n \in Nat,
             obj' = [obj EXCEPT ![o] = [Free EXCEPT !.key = k, !.size = BaseSize, !.refs = n]]
      PROVE  obj' \in [Objs -> ObjectI]
  <2> DEFINE r == [Free EXCEPT !.key = k, !.size = BaseSize, !.refs = n]
  <2>1. n \in Int /\ 0 \in Nat
    OBVIOUS
  <2>2. r \in ObjectI
    BY <2>1, ArcSizes, Zenon DEF Free, ObjectI
  <2> HIDE DEF r
  <2> QED
    BY <1>1, <1>6, <2>2, Zenon DEF r
<1>7. ASSUME NEW t \in Threads, Insert(t)
      PROVE  obj' \in [Objs -> ObjectI]
  <2> DEFINE k == thr[t].key
  <2>1. CASE hash[k] # NoObj
    BY <1>2, <1>7, <2>1, Zenon DEF Insert
  <2>2. CASE hash[k] = NoObj
    <3>1. 2 \in Nat
      OBVIOUS
    <3>2. k \in Keys \cup {"none"}
      BY ThreadField, Zenon DEF Types
    <3> QED
      <4>1. PICK o \in Objs :
               obj' = [obj EXCEPT ![o] = [Free EXCEPT !.key = k, !.size = BaseSize, !.refs = 2]]
        BY <1>7, <2>2, Zenon DEF Insert
      <4> QED
        BY <1>6, <3>1, <3>2, <4>1, Zenon
  <2> QED
    BY <2>1, <2>2, Zenon
<1>8. ASSUME NEW t \in Threads, NEW k \in Keys, Load(t, k)
      PROVE  obj' \in [Objs -> ObjectI]
  <2>1. 1 \in Nat /\ k \in Keys \cup {"none"}
    OBVIOUS
  <2>2. PICK o \in Objs :
           obj' = [obj EXCEPT ![o] = [Free EXCEPT !.key = k, !.size = BaseSize, !.refs = 1]]
    BY <1>8, Zenon DEF Load
  <2> QED
    BY <1>6, <2>1, <2>2, Zenon
<1>9. ASSUME NEW o \in Objs, NEW x \in Lists \cup {"none"},
             obj' = [obj EXCEPT ![o].state = x]
      PROVE  obj' \in [Objs -> ObjectI]
  <2> DEFINE r == [obj[o] EXCEPT !.state = x]
  <2>1. r \in ObjectI
    BY <1>0, ObjectFields, Zenon
  <2>2. obj' = [obj EXCEPT ![o] = r]
    BY <1>0, <1>9
  <2> HIDE DEF r
  <2> QED
    BY <1>1, <2>1, <2>2, Zenon
<1>10. ASSUME NEW t \in Threads, MoveBetween(t)
       PROVE  obj' \in [Objs -> ObjectI]
  <2>1. thr[t].obj \in Objs
    BY <1>3, <1>10, Zenon DEF MoveBetween, Unheld
  <2>2. thr[t].to \in Lists \cup {"none"}
    BY ThreadField, Zenon DEF Types, Lists
  <2> QED
    BY <1>9, <1>10, <2>1, <2>2, Zenon DEF MoveBetween
<1>11. ASSUME NEW t \in Threads, EvictMru(t) \/ EvictMfu(t)
       PROVE  obj' \in [Objs -> ObjectI]
  <2>1. PICK from \in Lists, to \in Lists : ToGhost(t, from, to)
    BY <1>11, Zenon DEF EvictMru, EvictMfu, Lists
  <2>2. lru(from) \in Objs
    BY <2>1, LruType, Zenon DEF Types, ToGhost
  <2> QED
    BY <1>9, <2>1, <2>2, Zenon DEF ToGhost
<1>12. ASSUME NEW t \in Threads, StartFetch(t)
       PROVE  obj' \in [Objs -> ObjectI]
  <2> DEFINE o == thr[t].obj
             r == [obj[o] EXCEPT !.locked = TRUE]
  <2>1. o \in Objs
    BY <1>3, <1>12, Zenon DEF StartFetch, Unheld
  <2>2. r \in ObjectI
    BY <1>0, <2>1, ObjectFields, Zenon
  <2>3. obj' = [obj EXCEPT ![o] = r]
    BY <1>0, <1>12, <2>1 DEF StartFetch
  <2> HIDE DEF r, o
  <2> QED
    BY <1>1, <2>1, <2>2, <2>3, Zenon
<1>13. ASSUME NEW t \in Threads, Fetched(t)
       PROVE  obj' \in [Objs -> ObjectI]
  <2> DEFINE o == thr[t].obj
             r == [obj[o] EXCEPT !.size = thr[t].size, !.state = thr[t].to, !.locked = FALSE]
  <2>1. o \in Objs
    BY <1>3, <1>13, Zenon DEF Fetched, Unheld
  <2>2. thr[t].size \in Nat /\ thr[t].to \in Lists \cup {"none"}
    BY ThreadField, Zenon DEF Types, Lists
  <2>3. r \in ObjectI
    <3>1. obj[o] \in ObjectI
      BY <1>0, <2>1, ZenonT(60)
    <3> HIDE DEF o
    <3> QED
      BY <2>2, <3>1, Zenon DEF ObjectI
  <2>4. obj' = [obj EXCEPT ![o] = r]
    BY <1>0, <1>13, <2>1, Zenon DEF Fetched
  <2> HIDE DEF r, o
  <2> QED
    BY <1>1, <2>1, <2>3, <2>4, Zenon
<1>14. ASSUME NEW o \in Objs, NEW q \in ObjectI,
              obj' = [obj EXCEPT ![o] = Released(q)] \/ obj' = [obj EXCEPT ![o] = q]
       PROVE  obj' \in [Objs -> ObjectI]
  BY <1>1, <1>14, ReleasedType, Zenon
<1>15. ASSUME NEW t \in Threads, MoveOut(t)
       PROVE  obj' \in [Objs -> ObjectI]
  <2>1. thr[t].obj \in Objs
    BY <1>3, <1>15, Zenon DEF MoveOut, Unheld
  <2>2. [obj[thr[t].obj] EXCEPT !.state = "none"] \in ObjectI
    BY <1>0, <2>1, ObjectFields, Zenon
  <2> QED
    BY <1>14, <1>15, <2>1, <2>2, Zenon DEF MoveOut
<1>16. ASSUME NEW t \in Threads, ForgetMfu(t) \/ ForgetMru(t)
       PROVE  obj' \in [Objs -> ObjectI]
  <2>1. PICK l \in Lists : Forget(t, l)
    BY <1>16, Zenon DEF ForgetMfu, ForgetMru, Lists
  <2>2. lru(l) \in Objs
    BY <2>1, LruType, Zenon DEF Types, Forget
  <2>3. [obj[lru(l)] EXCEPT !.state = "none"] \in ObjectI
    BY <1>0, <2>2, ObjectFields, Zenon
  <2> QED
    BY <1>14, <2>1, <2>2, <2>3, Zenon DEF Forget
<1>17. ASSUME NEW t \in Threads, FetchedUncached(t)
       PROVE  obj' \in [Objs -> ObjectI]
  <2>1. thr[t].obj \in Objs
    BY <1>3, <1>17, Zenon DEF FetchedUncached, Unheld
  <2>2. \/ obj' = [obj EXCEPT ![thr[t].obj] = Released(obj[thr[t].obj])]
        \/ UNCHANGED obj
    BY <1>0, <1>17, <2>1, Zenon DEF FetchedUncached, HashDelete
  <2> QED
    BY <1>0, <1>2, <1>14, <2>1, <2>2, Zenon
<1>18. ASSUME NEW t \in Threads, FetchFailed(t)
       PROVE  obj' \in [Objs -> ObjectI]
  <2> DEFINE o == thr[t].obj
             k == obj[o].key
             hashed == IF hash[k] = o THEN 1 ELSE 0
             dropped == hashed + IF thr[t].new THEN 1 ELSE 0
             q == [obj[o] EXCEPT !.refs = obj[o].refs - dropped]
             r == IF obj[o].refs = dropped THEN Free ELSE q
  <2>1. o \in Objs
    BY <1>3, <1>18, Zenon DEF FetchFailed, Unheld
  <2>2. obj[o] \in ObjectI /\ obj[o].refs \in Int
    BY <1>0, <2>1, ObjectField, Zenon
  <2>3. dropped \in Int
    OBVIOUS
  <2>4. obj[o].refs - dropped \in Int
    BY <2>2, <2>3
  <2>5. obj' = [obj EXCEPT ![o] = r]
    BY <1>0, <1>18, <2>1 DEF FetchFailed
  <2> HIDE DEF dropped, hashed, k
  <2>6. q \in ObjectI
    BY <2>2, <2>4, ObjectFields, Zenon
  <2> HIDE DEF q
  <2>7. r \in ObjectI
    BY <2>2, <2>6, ObjectFields, Zenon
  <2> HIDE DEF r, o
  <2> QED
    BY <1>1, <2>1, <2>5, <2>7, Zenon
<1>19. ASSUME NEW t \in Threads, Release(t)
       PROVE  obj' \in [Objs -> ObjectI]
  <2>1. thr[t].obj \in Objs
    BY <1>3, <1>19, Zenon DEF Release, Unheld
  <2>2. obj' = [obj EXCEPT ![thr[t].obj] = Released(obj[thr[t].obj])]
    BY <1>0, <1>19, <2>1, Zenon DEF Release
  <2> QED
    BY <1>0, <1>14, <2>1, <2>2, Zenon
<1>20. ASSUME NEW t \in Threads, UpdateSize(t)
       PROVE  obj' \in [Objs -> ObjectI]
  <2>1. CASE UNCHANGED obj
    BY <1>2, <2>1
  <2>2. CASE \E s \in DataSizes : obj' = [obj EXCEPT ![thr[t].obj].size = BaseSize + s]
    <3>1. PICK s \in DataSizes : obj' = [obj EXCEPT ![thr[t].obj].size = BaseSize + s]
      BY <2>2, Zenon
    <3> DEFINE o == thr[t].obj
               r == [obj[o] EXCEPT !.size = BaseSize + s]
    <3>2. o \in Objs
      BY <1>3, <1>20, Zenon DEF UpdateSize, Unheld
    <3>3. BaseSize + s \in Nat
      BY ArcSizes
    <3>4. r \in ObjectI
      BY <1>0, <3>2, <3>3, ObjectFields, Zenon
    <3>5. obj' = [obj EXCEPT ![o] = r]
      BY <1>0, <3>1, <3>2
    <3> HIDE DEF r, o
    <3> QED
      BY <1>1, <3>2, <3>4, <3>5, Zenon
  <2> QED
    BY <1>20, <2>1, <2>2, Zenon DEF UpdateSize
<1>21. ASSUME NEW t \in Threads, Clear(t)
       PROVE  obj' \in [Objs -> ObjectI]
  BY <1>0, <1>21, ReleasedType, Zenon DEF Clear
<1>22. ASSUME NEW t \in Threads,
              \/ Check(t) \/ MoveToHead(t) \/ FetchFits(t) \/ StartBalance(t)
              \/ ResidentDone(t) \/ BalanceDone(t) \/ Drop(t)
       PROVE  obj' \in [Objs -> ObjectI]
  BY <1>2, <1>22, Zenon DEF Check, MoveToHead, FetchFits, StartBalance, ResidentDone,
                            BalanceDone, Drop
<1>23. CASE SetSize
  BY <1>2, <1>23, Zenon DEF SetSize
<1> QED
  BY <1>5, <1>7, <1>8, <1>10, <1>11, <1>12, <1>13, <1>15, <1>16, <1>17, <1>18, <1>19, <1>20,
     <1>21, <1>22, <1>23, Zenon DEF Next, Move, Fetch, BalanceStep

HashMoves ==
    \/ UNCHANGED hash
    \/ hash' = [k \in Keys |-> NoObj]
    \/ \E k : \E o \in Objs \cup {NoObj} : hash' = [hash EXCEPT ![k] = o]

(* The hash table keeps its type. *)
LEMMA HashStep ==
    ASSUME Types, Next
    PROVE  hash' \in [Keys -> Objs \cup {NoObj}]
<1>1. ASSUME NEW t \in Threads, Insert(t) \/ \E k \in Keys : Load(t, k)
      PROVE  HashMoves
  BY <1>1, Zenon DEF HashMoves, Insert, Load
<1>2. ASSUME NEW t \in Threads,
             MoveOut(t) \/ FetchedUncached(t) \/ ForgetMfu(t) \/ ForgetMru(t)
      PROVE  HashMoves
  BY <1>2, ZenonT(60) DEF HashMoves, MoveOut, FetchedUncached, HashDelete, ForgetMfu, ForgetMru, Forget
<1>3. ASSUME NEW t \in Threads, FetchFailed(t)
      PROVE  HashMoves
  <2> DEFINE k == obj[thr[t].obj].key
  <2>1. hash' = [hash EXCEPT ![k] = IF hash[k] = thr[t].obj THEN NoObj ELSE hash[k]]
    BY <1>3 DEF FetchFailed, Types
  <2>2. CASE hash[k] = thr[t].obj
    BY <2>1, <2>2, Zenon DEF HashMoves
  <2>3. CASE hash[k] # thr[t].obj
    <3>1. hash' = hash
      BY <2>1, <2>3 DEF Types
    <3> QED
      BY <3>1, Zenon DEF HashMoves
  <2> QED
    BY <2>2, <2>3
<1>4. ASSUME NEW t \in Threads,
             \/ Check(t) \/ MoveToHead(t) \/ MoveBetween(t) \/ StartFetch(t) \/ FetchFits(t)
             \/ Fetched(t) \/ StartBalance(t) \/ EvictMru(t) \/ EvictMfu(t) \/ ResidentDone(t)
             \/ BalanceDone(t) \/ Release(t) \/ Drop(t) \/ UpdateSize(t) \/ Clear(t)
             \/ \E k \in Keys : Lookup(t, k) \/ Remove(t, k)
      PROVE  HashMoves
  BY <1>4, Zenon DEF HashMoves, Check, MoveToHead, MoveBetween, StartFetch, FetchFits, Fetched,
                     StartBalance, EvictMru, EvictMfu, ToGhost, ResidentDone, BalanceDone,
                     Release, Drop, UpdateSize, Clear, Lookup, Remove
<1>5. ASSUME SetSize
      PROVE  HashMoves
  BY <1>5, Zenon DEF HashMoves, SetSize
<1>6. HashMoves
  BY <1>1, <1>2, <1>3, <1>4, <1>5, Zenon DEF Next, Move, Fetch, BalanceStep
<1> QED
  BY <1>6 DEF HashMoves, Types

(* The actions that leave the lists and their counters alone. *)
Passive(t) ==
    \/ Insert(t) \/ Check(t) \/ StartFetch(t) \/ FetchFits(t) \/ FetchedUncached(t)
    \/ FetchFailed(t) \/ StartBalance(t) \/ ResidentDone(t) \/ Release(t) \/ Drop(t)
    \/ Clear(t) \/ \E k \in Keys : Lookup(t, k) \/ Remove(t, k) \/ Load(t, k)

LEMMA PassiveFrame ==
    ASSUME NEW t \in Threads, Passive(t)
    PROVE  UNCHANGED <<lists, size, c, p, needs_balance>>
  BY Zenon DEF Passive, Insert, Check, StartFetch, FetchFits, FetchedUncached, FetchFailed,
               StartBalance, ResidentDone, Release, Drop, Clear, Lookup, Remove, Load

(* Every step is of one of these kinds. *)
LEMMA StepKinds ==
    ASSUME Next
    PROVE  \/ SetSize
           \/ \E t \in Threads :
                 \/ Passive(t) \/ MoveToHead(t) \/ MoveOut(t) \/ MoveBetween(t) \/ Fetched(t)
                 \/ EvictMru(t) \/ EvictMfu(t) \/ ForgetMfu(t) \/ ForgetMru(t)
                 \/ BalanceDone(t) \/ UpdateSize(t)
  BY Zenon DEF Next, Move, Fetch, BalanceStep, Passive

(* The lists keep their type. *)
LEMMA ListsStep ==
    ASSUME Types, Next
    PROVE  lists' \in [Lists -> Seq(Objs)]
<1>0. lists \in [Lists -> Seq(Objs)]
  BY Zenon DEF Types
<1>1. ASSUME NEW l, NEW s, l \in Lists => s \in Seq(Objs), lists' = [lists EXCEPT ![l] = s]
      PROVE  lists' \in [Lists -> Seq(Objs)]
  BY <1>0, <1>1, Zenon
<1>2. ASSUME UNCHANGED lists
      PROVE  lists' \in [Lists -> Seq(Objs)]
  BY <1>0, <1>2, Zenon
<1>3. ASSUME NEW o \in Objs, Unlink(o)
      PROVE  lists' \in [Lists -> Seq(Objs)]
  <2> DEFINE l == obj[o].state
  <2>1. l \in Lists => Without(lists[l], o) \in Seq(Objs)
    BY <1>0, WithoutType, Zenon
  <2>2. lists' = [lists EXCEPT ![l] = Without(lists[l], o)]
    BY <1>0, <1>3 DEF Unlink
  <2> HIDE DEF l
  <2> QED
    BY <1>1, <2>1, <2>2, Zenon
<1>4. ASSUME NEW o \in Objs, NEW to \in Lists, Relink(o, to)
      PROVE  lists' \in [Lists -> Seq(Objs)]
  <2> DEFINE l == obj[o].state
             f == [lists EXCEPT ![l] = Without(lists[l], o)]
  <2>1. l \in Lists => Without(lists[l], o) \in Seq(Objs)
    BY <1>0, WithoutType, Zenon
  <2>2. lists' = [f EXCEPT ![to] = <<o>> \o lists[to]]
    BY <1>4, Zenon DEF Relink
  <2> HIDE DEF l
  <2>3. f \in [Lists -> Seq(Objs)]
    BY <1>0, <2>1, Zenon
  <2> HIDE DEF f
  <2>4. <<o>> \o lists[to] \in Seq(Objs)
    BY <1>0, PrependFacts, Zenon
  <2> QED
    BY <2>2, <2>3, <2>4, Zenon
<1>5. ASSUME NEW t \in Threads, MoveToHead(t)
      PROVE  lists' \in [Lists -> Seq(Objs)]
  <2> DEFINE o == thr[t].obj
             to == thr[t].to
  <2>1. o \in Objs /\ to \in Lists
    BY <1>5, ThreadField, ZenonT(60) DEF MoveToHead, Types, Lists
  <2>2. lists' = [lists EXCEPT ![to] = <<o>> \o Without(lists[to], o)]
    BY <1>0, <1>5, <2>1 DEF MoveToHead
  <2>3. Without(lists[to], o) \in Seq(Objs)
    BY <1>0, <2>1, WithoutType, Zenon
  <2>4. <<o>> \o Without(lists[to], o) \in Seq(Objs)
    BY <2>1, <2>3, PrependFacts, Zenon
  <2> HIDE DEF o, to
  <2> QED
    BY <1>1, <2>2, <2>4, Zenon
<1>6. ASSUME NEW t \in Threads, MoveOut(t)
      PROVE  lists' \in [Lists -> Seq(Objs)]
  BY <1>2, <1>3, <1>6, Zenon DEF MoveOut, Types
<1>7. ASSUME NEW t \in Threads, MoveBetween(t)
      PROVE  lists' \in [Lists -> Seq(Objs)]
  <2>1. thr[t].obj \in Objs /\ thr[t].to \in Lists
    BY <1>7, ThreadField, Zenon DEF MoveBetween, Types, Lists
  <2> QED
    BY <1>4, <1>7, <2>1, Zenon DEF MoveBetween
<1>8. ASSUME NEW t \in Threads, Fetched(t)
      PROVE  lists' \in [Lists -> Seq(Objs)]
  <2> DEFINE o == thr[t].obj
             to == thr[t].to
  <2>1. o \in Objs
    BY <1>8, Zenon DEF Fetched, Types
  <2>2. to \in Lists => <<o>> \o lists[to] \in Seq(Objs)
    BY <1>0, <2>1, PrependFacts, ZenonT(60)
  <2>3. lists' = [lists EXCEPT ![to] = <<o>> \o lists[to]]
    BY <1>0, <1>8, Zenon DEF Fetched
  <2> HIDE DEF o, to
  <2> QED
    BY <1>1, <2>2, <2>3, Zenon
<1>9. ASSUME NEW t \in Threads, EvictMru(t) \/ EvictMfu(t)
      PROVE  lists' \in [Lists -> Seq(Objs)]
  <2>1. PICK from \in Lists, to \in Lists : ToGhost(t, from, to)
    BY <1>9, Zenon DEF EvictMru, EvictMfu, Lists
  <2>2. lru(from) \in Objs
    BY <2>1, LruType, Zenon DEF Types, ToGhost
  <2> QED
    BY <1>4, <2>1, <2>2, Zenon DEF ToGhost
<1>10. ASSUME NEW t \in Threads, ForgetMfu(t) \/ ForgetMru(t)
       PROVE  lists' \in [Lists -> Seq(Objs)]
  <2>1. PICK l \in Lists : Forget(t, l)
    BY <1>10, Zenon DEF ForgetMfu, ForgetMru, Lists
  <2>2. lru(l) \in Objs
    BY <2>1, LruType, Zenon DEF Types, Forget
  <2> QED
    BY <1>3, <2>1, <2>2, Zenon DEF Forget
<1>11. ASSUME NEW t \in Threads, Passive(t) \/ BalanceDone(t) \/ UpdateSize(t)
       PROVE  lists' \in [Lists -> Seq(Objs)]
  BY <1>2, <1>11, PassiveFrame, Zenon DEF BalanceDone, UpdateSize
<1>12. CASE SetSize
  BY <1>2, <1>12, Zenon DEF SetSize
<1> QED
  BY <1>5, <1>6, <1>7, <1>8, <1>9, <1>10, <1>11, <1>12, StepKinds, Zenon

-----------------------------------------------------------------------------
(* The memory bound *)

(* The marker p stays a number, and below c. *)
LEMMA AdaptedBounds ==
    ASSUME Types, NEW l
    PROVE  Adapted(l) \in Nat /\ (p <= c => Adapted(l) <= c)
<1> DEFINE mrug == size["mrug"]
           mfug == size["mfug"]
           grow == IF mrug > 0 THEN mfug \div mrug ELSE mfug \div 2
           shrink == IF mfug > 0 THEN mrug \div mfug ELSE mrug \div 2
<1>1. mrug \in Int /\ mfug \in Int /\ c \in Nat /\ p \in Nat
  BY DEF Types, Lists
<1> HIDE DEF mrug, mfug
<1>2. grow \in Int /\ shrink \in Int
  BY <1>1
<1> HIDE DEF grow, shrink
<1>3. Larger(grow, 1) \in Nat /\ Larger(shrink, 1) \in Nat /\ Larger(shrink, 1) >= 1
  BY <1>2 DEF Larger
<1>4. Adapted(l) = CASE l = "mrug" -> Smaller(c, p + Larger(grow, 1))
                     [] l = "mfug" -> Larger(0, p - Larger(shrink, 1))
                     [] OTHER -> p
  BY Zenon DEF Adapted, grow, shrink, mrug, mfug
<1>5. CASE l = "mrug"
  <2>1. Adapted(l) = Smaller(c, p + Larger(grow, 1))
    BY <1>4, <1>5
  <2> QED
    BY <1>1, <1>3, <2>1 DEF Smaller
<1>6. CASE l = "mfug"
  <2>1. Adapted(l) = Larger(0, p - Larger(shrink, 1))
    BY <1>4, <1>6
  <2> DEFINE x == Larger(shrink, 1)
  <2>2. x \in Nat /\ x >= 1
    BY <1>3
  <2> HIDE DEF x
  <2>3. Larger(0, p - x) \in Nat /\ Larger(0, p - x) <= p
    BY <1>1, <2>2 DEF Larger
  <2> QED
    BY <1>1, <2>1, <2>3 DEF x
<1>7. CASE l # "mrug" /\ l # "mfug"
  BY <1>1, <1>4, <1>7
<1> QED
  BY <1>5, <1>6, <1>7

(* What one object less, or an object in another list, does to the counters. *)
LEMMA UnlinkCounts ==
    ASSUME Types, NEW o \in Objs, Unlink(o)
    PROVE  /\ size' \in [Lists -> Int]
           /\ \A l \in Lists : size'[l] <= size[l]
<1> DEFINE n == obj[o].size
           l == obj[o].state
<1>1. n \in Nat /\ size \in [Lists -> Int]
  BY ObjectField, Zenon DEF Types
<1>2. size' = [size EXCEPT ![l] = size[l] - n]
  BY Zenon DEF Unlink
<1> HIDE DEF n, l
<1>3. l \in Lists => size[l] - n \in Int
  BY <1>1
<1>4. size' \in [Lists -> Int]
  BY <1>1, <1>2, <1>3, Zenon
<1>5. \A m \in Lists : size'[m] <= size[m]
  BY <1>1, <1>2
<1> QED
  BY <1>4, <1>5

LEMMA RelinkCounts ==
    ASSUME Types, NEW o \in Objs, NEW to \in Lists, Relink(o, to)
    PROVE  /\ size' \in [Lists -> Int]
           /\ obj[o].state \in Lists \ {to} => Total' = Total
<1> DEFINE n == obj[o].size
           l == obj[o].state
<1>1. n \in Nat /\ size \in [Lists -> Int]
  BY ObjectField, Zenon DEF Types
<1>2. size' = [size EXCEPT ![l] = size[l] - n, ![to] = size[to] + n]
  BY Zenon DEF Relink
<1> HIDE DEF n, l
<1>3. size' \in [Lists -> Int]
  <2>1. l \in Lists => size[l] - n \in Int
    BY <1>1
  <2>2. size[to] + n \in Int
    BY <1>1
  <2> QED
    BY <1>1, <1>2, <2>1, <2>2, Zenon
<1>4. l \in Lists \ {to} => Total' = Total
  BY <1>1, <1>2 DEF Lists, Total
<1> QED
  BY <1>3, <1>4 DEF l

(* The counters, c, p and needs_balance keep their types. *)
LEMMA NumbersStep ==
    ASSUME Types, Next
    PROVE  /\ size' \in [Lists -> Int] /\ c' \in Nat /\ p' \in Nat
           /\ needs_balance' \in BOOLEAN
<1>0. size \in [Lists -> Int] /\ c \in Nat /\ p \in Nat /\ needs_balance \in BOOLEAN
  BY Zenon DEF Types
<1> DEFINE Goal == size' \in [Lists -> Int] /\ c' \in Nat /\ p' \in Nat
                   /\ needs_balance' \in BOOLEAN
<1>1. ASSUME NEW t \in Threads, Passive(t) \/ MoveToHead(t) \/ BalanceDone(t)
      PROVE  Goal
  BY <1>0, <1>1, PassiveFrame, Zenon DEF MoveToHead, BalanceDone
<1>2. ASSUME NEW t \in Threads, MoveOut(t)
      PROVE  Goal
  <2>1. thr[t].obj \in Objs
    BY <1>2, Zenon DEF MoveOut, Types
  <2> QED
    BY <1>0, <1>2, <2>1, UnlinkCounts, Zenon DEF MoveOut
<1>3. ASSUME NEW t \in Threads, MoveBetween(t)
      PROVE  Goal
  <2>1. thr[t].obj \in Objs /\ thr[t].to \in Lists
    BY <1>3, ThreadField, Zenon DEF MoveBetween, Types, Lists
  <2> QED
    BY <1>0, <1>3, <2>1, RelinkCounts, AdaptedBounds, ZenonT(60) DEF MoveBetween
<1>4. ASSUME NEW t \in Threads, Fetched(t)
      PROVE  Goal
  <2>1. thr[t].size \in Nat
    BY ThreadField, Zenon DEF Types
  <2> QED
    <3> DEFINE to == thr[t].to
               n == thr[t].size
    <3>1. size' = [size EXCEPT ![to] = size[to] + n]
      BY <1>4, Zenon DEF Fetched
    <3> HIDE DEF to, n
    <3>2. to \in Lists => size[to] + n \in Int
      BY <1>0, <2>1 DEF n
    <3>3. size' \in [Lists -> Int]
      BY <1>0, <3>1, <3>2, Zenon
    <3> QED
      BY <1>0, <1>4, <3>3, Zenon DEF Fetched
<1>5. ASSUME NEW t \in Threads, UpdateSize(t)
      PROVE  Goal
  <2>1. CASE UNCHANGED size
    BY <1>0, <1>5, <2>1, Zenon DEF UpdateSize
  <2>2. CASE ~ UNCHANGED size
    <3> DEFINE o == thr[t].obj
               l == obj[o].state
    <3>1. PICK s \in DataSizes : size' = [size EXCEPT ![l] = size[l] - obj[o].size + BaseSize + s]
      BY <1>0, <1>5, <2>2 DEF UpdateSize
    <3>2. o \in Objs
      BY <1>5, Zenon DEF UpdateSize, Types
    <3>3. obj[o].size \in Nat /\ s \in Nat /\ BaseSize \in Nat
      BY <3>2, ObjectField, ArcSizes, Zenon DEF Types
    <3> HIDE DEF o, l
    <3>4. l \in Lists => size[l] - obj[o].size + BaseSize + s \in Int
      BY <1>0, <3>3
    <3>5. size' \in [Lists -> Int]
      BY <1>0, <3>1, <3>4, Zenon
    <3> QED
      BY <1>0, <1>5, <3>5, ZenonT(60) DEF UpdateSize
  <2> QED
    BY <2>1, <2>2
<1>6. ASSUME NEW t \in Threads, EvictMru(t) \/ EvictMfu(t)
      PROVE  Goal
  <2>1. PICK from \in Lists, to \in Lists : ToGhost(t, from, to)
    BY <1>6, Zenon DEF EvictMru, EvictMfu, Lists
  <2>2. lru(from) \in Objs
    BY <2>1, LruType, Zenon DEF Types, ToGhost
  <2> QED
    BY <1>0, <2>1, <2>2, RelinkCounts, Zenon DEF ToGhost
<1>7. ASSUME NEW t \in Threads, ForgetMfu(t) \/ ForgetMru(t)
      PROVE  Goal
  <2>1. PICK l \in Lists : Forget(t, l)
    BY <1>7, Zenon DEF ForgetMfu, ForgetMru, Lists
  <2>2. lru(l) \in Objs
    BY <2>1, LruType, Zenon DEF Types, Forget
  <2> QED
    BY <1>0, <2>1, <2>2, UnlinkCounts, ZenonT(60) DEF Forget
<1>8. ASSUME SetSize
      PROVE  Goal
  BY <1>0, <1>8, ArcSizes, Zenon DEF SetSize
<1> QED
  BY <1>1, <1>2, <1>3, <1>4, <1>5, <1>6, <1>7, <1>8, StepKinds, Zenon

(* Every step keeps the types. *)
LEMMA TypesStep ==
    ASSUME Types, [Next]_vars
    PROVE  Types'
<1>1. CASE Next
  BY <1>1, HashStep, ObjectsStep, ListsStep, NumbersStep, ThreadsStep, Zenon
     DEF Types, ThreadsT, Unheld
<1>2. CASE UNCHANGED vars
  BY <1>2, Zenon DEF Types, vars
<1> QED
  BY <1>1, <1>2

Balancing == {"resident", "ghosts"}

(* MemoryBound made inductive: who balances has the lock, a balance stays due
   until it is made, and past the first loop the resident lists fit. *)
Bounded ==
    /\ p <= c
    /\ \A t \in Threads : thr[t].pc \in Balancing => lock = t /\ needs_balance
    /\ \A t \in Threads : thr[t].pc = "ghosts" => size["mru"] + size["mfu"] <= c
    /\ MemoryBound

(* What the counters are in arithmetic. *)
LEMMA Counters ==
    ASSUME Types
    PROVE  /\ size["mru"] \in Int /\ size["mfu"] \in Int
           /\ size["mrug"] \in Int /\ size["mfug"] \in Int
           /\ Total \in Int /\ c \in Nat /\ p \in Nat
  BY DEF Types, Lists, Total

(* With p below c the loops of arc_balance end only when the lists fit. *)
LEMMA LoopsFit ==
    ASSUME Types, p <= c
    PROVE  /\ ~ (Over("mru", "mfu") /\ (size["mru"] > p \/ OverRest("mfu")))
                 => size["mru"] + size["mfu"] <= c
           /\ ~ (Over("mrug", "mfug") /\ (size["mfug"] > p \/ OverRest("mrug")))
                 => size["mrug"] + size["mfug"] <= c
  BY Counters DEF Over, OverRest

(* A step of t that leaves the numbers and the lock alone, and with which
   nobody enters arc_balance. *)
LEMMA BoundedQuiet ==
    ASSUME Types, Bounded, UNCHANGED <<size, c, p, needs_balance, lock>>,
           \A u \in Threads : thr'[u].pc \in Balancing => thr'[u].pc = thr[u].pc
    PROVE  Bounded'
<1>1. MemoryBound' /\ p' <= c'
  BY DEF Bounded, MemoryBound, Total
<1>2. \A u \in Threads : thr'[u].pc \in Balancing => lock' = u /\ needs_balance'
  BY DEF Bounded
<1>3. \A u \in Threads : thr'[u].pc = "ghosts" => size'["mru"] + size'["mfu"] <= c'
  BY DEF Bounded, Balancing
<1> QED
  BY <1>1, <1>2, <1>3 DEF Bounded

(* A step that needs the lock, and leaves arc_balance to others. *)
LEMMA BoundedLocked ==
    ASSUME Types, Bounded, lock = NoThread, UNCHANGED c, p' <= c,
           \A u \in Threads : thr'[u].pc \in Balancing => thr'[u].pc = thr[u].pc,
           MemoryBound'
    PROVE  Bounded'
<1>1. \A u \in Threads : thr[u].pc \notin Balancing
  BY ArcNames DEF Bounded
<1>2. \A u \in Threads : thr'[u].pc \notin Balancing
  BY <1>1
<1> QED
  BY <1>2 DEF Bounded, Balancing

(* Nobody enters arc_balance with a step that takes t elsewhere. *)
KeepsOut == \A u \in Threads : thr'[u].pc \in Balancing => thr'[u].pc = thr[u].pc

LEMMA GotoElsewhere ==
    ASSUME Types, NEW t \in Threads, NEW pc, pc \notin Balancing, Goto(t, pc)
    PROVE  KeepsOut
<1>1. thr \in [Threads -> Thread] /\ thr[t] \in Thread
  BY Zenon DEF Types
<1>2. thr'[t].pc = pc
  BY <1>1, Zenon DEF Goto, Thread
<1>3. \A u \in Threads : u # t => thr'[u] = thr[u]
  BY <1>1, Zenon DEF Goto
<1> QED
  BY <1>2, <1>3 DEF KeepsOut

LEMMA BecomesElsewhere ==
    ASSUME Types, NEW t \in Threads, NEW r, r.pc \notin Balancing, thr' = [thr EXCEPT ![t] = r]
    PROVE  KeepsOut
<1>1. thr \in [Threads -> Thread]
  BY Zenon DEF Types
<1>2. thr'[t] = r /\ \A u \in Threads : u # t => thr'[u] = thr[u]
  BY <1>1, Zenon
<1> QED
  BY <1>2 DEF KeepsOut

(* Every step keeps Bounded, unless the size is configured anew. *)
LEMMA BoundedStep ==
    ASSUME Types, Bounded, [Next]_vars, NewSizes = {}
    PROVE  Bounded'
<1>0. thr \in [Threads -> Thread] /\ p <= c
  BY Zenon DEF Types, Bounded
<1>1. ASSUME NEW t \in Threads,
             \/ Insert(t) \/ Check(t) \/ StartFetch(t) \/ FetchFits(t) \/ FetchedUncached(t)
             \/ FetchFailed(t) \/ Release(t) \/ Drop(t)
             \/ Clear(t) \/ \E k \in Keys : Lookup(t, k) \/ Remove(t, k) \/ Load(t, k)
      PROVE  Bounded'
  <2>1. UNCHANGED <<size, c, p, needs_balance, lock>>
    BY <1>1, ZenonT(60) DEF Insert, Check, StartFetch, FetchFits, FetchedUncached, FetchFailed,
                       Release, Drop, Clear, Lookup, Remove, Load
  <2>2. \A u \in Threads : thr'[u].pc \in Balancing => thr'[u].pc = thr[u].pc
    <3>1. CASE Check(t) \/ StartFetch(t) \/ FetchedUncached(t)
      <4>1. PICK pc : pc \notin Balancing /\ Goto(t, pc)
        BY <3>1 DEF Check, StartFetch, FetchedUncached, Balancing
      <4> QED
        BY <4>1, GotoElsewhere DEF KeepsOut
    <3>2. CASE FetchFailed(t) \/ Release(t)
      <4>1. thr' = [thr EXCEPT ![t] = Idle]
        BY <3>2, Zenon DEF FetchFailed, Release
      <4> QED
        BY <4>1, IdleType, BecomesElsewhere DEF KeepsOut, Balancing
    <3>3. CASE Clear(t) \/ \E k \in Keys : Load(t, k)
      <4>1. UNCHANGED thr
        BY <3>3, Zenon DEF Clear, Load
      <4> QED
        BY <4>1
    <3>4. CASE Drop(t)
      BY <1>0, <3>4 DEF Drop, Thread, Balancing
    <3>5. CASE FetchFits(t)
      BY <1>0, <3>5 DEF FetchFits, Thread, Balancing
    <3>6. CASE Insert(t)
      <4>1. CASE Goto(t, "lookup")
        BY <4>1, GotoElsewhere DEF KeepsOut, Balancing
      <4>2. CASE \E o \in Objs : thr' = [thr EXCEPT ![t].pc = "move", ![t].obj = o,
                                                    ![t].to = "mru", ![t].new = TRUE]
        BY <1>0, <4>2 DEF Thread, Balancing
      <4> QED
        BY <3>6, <4>1, <4>2, Zenon DEF Insert
    <3>7. CASE \E k \in Keys : Lookup(t, k) \/ Remove(t, k)
      <4>1. PICK k \in Keys : Lookup(t, k) \/ Remove(t, k)
        BY <3>7
      <4>2. PICK r : r.pc \notin Balancing /\ thr' = [thr EXCEPT ![t] = r]
        BY <4>1, Zenon DEF Lookup, Remove, Idle, Balancing
      <4> QED
        BY <4>2, BecomesElsewhere DEF KeepsOut
    <3> QED
      BY <1>1, <3>1, <3>2, <3>3, <3>4, <3>5, <3>6, <3>7
  <2> QED
    BY <2>1, <2>2, BoundedQuiet
<1>2. ASSUME NEW t \in Threads, StartBalance(t)
      PROVE  Bounded'
  <2>1. CASE ~ needs_balance
    <3>1. \A u \in Threads : thr'[u].pc \in Balancing => thr'[u].pc = thr[u].pc
      BY <1>2, <2>1, GotoElsewhere DEF StartBalance, KeepsOut, Balancing
    <3>2. UNCHANGED <<size, c, p, needs_balance, lock>>
      BY <1>2, <2>1, Zenon DEF StartBalance
    <3> QED
      BY <3>1, <3>2, BoundedQuiet
  <2>2. CASE needs_balance
    <3>1. /\ lock = NoThread /\ lock' = t /\ Goto(t, "resident")
          /\ UNCHANGED <<size, c, p, needs_balance>>
      BY <1>2, <2>2, Zenon DEF StartBalance
    <3>2. \A u \in Threads : thr[u].pc \notin Balancing
      BY <3>1, ArcNames DEF Bounded
    <3>3. \A u \in Threads : thr'[u].pc \in Balancing => u = t /\ thr'[u].pc = "resident"
      BY <1>0, <3>1, <3>2 DEF Goto
    <3>4. MemoryBound' /\ p' <= c'
      BY <3>1 DEF Bounded, MemoryBound, Total
    <3> QED
      BY <2>2, <3>1, <3>3, <3>4 DEF Bounded, Balancing
  <2> QED
    BY <2>1, <2>2
<1>3. ASSUME NEW t \in Threads, ResidentDone(t)
      PROVE  Bounded'
  <2>1. Goto(t, "ghosts") /\ UNCHANGED <<size, c, p, needs_balance, lock>> /\ thr[t].pc = "resident"
    BY <1>3, Zenon DEF ResidentDone
  <2>2. size["mru"] + size["mfu"] <= c
    BY <1>0, <1>3, LoopsFit DEF ResidentDone
  <2>3. \A u \in Threads : thr'[u].pc \in Balancing => thr[u].pc \in Balancing
    BY <1>0, <2>1 DEF Goto, Balancing
  <2>4. MemoryBound' /\ p' <= c'
    BY <2>1, SMTT(60) DEF Bounded, MemoryBound, Total
  <2> QED
    BY <2>1, <2>2, <2>3, <2>4 DEF Bounded
<1>4. ASSUME NEW t \in Threads, MoveToHead(t)
      PROVE  Bounded'
  <2>1. \A u \in Threads : thr'[u].pc \in Balancing => thr'[u].pc = thr[u].pc
    BY <1>0, <1>4 DEF MoveToHead, Goto, Balancing
  <2> QED
    BY <1>4, <2>1, BoundedQuiet DEF MoveToHead
<1>5. ASSUME NEW t \in Threads, MoveOut(t)
      PROVE  Bounded'
  <2>1. \A u \in Threads : thr'[u].pc \in Balancing => thr'[u].pc = thr[u].pc
    BY <1>0, <1>5 DEF MoveOut, Goto, Balancing
  <2>2. thr[t].obj \in Objs
    BY <1>5, Zenon DEF MoveOut, Types
  <2>3. size' \in [Lists -> Int] /\ \A l \in Lists : size'[l] <= size[l]
    <3>1. CASE UNCHANGED size
      BY <3>1 DEF Types
    <3>2. CASE Unlink(thr[t].obj)
      BY <2>2, <3>2, UnlinkCounts
    <3> QED
      BY <1>5, <3>1, <3>2, Zenon DEF MoveOut
  <2>4. Total' <= Total /\ Total' \in Int
    BY <2>3, Counters DEF Total, Lists
  <2>5. UNCHANGED <<c, p, needs_balance>> /\ lock = NoThread
    BY <1>5, Zenon DEF MoveOut
  <2>6. MemoryBound'
    BY <2>4, <2>5, Counters DEF Bounded, MemoryBound
  <2> QED
    BY <1>0, <2>1, <2>5, <2>6, BoundedLocked
<1>6. ASSUME NEW t \in Threads, MoveBetween(t)
      PROVE  Bounded'
  <2>1. \A u \in Threads : thr'[u].pc \in Balancing => thr'[u].pc = thr[u].pc
    BY <1>0, <1>6 DEF MoveBetween, Goto, Balancing
  <2>2. thr[t].obj \in Objs /\ thr[t].to \in Lists
    BY <1>6, ThreadField, Zenon DEF MoveBetween, Types, Lists
  <2>3. obj[thr[t].obj].state \in Lists \ {thr[t].to}
    BY <1>6, <2>2, ObjectField, Zenon DEF MoveBetween, Types
  <2>4. Total' = Total
    BY <1>6, <2>2, <2>3, RelinkCounts, Zenon DEF MoveBetween
  <2>5. UNCHANGED <<c, needs_balance>> /\ lock = NoThread
    BY <1>6, Zenon DEF MoveBetween
  <2>6. p' <= c
    BY <1>0, <1>6, AdaptedBounds, Zenon DEF MoveBetween
  <2>7. MemoryBound'
    BY <2>4, <2>5 DEF Bounded, MemoryBound
  <2> QED
    BY <2>1, <2>5, <2>6, <2>7, BoundedLocked
<1>7. ASSUME NEW t \in Threads, Fetched(t) \/ UpdateSize(t)
      PROVE  Bounded'
  <2>1. \A u \in Threads : thr'[u].pc \in Balancing => thr'[u].pc = thr[u].pc
    <3>1. CASE Fetched(t)
      BY <1>0, <3>1 DEF Fetched, Thread, Balancing
    <3>2. CASE UpdateSize(t)
      BY <3>2, Zenon DEF UpdateSize
    <3> QED
      BY <1>7, <3>1, <3>2, SMTT(60)
  <2>2. UNCHANGED <<c, p>> /\ lock = NoThread /\ needs_balance'
    BY <1>7, ZenonT(60) DEF Fetched, UpdateSize
  <2> QED
    BY <1>0, <2>1, <2>2, BoundedLocked DEF MemoryBound
<1>8. ASSUME NEW t \in Threads, EvictMru(t) \/ EvictMfu(t)
      PROVE  Bounded'
  <2>1. thr[t].pc = "resident" /\ UNCHANGED <<c, p, needs_balance, lock, thr>>
    BY <1>8, Zenon DEF EvictMru, EvictMfu, ToGhost
  <2>2. lock = t /\ needs_balance
    BY <2>1 DEF Bounded, Balancing
  <2>3. \A u \in Threads : thr[u].pc # "ghosts"
    BY <2>1, <2>2 DEF Bounded, Balancing
  <2> QED
    BY <2>1, <2>2, <2>3 DEF Bounded, MemoryBound
<1>9. ASSUME NEW t \in Threads, ForgetMfu(t) \/ ForgetMru(t)
      PROVE  Bounded'
  <2>1. PICK l \in Lists : Forget(t, l)
    BY <1>9, Zenon DEF ForgetMfu, ForgetMru, Lists
  <2>2. lru(l) \in Objs
    BY <2>1, LruType, Zenon DEF Types, Forget
  <2>3. size' \in [Lists -> Int] /\ \A m \in Lists : size'[m] <= size[m]
    BY <2>1, <2>2, UnlinkCounts, Zenon DEF Forget
  <2>4. thr[t].pc = "ghosts" /\ UNCHANGED <<c, p, needs_balance, lock, thr>>
    BY <2>1, Zenon DEF Forget
  <2>5. needs_balance /\ size["mru"] + size["mfu"] <= c
    BY <2>4 DEF Bounded, Balancing
  <2>6. size'["mru"] + size'["mfu"] <= c
    <3>1. /\ size'["mru"] \in Int /\ size'["mfu"] \in Int
          /\ size'["mru"] <= size["mru"] /\ size'["mfu"] <= size["mfu"]
      BY <2>3 DEF Lists
    <3> QED
      BY <2>5, <3>1, Counters
  <2> QED
    BY <2>4, <2>5, <2>6 DEF Bounded, MemoryBound
<1>10. ASSUME NEW t \in Threads, BalanceDone(t)
       PROVE  Bounded'
  <2>1. thr[t].pc = "ghosts" /\ Goto(t, "hold") /\ UNCHANGED <<size, c, p>>
    BY <1>10, Zenon DEF BalanceDone
  <2>2. size["mru"] + size["mfu"] <= c /\ lock = t
    BY <2>1 DEF Bounded, Balancing
  <2>3. size["mrug"] + size["mfug"] <= c
    BY <1>0, <1>10, LoopsFit DEF BalanceDone
  <2>4. MemoryBound'
    BY <2>1, <2>2, <2>3, Counters DEF MemoryBound, Total
  <2>5. \A u \in Threads : thr'[u].pc \notin Balancing
    BY <1>0, <2>1, <2>2 DEF Goto, Balancing, Bounded
  <2> QED
    BY <1>0, <2>1, <2>4, <2>5 DEF Bounded, Balancing
<1>11. CASE SetSize
  BY <1>11 DEF SetSize
<1>12. CASE UNCHANGED vars
  BY <1>12, BoundedQuiet DEF vars
<1> QED
  BY <1>1, <1>2, <1>3, <1>4, <1>5, <1>6, <1>7, <1>8, <1>9, <1>10, <1>11, <1>12, StepKinds, ZenonT(60)
     DEF Passive

(* The first state. *)
LEMMA InitTypes == Init => Types /\ Bounded
<1> SUFFICES ASSUME Init PROVE Types /\ Bounded
  OBVIOUS
<1>1. Capacity \in Nat /\ Capacity \div 2 \in Nat /\ Capacity \div 2 <= Capacity
      /\ 0 \in Nat /\ 0 \in Int
  BY ArcSizes
<1>2. Free \in ObjectI
  BY <1>1, Zenon DEF Free, ObjectI
<1>3. Idle \in Thread /\ Idle.pc = "idle"
  BY IdleType
<1>4. hash \in [Keys -> Objs \cup {NoObj}] /\ obj \in [Objs -> ObjectI]
  BY <1>2, Zenon DEF Init
<1>5. << >> \in Seq(Objs) /\ 0 \in Int
  OBVIOUS
<1>6. lists \in [Lists -> Seq(Objs)] /\ size \in [Lists -> Int]
  BY <1>5, Zenon DEF Init
<1>7. /\ thr \in [Threads -> Thread]
      /\ \A t \in Threads : thr[t].pc = "idle"
  BY <1>3, Zenon DEF Init
<1>8. c \in Nat /\ p \in Nat /\ p <= c /\ needs_balance = FALSE
  BY <1>1 DEF Init
<1>9. MemoryBound
  BY <1>1 DEF Init, MemoryBound, Total, Lists
<1>10. Types
  BY <1>4, <1>6, <1>7, <1>8, Zenon DEF Types
<1> QED
  BY <1>7, <1>8, <1>9, <1>10 DEF Bounded, Balancing

(* However many threads use the cache, and whatever they fetch, update, drop and
   remove, the lists hold no more than the configured size while no balance is
   due, as long as the size is not changed.  With a size that shrinks below p it
   is not so, as the run arc_resize shows. *)
THEOREM MemoryBounded ==
    ASSUME NewSizes = {}
    PROVE  Spec => []MemoryBound
<1>1. Init => Types /\ Bounded
  BY InitTypes
<1>2. Types /\ Bounded /\ [Next]_vars => Types' /\ Bounded'
  BY TypesStep, BoundedStep
<1>3. Bounded => MemoryBound
  BY DEF Bounded
<1> QED
  BY <1>1, <1>2, <1>3, PTL DEF Spec

-----------------------------------------------------------------------------
(* Lists and objects agree *)

(* Only a move into a list fetches. *)
Targets == \A t \in Threads : thr[t].pc \in {"fetch", "link"} => thr[t].to \in Lists

Linked == StateIsList /\ LockedIsUnlisted /\ Targets

Agree == \A o \in Objs, l \in Lists : In(lists[l], o) <=> obj[o].state = l

LEMMA AgreeIsState == StateIsList <=> (Intact => Agree)
  BY Zenon DEF StateIsList, Agree, In

LEMMA ListedIn == \A o : IsListed(o) <=> \E l \in Lists : In(lists[l], o)
  BY Zenon DEF IsListed, In

(* What happens to an object that is not moved: it stays as it is, or is
   locked while in no list, or is freed, or was free and becomes a new one. *)
Stays(o) ==
    \/ /\ obj'[o].state = obj[o].state /\ obj'[o].size = obj[o].size
       /\ obj'[o].locked => obj[o].locked \/ obj[o].state = "none"
    \/ obj'[o].state = "none" /\ obj'[o].refs = 0
    \/ Unused(o) /\ obj'[o].state = "none"

LEMMA NotAList == "none" \notin Lists
  BY DEF Lists

LEMMA QuietAgree ==
    ASSUME Types, Agree, UNCHANGED lists, \A o \in Objs : Stays(o), Intact'
    PROVE  Agree'
<1> SUFFICES ASSUME NEW o \in Objs, NEW l \in Lists
             PROVE  In(lists[l], o) <=> obj'[o].state = l
  BY Zenon DEF Agree
<1>1. CASE obj'[o].state = obj[o].state
  BY <1>1, Zenon DEF Agree
<1>2. CASE obj'[o].state = "none" /\ obj'[o].refs = 0
  <2>1. ~ IsListed(o)'
    BY <1>2 DEF Intact
  <2>2. ~ In(lists[l], o)
    BY <2>1, Zenon DEF IsListed, In
  <2> QED
    BY <1>2, <2>2, NotAList
<1>3. CASE Unused(o) /\ obj'[o].state = "none"
  BY <1>3, ListedIn, NotAList, Zenon DEF Unused
<1> QED
  BY <1>1, <1>2, <1>3, Zenon DEF Stays

LEMMA QuietLocked ==
    ASSUME LockedIsUnlisted, \A o \in Objs : Stays(o) \/ (obj'[o].locked => obj'[o].state = "none")
    PROVE  LockedIsUnlisted'
  BY Zenon DEF LockedIsUnlisted, Stays

(* Objects other than o are as they were. *)
Others(o) == \A x \in Objs \ {o} : obj'[x] = obj[x]

LEMMA UniqueIn ==
    ASSUME Intact, NEW l \in Lists
    PROVE  \A i, j \in 1 .. Len(lists[l]) : lists[l][i] = lists[l][j] => i = j
  BY Zenon DEF Intact

LEMMA RemoveAgree ==
    ASSUME Types, Intact, Agree, NEW o \in Objs, NEW l \in Lists, obj[o].state = l,
           lists' = [lists EXCEPT ![l] = Without(lists[l], o)],
           obj'[o].state = "none", Others(o)
    PROVE  Agree'
<1>1. In(lists[l], o) /\ lists[l] \in Seq(Objs) /\ lists \in [Lists -> Seq(Objs)]
  BY Zenon DEF Agree, Types
<1>2. \A x : In(Without(lists[l], o), x) <=> x # o /\ In(lists[l], x)
  BY <1>1, WithoutFacts, UniqueIn, Zenon
<1>3. lists'[l] = Without(lists[l], o) /\ \A m \in Lists \ {l} : lists'[m] = lists[m]
  BY <1>1, Zenon
<1>4. ASSUME NEW x \in Objs, NEW m \in Lists
      PROVE  In(lists'[m], x) <=> obj'[x].state = m
  <2>1. CASE x = o
    <3>1. ~ In(lists'[m], x)
      <4>1. CASE m = l
        BY <1>2, <1>3, <2>1, <4>1, Zenon
      <4>2. CASE m # l
        BY <1>3, <2>1, <4>2, ZenonT(60) DEF Agree
      <4> QED
        BY <4>1, <4>2
    <3> QED
      BY <2>1, <3>1, NotAList
  <2>2. CASE x # o
    <3>1. obj'[x].state = obj[x].state
      BY <2>2, Zenon DEF Others
    <3>2. In(lists'[m], x) <=> In(lists[m], x)
      BY <1>2, <1>3, <2>2, Zenon
    <3> QED
      BY <3>1, <3>2, Zenon DEF Agree
  <2> QED
    BY <2>1, <2>2
<1> QED
  BY <1>4, Zenon DEF Agree

LEMMA MoveAgree ==
    ASSUME Types, Intact, Agree, NEW o \in Objs, NEW l \in Lists, NEW to \in Lists \ {l},
           obj[o].state = l,
           lists' = [lists EXCEPT ![l] = Without(lists[l], o), ![to] = <<o>> \o lists[to]],
           obj'[o].state = to, Others(o)
    PROVE  Agree'
<1>1. In(lists[l], o) /\ lists[l] \in Seq(Objs) /\ lists[to] \in Seq(Objs)
      /\ lists \in [Lists -> Seq(Objs)]
  BY Zenon DEF Agree, Types
<1>2. \A x : In(Without(lists[l], o), x) <=> x # o /\ In(lists[l], x)
  BY <1>1, WithoutFacts, UniqueIn, ZenonT(60)
<1>3. \A x : In(<<o>> \o lists[to], x) <=> x = o \/ In(lists[to], x)
  BY <1>1, PrependFacts
<1>4. /\ lists'[l] = Without(lists[l], o) /\ lists'[to] = <<o>> \o lists[to]
      /\ \A m \in Lists \ {l, to} : lists'[m] = lists[m]
  BY <1>1, Zenon
<1>5. ASSUME NEW x \in Objs, NEW m \in Lists
      PROVE  In(lists'[m], x) <=> obj'[x].state = m
  <2>1. CASE x = o
    <3>1. CASE m = l
      BY <1>2, <1>4, <2>1, <3>1, Zenon
    <3>2. CASE m = to
      BY <1>3, <1>4, <2>1, <3>2, Zenon
    <3>3. CASE m \notin {l, to}
      BY <1>4, <2>1, <3>3, Zenon DEF Agree
    <3> QED
      BY <3>1, <3>2, <3>3, Zenon
  <2>2. CASE x # o
    <3>1. obj'[x].state = obj[x].state
      BY <2>2, Zenon DEF Others
    <3>2. In(lists'[m], x) <=> In(lists[m], x)
      BY <1>2, <1>3, <1>4, <2>2, ZenonT(60)
    <3> QED
      BY <3>1, <3>2, Zenon DEF Agree
  <2> QED
    BY <2>1, <2>2
<1> QED
  BY <1>5, Zenon DEF Agree

LEMMA HeadAgree ==
    ASSUME Types, Intact, Agree, NEW o \in Objs, NEW l \in Lists, obj[o].state = l,
           lists' = [lists EXCEPT ![l] = <<o>> \o Without(lists[l], o)], UNCHANGED obj
    PROVE  Agree'
<1>1. In(lists[l], o) /\ lists[l] \in Seq(Objs) /\ lists \in [Lists -> Seq(Objs)]
  BY Zenon DEF Agree, Types
<1>2. /\ Without(lists[l], o) \in Seq(Objs)
      /\ \A x : In(Without(lists[l], o), x) <=> x # o /\ In(lists[l], x)
  BY <1>1, WithoutFacts, UniqueIn, Zenon
<1>3. \A x : In(<<o>> \o Without(lists[l], o), x) <=> x = o \/ In(Without(lists[l], o), x)
  BY <1>2, PrependFacts, Zenon
<1>4. /\ lists'[l] = <<o>> \o Without(lists[l], o)
      /\ \A m \in Lists \ {l} : lists'[m] = lists[m]
  BY <1>1, Zenon
<1>5. \A x, m : m \in Lists => (In(lists'[m], x) <=> In(lists[m], x))
  BY <1>1, <1>2, <1>3, <1>4, Zenon
<1> QED
  BY <1>5, Zenon DEF Agree

(* Linking an object that is linked already tears the lists. *)
LEMMA AddUnlisted ==
    ASSUME Types, NEW o \in Objs, NEW to \in Lists,
           lists' = [lists EXCEPT ![to] = <<o>> \o lists[to]], Intact'
    PROVE  \A m \in Lists : ~ In(lists[m], o)
<1>1. lists[to] \in Seq(Objs) /\ lists \in [Lists -> Seq(Objs)]
  BY Zenon DEF Types
<1>2. lists'[to] = <<o>> \o lists[to] /\ \A m \in Lists \ {to} : lists'[m] = lists[m]
  BY <1>1, Zenon
<1>3. ASSUME NEW m \in Lists, In(lists[m], o)
      PROVE  FALSE
  <2>1. PICK i \in 1 .. Len(lists[m]) : lists[m][i] = o
    BY <1>3 DEF In
  <2>0. \A k \in Lists, n \in Lists :
           \A a \in 1 .. Len(lists'[k]), b \in 1 .. Len(lists'[n]) :
              lists'[k][a] = lists'[n][b] => k = n /\ a = b
    BY Zenon DEF Intact
  <2>2. 1 \in 1 .. Len(lists'[to]) /\ lists'[to][1] = o
    BY <1>1, <1>2
  <2>3. CASE m = to
    <3>1. i + 1 \in 1 .. Len(lists'[to]) /\ lists'[to][i + 1] = o /\ i + 1 # 1
      BY <1>1, <1>2, <2>1, <2>3
    <3> QED
      BY <2>0, <2>2, <3>1
  <2>4. CASE m # to
    <3>1. i \in 1 .. Len(lists'[m]) /\ lists'[m][i] = o
      BY <1>2, <2>1, <2>4, Zenon
    <3> QED
      BY <2>0, <2>2, <2>4, <3>1
  <2> QED
    BY <2>3, <2>4
<1> QED
  BY <1>3, Zenon

LEMMA AddAgree ==
    ASSUME Types, Agree, NEW o \in Objs, NEW to \in Lists,
           lists' = [lists EXCEPT ![to] = <<o>> \o lists[to]],
           obj'[o].state = to, Others(o), Intact'
    PROVE  Agree'
<1>1. lists[to] \in Seq(Objs) /\ lists \in [Lists -> Seq(Objs)]
  BY Zenon DEF Types
<1>2. lists'[to] = <<o>> \o lists[to] /\ \A m \in Lists \ {to} : lists'[m] = lists[m]
  BY <1>1, Zenon
<1>3. \A x : In(<<o>> \o lists[to], x) <=> x = o \/ In(lists[to], x)
  BY <1>1, PrependFacts
<1>4. \A m \in Lists : ~ In(lists[m], o)
  BY AddUnlisted, Zenon
<1>5. ASSUME NEW x \in Objs, NEW m \in Lists
      PROVE  In(lists'[m], x) <=> obj'[x].state = m
  <2>1. CASE x = o
    <3>1. In(lists'[m], x) <=> m = to
      BY <1>2, <1>3, <1>4, <2>1, Zenon
    <3> QED
      BY <2>1, <3>1, Zenon
  <2>2. CASE x # o
    <3>1. obj'[x].state = obj[x].state
      BY <2>2, Zenon DEF Others
    <3>2. In(lists'[m], x) <=> In(lists[m], x)
      BY <1>2, <1>3, <2>2, Zenon
    <3> QED
      BY <3>1, <3>2, Zenon DEF Agree
  <2> QED
    BY <2>1, <2>2
<1> QED
  BY <1>5, Zenon DEF Agree

(* An object that gives up a reference is freed, or stays as it is. *)
LEMMA ReleasedStays ==
    ASSUME NEW r \in ObjectI
    PROVE  \/ Released(r).state = "none" /\ Released(r).refs = 0 /\ Released(r).locked = FALSE
           \/ /\ Released(r).state = r.state /\ Released(r).locked = r.locked
              /\ Released(r).size = r.size
<1>1. CASE r.refs = 1
  BY <1>1 DEF Released, Free
<1>2. CASE r.refs # 1
  <2>1. Released(r) = [r EXCEPT !.refs = r.refs - 1]
    BY <1>2, Zenon DEF Released
  <2> QED
    BY <2>1, Zenon DEF ObjectI
<1> QED
  BY <1>1, <1>2, Zenon

(* The steps that move nothing. *)
LEMMA PassiveStays ==
    ASSUME Types, NEW t \in Threads, Passive(t)
    PROVE  \A o \in Objs : Stays(o)
<1>0. obj \in [Objs -> ObjectI] /\ \A o \in Objs : obj[o] \in ObjectI
  BY Zenon DEF Types
<1>1. ASSUME UNCHANGED obj
      PROVE  \A o \in Objs : Stays(o)
  BY <1>1, Zenon DEF Stays
<1>2. ASSUME NEW o \in Objs, NEW r, obj' = [obj EXCEPT ![o] = r],
             \/ /\ r.state = obj[o].state /\ r.size = obj[o].size
                /\ r.locked => obj[o].locked \/ obj[o].state = "none"
             \/ r.state = "none" /\ r.refs = 0
             \/ Unused(o) /\ r.state = "none"
      PROVE  \A x \in Objs : Stays(x)
  <2>1. obj'[o] = r /\ \A x \in Objs : x # o => obj'[x] = obj[x]
    BY <1>0, <1>2, Zenon
  <2> QED
    BY <1>2, <2>1, Zenon DEF Stays
<1>3. ASSUME NEW o \in Objs, obj' = [obj EXCEPT ![o].refs = @ + 1]
      PROVE  \A x \in Objs : Stays(x)
  <2> DEFINE r == [obj[o] EXCEPT !.refs = obj[o].refs + 1]
  <2>1. obj' = [obj EXCEPT ![o] = r]
    BY <1>0, <1>3
  <2>2. r.state = obj[o].state /\ r.locked = obj[o].locked /\ r.size = obj[o].size
    BY <1>0, Zenon DEF ObjectI
  <2> HIDE DEF r
  <2> QED
    BY <1>2, <2>1, <2>2, Zenon
<1>4. CASE \E k \in Keys : Lookup(t, k) \/ Remove(t, k)
  <2>1. PICK k \in Keys : Lookup(t, k) \/ Remove(t, k)
    BY <1>4
  <2>2. CASE hash[k] = NoObj
    BY <1>1, <2>1, <2>2, Zenon DEF Lookup, Remove
  <2>3. CASE hash[k] # NoObj
    <3>1. hash[k] \in Objs
      BY <2>3, Zenon DEF Types
    <3> QED
      BY <1>3, <2>1, <2>3, <3>1, Zenon DEF Lookup, Remove
  <2> QED
    BY <2>2, <2>3
<1>5. ASSUME NEW o \in Objs, NEW k, NEW n, Unused(o),
             obj' = [obj EXCEPT ![o] = [Free EXCEPT !.key = k, !.size = BaseSize, !.refs = n]]
      PROVE  \A x \in Objs : Stays(x)
  <2> DEFINE r == [Free EXCEPT !.key = k, !.size = BaseSize, !.refs = n]
  <2>1. r.state = "none"
    BY DEF Free
  <2> HIDE DEF r
  <2> QED
    BY <1>2, <1>5, <2>1, Zenon DEF r
<1>6. CASE Insert(t)
  <2>1. CASE UNCHANGED obj
    BY <1>1, <2>1
  <2>2. CASE ~ UNCHANGED obj
    <3>1. PICK o \in Objs :
             /\ Unused(o)
             /\ obj' = [obj EXCEPT ![o] = [Free EXCEPT !.key = thr[t].key, !.size = BaseSize,
                                                       !.refs = 2]]
      BY <1>6, <2>2, Zenon DEF Insert
    <3> QED
      BY <1>5, <3>1, Zenon
  <2> QED
    BY <2>1, <2>2
<1>7. CASE \E k \in Keys : Load(t, k)
  BY <1>5, <1>7, Zenon DEF Load
<1>8. CASE StartFetch(t)
  <2> DEFINE o == thr[t].obj
             r == [obj[o] EXCEPT !.locked = TRUE]
  <2>1. o \in Objs
    BY <1>8, Zenon DEF StartFetch, Types
  <2>2. obj' = [obj EXCEPT ![o] = r]
    BY <1>0, <1>8, <2>1 DEF StartFetch
  <2>3. r.state = obj[o].state /\ r.size = obj[o].size
    BY <1>0, <2>1, Zenon DEF ObjectI
  <2>4. obj[o].state = "none"
    BY <1>8, Zenon DEF StartFetch
  <2> HIDE DEF r, o
  <2> QED
    BY <1>2, <2>1, <2>2, <2>3, <2>4, Zenon
<1>9. CASE FetchedUncached(t) \/ Release(t)
  <2>1. thr[t].obj \in Objs
    BY <1>9, Zenon DEF FetchedUncached, Release, Types
  <2>2. \/ obj' = [obj EXCEPT ![thr[t].obj] = Released(obj[thr[t].obj])]
        \/ UNCHANGED obj
    BY <1>0, <1>9, <2>1, Zenon DEF FetchedUncached, HashDelete, Release
  <2> QED
    BY <1>0, <1>1, <1>2, <2>1, <2>2, ReleasedStays, Zenon
<1>10. CASE FetchFailed(t)
  <2> DEFINE o == thr[t].obj
  <2>1. o \in Objs
    BY <1>10, ZenonT(60) DEF FetchFailed, Types
  <2>2. PICK n : obj' = [obj EXCEPT ![o] = IF obj[o].refs = n THEN Free
                                           ELSE [obj[o] EXCEPT !.refs = obj[o].refs - n]]
    BY <1>0, <1>10, <2>1, Zenon DEF FetchFailed
  <2>3. Free.state = "none" /\ Free.refs = 0
    BY DEF Free
  <2>4. CASE obj[o].refs = n
    BY <1>2, <2>1, <2>2, <2>3, <2>4, Zenon
  <2>5. CASE obj[o].refs # n
    <3> DEFINE r == [obj[o] EXCEPT !.refs = obj[o].refs - n]
    <3>1. r.state = obj[o].state /\ r.locked = obj[o].locked /\ r.size = obj[o].size
      BY <1>0, <2>1, Zenon DEF ObjectI
    <3>2. obj' = [obj EXCEPT ![o] = r]
      BY <2>2, <2>5, Zenon
    <3> HIDE DEF r, o
    <3> QED
      BY <1>2, <2>1, <3>1, <3>2, Zenon
  <2> QED
    BY <2>4, <2>5
<1>11. CASE Clear(t)
  <2>1. \A o \in Objs : obj'[o] = Released(obj[o]) \/ obj'[o] = obj[o]
    BY <1>11, Zenon DEF Clear
  <2> QED
    BY <1>0, <2>1, ReleasedStays, Zenon DEF Stays
<1>12. CASE Check(t) \/ FetchFits(t) \/ StartBalance(t) \/ ResidentDone(t) \/ Drop(t)
  BY <1>1, <1>12, Zenon DEF Check, FetchFits, StartBalance, ResidentDone, Drop
<1> QED
  BY <1>4, <1>6, <1>7, <1>8, <1>9, <1>10, <1>11, <1>12, Zenon DEF Passive

Fetching == {"fetch", "link"}

(* Who fetches came from arc_move with a list to put the object in. *)
LEMMA TargetsStep ==
    ASSUME Types, Targets, Next
    PROVE  Targets'
<1>0. thr \in [Threads -> Thread] /\ \A t \in Threads : thr[t] \in Thread
  BY Zenon DEF Types
<1>1. ASSUME NEW t \in Threads, NEW r, thr' = [thr EXCEPT ![t] = r],
             r.pc \in Fetching => r.to \in Lists
      PROVE  Targets'
  <2>1. thr'[t] = r /\ \A u \in Threads : u # t => thr'[u] = thr[u]
    BY <1>0, <1>1, Zenon
  <2> QED
    BY <1>1, <2>1, Zenon DEF Targets, Fetching
<1>2. ASSUME UNCHANGED thr
      PROVE  Targets'
  BY <1>2, Zenon DEF Targets
<1>3. ASSUME NEW t \in Threads, NEW pc, Goto(t, pc), pc \in Fetching => thr[t].to \in Lists
      PROVE  Targets'
  <2> DEFINE r == [thr[t] EXCEPT !.pc = pc]
  <2>1. r.pc = pc /\ r.to = thr[t].to
    BY <1>0, Zenon DEF Thread
  <2>2. thr' = [thr EXCEPT ![t] = r]
    BY <1>3, Zenon DEF Goto
  <2> HIDE DEF r
  <2> QED
    BY <1>1, <1>3, <2>1, <2>2, Zenon
<1>4. ASSUME NEW t \in Threads, StartFetch(t)
      PROVE  Targets'
  <2>1. thr[t].to \in Lists
    BY <1>0, <1>4, ThreadField, Zenon DEF StartFetch, Lists
  <2> QED
    BY <1>3, <1>4, <2>1, Zenon DEF StartFetch
<1>5. ASSUME NEW t \in Threads,
             \/ Check(t) \/ FetchedUncached(t) \/ StartBalance(t) \/ ResidentDone(t)
             \/ BalanceDone(t) \/ MoveToHead(t) \/ MoveOut(t) \/ MoveBetween(t)
      PROVE  Targets'
  <2>1. PICK pc : pc \notin Fetching /\ Goto(t, pc)
    BY <1>5, Zenon DEF Check, FetchedUncached, StartBalance, ResidentDone, BalanceDone, MoveToHead,
                MoveOut, MoveBetween, Fetching
  <2> QED
    BY <1>3, <2>1, ZenonT(60)
<1>6. ASSUME NEW t \in Threads, FetchFits(t)
      PROVE  Targets'
  <2>1. PICK s : thr' = [thr EXCEPT ![t].pc = "link", ![t].size = s]
    BY <1>6, Zenon DEF FetchFits
  <2> DEFINE r == [thr[t] EXCEPT !.pc = "link", !.size = s]
  <2>2. r.to = thr[t].to /\ thr' = [thr EXCEPT ![t] = r]
    BY <1>0, <2>1, Zenon DEF Thread
  <2>3. thr[t].to \in Lists
    BY <1>6, Zenon DEF FetchFits, Targets
  <2> HIDE DEF r
  <2> QED
    BY <1>1, <2>2, <2>3, Zenon
<1>7. ASSUME NEW t \in Threads, Fetched(t)
      PROVE  Targets'
  <2> DEFINE r == [thr[t] EXCEPT !.pc = "balance", !.size = 0]
  <2>1. r.pc \notin Fetching /\ thr' = [thr EXCEPT ![t] = r]
    BY <1>0, <1>7, Zenon DEF Thread, Fetched, Fetching
  <2> HIDE DEF r
  <2> QED
    BY <1>1, <2>1, Zenon
<1>8. ASSUME NEW t \in Threads, Drop(t)
      PROVE  Targets'
  <2> DEFINE r == [thr[t] EXCEPT !.pc = "check", !.to = "none"]
  <2>1. r.pc \notin Fetching /\ thr' = [thr EXCEPT ![t] = r]
    BY <1>0, <1>8, Zenon DEF Thread, Drop, Fetching
  <2> HIDE DEF r
  <2> QED
    BY <1>1, <2>1, Zenon
<1>9. ASSUME NEW t \in Threads, Insert(t)
      PROVE  Targets'
  <2>1. CASE Goto(t, "lookup")
    BY <1>3, <2>1, Zenon DEF Fetching
  <2>2. CASE \E o \in Objs : thr' = [thr EXCEPT ![t].pc = "move", ![t].obj = o,
                                                ![t].to = "mru", ![t].new = TRUE]
    <3>1. PICK o \in Objs : thr' = [thr EXCEPT ![t].pc = "move", ![t].obj = o,
                                               ![t].to = "mru", ![t].new = TRUE]
      BY <2>2, Zenon
    <3> DEFINE r == [thr[t] EXCEPT !.pc = "move", !.obj = o, !.to = "mru", !.new = TRUE]
    <3>2. r.pc \notin Fetching /\ thr' = [thr EXCEPT ![t] = r]
      BY <1>0, <3>1, Zenon DEF Thread, Fetching
    <3> HIDE DEF r
    <3> QED
      BY <1>1, <3>2, Zenon
  <2> QED
    BY <1>9, <2>1, <2>2, Zenon DEF Insert
<1>10. ASSUME NEW t \in Threads, NEW k \in Keys, Lookup(t, k) \/ Remove(t, k)
       PROVE  Targets'
  <2>1. PICK r : r.pc \notin Fetching /\ thr' = [thr EXCEPT ![t] = r]
    BY <1>10, Zenon DEF Lookup, Remove, Idle, Fetching
  <2> QED
    BY <1>1, <2>1, Zenon
<1>11. ASSUME NEW t \in Threads, FetchFailed(t) \/ Release(t)
       PROVE  Targets'
  <2>1. thr' = [thr EXCEPT ![t] = Idle]
    BY <1>11, Zenon DEF FetchFailed, Release
  <2>2. Idle.pc \notin Fetching
    BY IdleType DEF Fetching
  <2> QED
    BY <1>1, <2>1, <2>2, ZenonT(60)
<1>12. ASSUME NEW t \in Threads,
              \/ EvictMru(t) \/ EvictMfu(t) \/ ForgetMfu(t) \/ ForgetMru(t) \/ UpdateSize(t)
              \/ Clear(t) \/ \E k \in Keys : Load(t, k)
       PROVE  Targets'
  BY <1>2, <1>12, Zenon DEF EvictMru, EvictMfu, ToGhost, ForgetMfu, ForgetMru, Forget,
                            UpdateSize, Clear, Load
<1>13. CASE SetSize
  BY <1>2, <1>13, Zenon DEF SetSize
<1> QED
  BY <1>4, <1>5, <1>6, <1>7, <1>8, <1>9, <1>10, <1>11, <1>12, <1>13, StepKinds, Zenon
     DEF Passive

(* Every step keeps the lists and the objects in agreement, or tears the lists. *)
LEMMA AgreeStep ==
    ASSUME Types, Agree, LockedIsUnlisted, Targets, Intact, Next
    PROVE  LockedIsUnlisted' /\ (Intact' => Agree')
<1> DEFINE Goal == LockedIsUnlisted' /\ (Intact' => Agree')
<1>0. obj \in [Objs -> ObjectI] /\ \A o \in Objs : obj[o] \in ObjectI
  BY Zenon DEF Types
<1>1. ASSUME UNCHANGED lists, \A o \in Objs : Stays(o)
      PROVE  Goal
  BY <1>1, QuietAgree, QuietLocked, Zenon
<1>2. ASSUME UNCHANGED <<lists, obj>>
      PROVE  Goal
  <2>1. \A o \in Objs : Stays(o)
    BY <1>2, Zenon DEF Stays
  <2> QED
    BY <1>1, <1>2, <2>1, Zenon
<1>3. ASSUME NEW o \in Objs, obj'[o].locked => obj'[o].state = "none", Others(o)
      PROVE  LockedIsUnlisted'
  BY <1>3, Zenon DEF LockedIsUnlisted, Others
<1>4. ASSUME NEW o \in Objs, NEW to, obj' = [obj EXCEPT ![o].state = to]
      PROVE  obj'[o].state = to /\ obj'[o].locked = obj[o].locked /\ Others(o)
  <2> DEFINE r == [obj[o] EXCEPT !.state = to]
  <2>1. r.state = to /\ r.locked = obj[o].locked
    BY <1>0, Zenon DEF ObjectI
  <2>2. obj' = [obj EXCEPT ![o] = r]
    BY <1>0, <1>4
  <2> HIDE DEF r
  <2> QED
    BY <1>0, <2>1, <2>2, Zenon DEF Others
<1>5. ASSUME NEW o \in Objs, NEW l \in Lists, NEW to \in Lists \ {l}, obj[o].state = l,
             Relink(o, to), obj' = [obj EXCEPT ![o].state = to]
      PROVE  Goal
  <2>1. obj'[o].state = to /\ obj'[o].locked = obj[o].locked /\ Others(o)
    BY <1>4, <1>5, Zenon
  <2>2. lists' = [lists EXCEPT ![l] = Without(lists[l], o), ![to] = <<o>> \o lists[to]]
    BY <1>5, Zenon DEF Relink
  <2>3. Agree'
    BY <1>5, <2>1, <2>2, MoveAgree, Zenon
  <2>4. ~ obj'[o].locked
    BY <1>5, <2>1, NotAList, Zenon DEF LockedIsUnlisted
  <2> QED
    BY <1>3, <2>1, <2>3, <2>4, Zenon
<1>6. ASSUME NEW o \in Objs, NEW r, r = [obj[o] EXCEPT !.state = "none"],
             obj' = [obj EXCEPT ![o] = Released(r)] \/ obj' = [obj EXCEPT ![o] = r]
      PROVE  obj'[o].state = "none" /\ Others(o)
  <2>1. r \in ObjectI /\ r.state = "none"
    BY <1>0, <1>6, ObjectFields, ZenonT(60) DEF ObjectI
  <2>2. Released(r).state = "none"
    BY <2>1, ReleasedStays, Zenon
  <2> QED
    BY <1>0, <1>6, <2>1, <2>2, Zenon DEF Others
<1>7. ASSUME NEW o \in Objs, obj[o].state \in Lists, Unlink(o), obj'[o].state = "none", Others(o)
      PROVE  Goal
  <2> DEFINE l == obj[o].state
  <2>1. lists' = [lists EXCEPT ![l] = Without(lists[l], o)]
    BY <1>7, Zenon DEF Unlink
  <2>2. Agree'
    BY <1>7, <2>1, RemoveAgree, Zenon
  <2> QED
    BY <1>3, <1>7, <2>2, Zenon
<1>8. ASSUME NEW t \in Threads, MoveToHead(t)
      PROVE  Goal
  <2> DEFINE o == thr[t].obj
             l == thr[t].to
  <2>1. o \in Objs /\ l \in Lists /\ obj[o].state = l
    BY <1>8, ThreadField, Zenon DEF MoveToHead, Types, Lists
  <2>2. lists' = [lists EXCEPT ![l] = <<o>> \o Without(lists[l], o)] /\ UNCHANGED obj
    BY <1>8, Zenon DEF MoveToHead
  <2>3. Agree'
    BY <2>1, <2>2, HeadAgree, ZenonT(60)
  <2> QED
    BY <2>2, <2>3, Zenon DEF LockedIsUnlisted
<1>9. ASSUME NEW t \in Threads, MoveOut(t)
      PROVE  Goal
  <2> DEFINE o == thr[t].obj
             r == [obj[o] EXCEPT !.state = "none"]
  <2>1. o \in Objs
    BY <1>9, Zenon DEF MoveOut, Types
  <2>2. obj' = [obj EXCEPT ![o] = Released(r)] \/ obj' = [obj EXCEPT ![o] = r]
    BY <1>9, Zenon DEF MoveOut
  <2>3. obj'[o].state = "none" /\ Others(o)
    BY <1>6, <2>1, <2>2, Zenon
  <2>4. CASE obj[o].state = "none"
    <3>1. UNCHANGED lists
      BY <1>9, <2>4, Zenon DEF MoveOut
    <3>2. \A x \in Objs : obj'[x].state = obj[x].state
      BY <2>3, <2>4, Zenon DEF Others
    <3>3. Agree'
      BY <3>1, <3>2, Zenon DEF Agree
    <3> QED
      BY <1>3, <2>1, <2>3, <3>3, Zenon
  <2>5. CASE obj[o].state # "none"
    <3>1. obj[o].state \in Lists
      BY <1>0, <2>1, <2>5, ObjectField, Zenon
    <3>2. Unlink(o)
      BY <1>9, <2>5, Zenon DEF MoveOut
    <3> QED
      BY <1>7, <2>1, <2>3, <3>1, <3>2, Zenon
  <2> QED
    BY <2>4, <2>5
<1>10. ASSUME NEW t \in Threads, MoveBetween(t)
       PROVE  Goal
  <2> DEFINE o == thr[t].obj
             l == obj[o].state
  <2>1. o \in Objs /\ thr[t].to \in Lists
    BY <1>10, ThreadField, Zenon DEF MoveBetween, Types, Lists
  <2>2. l \in Lists /\ thr[t].to \in Lists \ {l}
    BY <1>0, <1>10, <2>1, ObjectField, Zenon DEF MoveBetween
  <2>3. Relink(o, thr[t].to) /\ obj' = [obj EXCEPT ![o].state = thr[t].to]
    BY <1>10, Zenon DEF MoveBetween
  <2> HIDE DEF o
  <2> QED
    BY <1>5, <2>1, <2>2, <2>3, ZenonT(60)
<1>11. ASSUME NEW t \in Threads, Fetched(t)
       PROVE  Goal
  <2> DEFINE o == thr[t].obj
             to == thr[t].to
             r == [obj[o] EXCEPT !.size = thr[t].size, !.state = to, !.locked = FALSE]
  <2>1. o \in Objs /\ to \in Lists
    BY <1>11, Zenon DEF Fetched, Types, Targets
  <2>2. obj' = [obj EXCEPT ![o] = r]
    BY <1>0, <1>11, <2>1, Zenon DEF Fetched
  <2>3. r.state = to /\ r.locked = FALSE
    BY <1>0, <2>1 DEF ObjectI
  <2> HIDE DEF r
  <2>4. obj'[o].state = to /\ ~ obj'[o].locked /\ Others(o)
    BY <1>0, <2>1, <2>2, <2>3, Zenon DEF Others
  <2>5. lists' = [lists EXCEPT ![to] = <<o>> \o lists[to]]
    BY <1>11, Zenon DEF Fetched
  <2>6. Intact' => Agree'
    BY <2>1, <2>4, <2>5, AddAgree, Zenon
  <2> QED
    BY <1>3, <2>1, <2>4, <2>6, Zenon
<1>12. ASSUME NEW t \in Threads, EvictMru(t) \/ EvictMfu(t)
       PROVE  Goal
  <2>1. PICK from \in Lists, to \in Lists : to # from /\ ToGhost(t, from, to)
    BY <1>12 DEF EvictMru, EvictMfu, Lists
  <2>2. lru(from) \in Objs /\ In(lists[from], lru(from))
    BY <2>1, LruType, Zenon DEF Types, ToGhost
  <2>3. obj[lru(from)].state = from
    BY <2>2, Zenon DEF Agree
  <2> QED
    BY <1>5, <2>1, <2>2, <2>3, ZenonT(60) DEF ToGhost
<1>13. ASSUME NEW t \in Threads, ForgetMfu(t) \/ ForgetMru(t)
       PROVE  Goal
  <2>1. PICK l \in Lists : Forget(t, l)
    BY <1>13, Zenon DEF ForgetMfu, ForgetMru, Lists
  <2> DEFINE o == lru(l)
             r == [obj[o] EXCEPT !.state = "none"]
  <2>2. o \in Objs /\ In(lists[l], o)
    BY <2>1, LruType, Zenon DEF Types, Forget
  <2>3. obj[o].state = l
    BY <2>2, Zenon DEF Agree
  <2>4. Unlink(o) /\ (obj' = [obj EXCEPT ![o] = Released(r)] \/ obj' = [obj EXCEPT ![o] = r])
    BY <2>1, Zenon DEF Forget
  <2>5. obj'[o].state = "none" /\ Others(o)
    BY <1>6, <2>2, <2>4, Zenon
  <2> QED
    BY <1>7, <2>2, <2>3, <2>4, <2>5, Zenon
<1>14. ASSUME NEW t \in Threads, UpdateSize(t)
       PROVE  Goal
  <2>1. CASE UNCHANGED obj
    BY <1>2, <1>14, <2>1, Zenon DEF UpdateSize
  <2>2. CASE ~ UNCHANGED obj
    <3> DEFINE o == thr[t].obj
    <3>1. PICK s : obj' = [obj EXCEPT ![o].size = s]
      BY <1>14, <2>2, Zenon DEF UpdateSize
    <3>2. o \in Objs
      BY <1>14, Zenon DEF UpdateSize, Types
    <3> DEFINE r == [obj[o] EXCEPT !.size = s]
    <3>3. obj' = [obj EXCEPT ![o] = r]
      BY <1>0, <3>1, <3>2
    <3>4. r.state = obj[o].state /\ r.locked = obj[o].locked
      BY <1>0, <3>2, ZenonT(60) DEF ObjectI
    <3> HIDE DEF r
    <3>5. \A x \in Objs : obj'[x].state = obj[x].state /\ obj'[x].locked = obj[x].locked
      BY <1>0, <3>2, <3>3, <3>4, Zenon
    <3>6. UNCHANGED lists
      BY <1>14, Zenon DEF UpdateSize
    <3> QED
      BY <3>5, <3>6, Zenon DEF Agree, LockedIsUnlisted
  <2> QED
    BY <2>1, <2>2
<1>15. ASSUME NEW t \in Threads, Passive(t)
       PROVE  Goal
  BY <1>1, <1>15, PassiveStays, PassiveFrame, Zenon
<1>16. ASSUME NEW t \in Threads, BalanceDone(t)
       PROVE  Goal
  BY <1>2, <1>16, Zenon DEF BalanceDone
<1>17. ASSUME SetSize
       PROVE  Goal
  BY <1>2, <1>17, Zenon DEF SetSize
<1> QED
  BY <1>8, <1>9, <1>10, <1>11, <1>12, <1>13, <1>14, <1>15, <1>16, <1>17, StepKinds, ZenonT(60)

LEMMA LinkedStep ==
    ASSUME Types, Linked, [Next]_vars
    PROVE  Linked'
<1>1. CASE Next
  <2>1. Intact /\ Agree
    BY <1>1, AgreeIsState, Zenon DEF Next, Linked
  <2>2. LockedIsUnlisted' /\ (Intact' => Agree') /\ Targets'
    BY <1>1, <2>1, AgreeStep, TargetsStep, Zenon DEF Linked
  <2>3. StateIsList'
    BY <2>2, Zenon DEF StateIsList, Agree, In
  <2> QED
    BY <2>2, <2>3, Zenon DEF Linked
<1>2. CASE UNCHANGED vars
  <2>1. lists' = lists /\ obj' = obj /\ thr' = thr /\ cut' = cut
    BY <1>2, Zenon DEF vars
  <2>2. StateIsList'
    BY <2>1 DEF Linked, StateIsList, Intact, IsListed
  <2>3. LockedIsUnlisted' /\ Targets'
    BY <2>1 DEF Linked, LockedIsUnlisted, Targets
  <2> QED
    BY <2>2, <2>3 DEF Linked
<1> QED
  BY <1>1, <1>2

LEMMA InitLinked == Init => Linked
<1> SUFFICES ASSUME Init PROVE Linked
  OBVIOUS
<1>1. \A o \in Objs : obj[o].state = "none" /\ ~ obj[o].locked
  BY DEF Init, Free
<1>2. \A l \in Lists : lists[l] = << >>
  BY Zenon DEF Init
<1>3. StateIsList
  BY <1>1, <1>2, NotAList DEF StateIsList
<1>4. Targets
  BY IdleType DEF Init, Targets
<1> QED
  BY <1>1, <1>3, <1>4 DEF Linked, LockedIsUnlisted

(* Until the lists are torn, an object is in the list its state names and in no
   other, whatever the threads do. *)
THEOREM ListsAgree == Spec => []StateIsList
<1>1. Init => Types /\ Linked
  BY InitTypes, InitLinked
<1>2. Types /\ Linked /\ [Next]_vars => Types' /\ Linked'
  BY TypesStep, LinkedStep
<1>3. Linked => StateIsList
  BY DEF Linked
<1> QED
  BY <1>1, <1>2, <1>3, PTL DEF Spec

(* arc_balance never meets an object that arc_move would refuse to move. *)
THEOREM LockedUnlisted == Spec => []LockedIsUnlisted
<1>1. Init => Types /\ Linked
  BY InitTypes, InitLinked
<1>2. Types /\ Linked /\ [Next]_vars => Types' /\ Linked'
  BY TypesStep, LinkedStep
<1>3. Linked => LockedIsUnlisted
  BY DEF Linked
<1> QED
  BY <1>1, <1>2, <1>3, PTL DEF Spec

-----------------------------------------------------------------------------
(* What the objects of a list take *)

LOCAL INSTANCE WellFoundedInduction

(* Induction up to n: the least number that is not in T would follow one that is. *)
LEMMA UpTo ==
    ASSUME NEW n \in Nat, NEW T, 0 \in T, \A i \in 0 .. n - 1 : i \in T => i + 1 \in T
    PROVE  \A i \in 0 .. n : i \in T
<1> DEFINE R == OpToRel(<, Nat)
           B == {i \in 0 .. n : i \notin T}
<1> SUFFICES B = {}
  OBVIOUS
<1>1. B \subseteq Nat
  OBVIOUS
<1>2. IsWellFoundedOn(R, Nat)
  BY NatLessThanWellFounded, ZenonT(60)
<1>3. \A x, y \in Nat : y < x => <<y, x>> \in R
  BY DEF OpToRel
<1>4. SUFFICES ASSUME NEW x \in B, \A y \in B : ~ (<<y, x>> \in R)
               PROVE  FALSE
  <2> HIDE DEF R, B
  <2> QED
    BY <1>1, <1>2, WFMin, ZenonT(60)
<1> HIDE DEF R
<1>5. x \in 0 .. n /\ x # 0
  OBVIOUS
<1>6. x - 1 \in 0 .. n - 1 /\ x - 1 < x /\ x - 1 \in Nat /\ x \in Nat /\ (x - 1) + 1 = x
  BY <1>5
<1>7. x - 1 \notin B
  BY <1>3, <1>4, <1>6, ZenonT(60)
<1>8. x - 1 \in T
  BY <1>6, <1>7
<1> QED
  BY <1>6, <1>8

LEMMA Arithmetic ==
    \A a, b, d \in Int : /\ (a + b) + d = a + (b + d) /\ (a - b) + d = (a + d) - b
                        /\ a + d = (a + b) + (d - b) /\ a + d = ((a + b) + d) - b
  OBVIOUS

(* f[i] is the sum of the first i numbers of g. *)
Sums(f, n, g) ==
    /\ f \in [0 .. n -> Int] /\ f[0] = 0
    /\ \A i \in 0 .. n - 1 : f[i + 1] = f[i] + g[i + 1]

LEMMA SumsExist ==
    ASSUME NEW n \in Nat, NEW g \in [1 .. n -> Int]
    PROVE  \E f : Sums(f, n, g)
<1> DEFINE T == {i \in 0 .. n : \E f : Sums(f, i, g)}
<1>1. 0 \in T
  <2> DEFINE f == [i \in 0 .. 0 |-> 0]
  <2>1. f \in [0 .. 0 -> Int] /\ f[0] = 0 /\ \A i \in 0 .. 0 - 1 : f[i + 1] = f[i] + g[i + 1]
    OBVIOUS
  <2> HIDE DEF f
  <2>2. Sums(f, 0, g)
    BY <2>1, ZenonT(60) DEF Sums
  <2> QED
    BY <2>2
<1>2. ASSUME NEW i \in 0 .. n - 1, i \in T
      PROVE  i + 1 \in T
  <2>1. PICK f : Sums(f, i, g)
    BY <1>2
  <2> DEFINE h == [j \in 0 .. i + 1 |-> IF j = i + 1 THEN f[i] + g[i + 1] ELSE f[j]]
  <2>2. /\ i \in Nat /\ i \in 0 .. i /\ i + 1 \in 1 .. n /\ i + 1 \in 0 .. n
        /\ f \in [0 .. i -> Int] /\ f[0] = 0 /\ \A j \in 0 .. i - 1 : f[j + 1] = f[j] + g[j + 1]
    BY <2>1 DEF Sums
  <2>3. f[i] + g[i + 1] \in Int
    BY <2>2
  <2>4. h \in [0 .. i + 1 -> Int]
    BY <2>2, <2>3
  <2>5. h[0] = 0
    BY <2>2, SMTT(60)
  <2>6. ASSUME NEW j \in 0 .. (i + 1) - 1 PROVE h[j + 1] = h[j] + g[j + 1]
    <3>1. j \in 0 .. i + 1 /\ j + 1 \in 0 .. i + 1 /\ j # i + 1 /\ j \in 0 .. i
      BY <2>2
    <3>2. CASE j = i
      BY <2>2, <3>1, <3>2
    <3>3. CASE j # i
      <4>1. j \in 0 .. i - 1 /\ j + 1 # i + 1
        BY <2>2, <3>1, <3>3, SMTT(60)
      <4>2. h[j] = f[j] /\ h[j + 1] = f[j + 1]
        BY <3>1, <4>1
      <4> QED
        BY <2>2, <4>1, <4>2, ZenonT(60)
    <3> QED
      BY <3>2, <3>3
  <2> HIDE DEF h
  <2>7. Sums(h, i + 1, g)
    BY <2>4, <2>5, <2>6, ZenonT(60) DEF Sums
  <2> QED
    BY <2>2, <2>7
<1>3. n \in 0 .. n
  OBVIOUS
<1> HIDE DEF T
<1>4. n \in T
  BY <1>1, <1>2, <1>3, UpTo, Zenon
<1> QED
  BY <1>4 DEF T

(* n numbers, those of k in place of those of g: another one at e, one more in
   front, and all but the one at e. *)
Numbers(g, n) == g \in [1 .. n -> Int]
Replaces(k, g, n, e) == e \in 1 .. n /\ \A i \in 1 .. n : i # e => k[i] = g[i]
Extends(k, g, n) == \A i \in 1 .. n : k[i + 1] = g[i]
Omits(k, g, n, e) ==
    e \in 1 .. n + 1 /\ \A i \in 1 .. n : k[i] = IF i < e THEN g[i] ELSE g[i + 1]

LEMMA SumsDiffer ==
    ASSUME NEW n \in Nat, NEW g, NEW k, NEW e, NEW f, NEW h, Sums(f, n, g), Sums(h, n, k),
           Numbers(g, n), Numbers(k, n), Replaces(k, g, n, e)
    PROVE  h[n] = f[n] - g[e] + k[e]
<1>0. /\ g \in [1 .. n -> Int] /\ k \in [1 .. n -> Int] /\ e \in 1 .. n
      /\ \A i \in 1 .. n : i # e => k[i] = g[i]
  BY ZenonT(60) DEF Numbers, Replaces
<1> DEFINE T == {i \in 0 .. n : h[i] = f[i] + (IF i < e THEN 0 ELSE k[e] - g[e])}
<1>1. /\ f \in [0 .. n -> Int] /\ f[0] = 0 /\ \A i \in 0 .. n - 1 : f[i + 1] = f[i] + g[i + 1]
      /\ h \in [0 .. n -> Int] /\ h[0] = 0 /\ \A i \in 0 .. n - 1 : h[i + 1] = h[i] + k[i + 1]
  BY <1>0, ZenonT(60) DEF Sums
<1>2. 0 \in T
  BY <1>0, <1>1
<1>3. ASSUME NEW i \in 0 .. n - 1, i \in T
      PROVE  i + 1 \in T
  <2>1. /\ i + 1 \in 1 .. n /\ i + 1 \in 0 .. n
        /\ f[i + 1] = f[i] + g[i + 1] /\ h[i + 1] = h[i] + k[i + 1]
        /\ f[i] \in Int /\ h[i] \in Int /\ g[i + 1] \in Int /\ k[i + 1] \in Int
        /\ g[e] \in Int /\ k[e] \in Int
    BY <1>0, <1>1, SMTT(60)
  <2>2. h[i] = f[i] + (IF i < e THEN 0 ELSE k[e] - g[e])
    BY <1>3
  <2>3. h[i + 1] = f[i + 1] + (IF i + 1 < e THEN 0 ELSE k[e] - g[e])
    <3>1. CASE i + 1 = e
      <4>1. h[i] = f[i] /\ ~ (i + 1 < e)
        BY <1>0, <2>1, <2>2, <3>1, SMTT(60)
      <4>2. f[i] + k[e] = (f[i] + g[e]) + (k[e] - g[e])
        BY <1>0, <2>1
      <4>3. h[i + 1] = f[i] + k[e] /\ f[i + 1] = f[i] + g[e]
        BY <1>0, <2>1, <3>1, <4>1, Zenon
      <4>4. h[i + 1] = f[i + 1] + (k[e] - g[e])
        BY <4>2, <4>3, Zenon
      <4> QED
        BY <4>1, <4>4, Zenon
    <3>2. CASE i + 1 < e
      BY <1>0, <2>1, <2>2, <3>2
    <3>3. CASE i + 1 > e
      BY <1>0, <2>1, <2>2, <3>3, SMTT(60)
    <3> QED
      BY <1>0, <3>1, <3>2, <3>3
  <2> QED
    BY <1>0, <2>1, <2>3
<1>4. n \in 0 .. n /\ ~ (n < e)
  BY <1>0
<1> HIDE DEF T
<1>5. n \in T
  BY <1>2, <1>3, <1>4, UpTo
<1>6. h[n] = f[n] + (k[e] - g[e])
  BY <1>4, <1>5 DEF T
<1> QED
  BY <1>0, <1>1, <1>6, SMTT(60)

(* The same numbers. *)
LEMMA SumsSame ==
    ASSUME NEW n \in Nat, NEW g \in [1 .. n -> Int], NEW f, NEW h, Sums(f, n, g), Sums(h, n, g)
    PROVE  h[n] = f[n]
<1> DEFINE T == {i \in 0 .. n : h[i] = f[i]}
<1>1. /\ f \in [0 .. n -> Int] /\ f[0] = 0 /\ \A i \in 0 .. n - 1 : f[i + 1] = f[i] + g[i + 1]
      /\ h \in [0 .. n -> Int] /\ h[0] = 0 /\ \A i \in 0 .. n - 1 : h[i + 1] = h[i] + g[i + 1]
  BY DEF Sums
<1>2. 0 \in T
  BY <1>1
<1>3. ASSUME NEW i \in 0 .. n - 1, i \in T
      PROVE  i + 1 \in T
  BY <1>1, <1>3
<1>4. n \in 0 .. n
  OBVIOUS
<1> HIDE DEF T
<1>5. n \in T
  BY <1>2, <1>3, <1>4, UpTo, Zenon
<1> QED
  BY <1>5 DEF T

LEMMA SumsPrepend ==
    ASSUME NEW n \in Nat, NEW g, NEW k, NEW f, NEW h, Sums(f, n, g), Sums(h, n + 1, k),
           Numbers(g, n), Numbers(k, n + 1), Extends(k, g, n)
    PROVE  h[n + 1] = k[1] + f[n]
<1>0. /\ g \in [1 .. n -> Int] /\ k \in [1 .. n + 1 -> Int]
      /\ \A i \in 1 .. n : k[i + 1] = g[i]
  BY Zenon DEF Numbers, Extends
<1> DEFINE T == {i \in 0 .. n : h[i + 1] = k[1] + f[i]}
<1>1. /\ f \in [0 .. n -> Int] /\ f[0] = 0 /\ \A i \in 0 .. n - 1 : f[i + 1] = f[i] + g[i + 1]
      /\ h \in [0 .. n + 1 -> Int] /\ h[0] = 0 /\ \A i \in 0 .. n : h[i + 1] = h[i] + k[i + 1]
      /\ k[1] \in Int
  BY <1>0 DEF Sums
<1>2. 0 \in T
  <2>1. 0 \in 0 .. n /\ 0 + 1 = 1
    BY <1>0
  <2>2. h[1] = h[0] + k[1]
    BY <1>0, <1>1, <2>1
  <2>3. h[0 + 1] = k[1] + f[0]
    BY <1>0, <1>1, <2>2
  <2> QED
    BY <2>3
<1>3. ASSUME NEW i \in 0 .. n - 1, i \in T
      PROVE  i + 1 \in T
  <2>1. /\ i + 1 \in 1 .. n /\ i + 1 \in 0 .. n /\ (i + 1) + 1 \in 1 .. n + 1
        /\ f[i + 1] = f[i] + g[i + 1] /\ h[(i + 1) + 1] = h[i + 1] + k[(i + 1) + 1]
        /\ f[i] \in Int /\ g[i + 1] \in Int /\ k[(i + 1) + 1] = g[i + 1]
    BY <1>0, <1>1, SMTT(60)
  <2>2. h[i + 1] = k[1] + f[i]
    BY <1>3
  <2>3. (k[1] + f[i]) + g[i + 1] = k[1] + (f[i] + g[i + 1])
    BY <1>0, <1>1, <2>1, Arithmetic, ZenonT(60)
  <2>4. h[(i + 1) + 1] = k[1] + f[i + 1]
    BY <1>0, <2>1, <2>2, <2>3, Zenon
  <2> QED
    BY <1>0, <2>1, <2>4
<1>4. n \in 0 .. n
  BY <1>0
<1> HIDE DEF T
<1>5. n \in T
  BY <1>2, <1>3, <1>4, UpTo
<1> QED
  BY <1>5 DEF T

LEMMA SumsWithout ==
    ASSUME NEW n \in Nat, NEW g, NEW k, NEW e, NEW f, NEW h, Sums(f, n + 1, g), Sums(h, n, k),
           Numbers(g, n + 1), Numbers(k, n), Omits(k, g, n, e)
    PROVE  h[n] = f[n + 1] - g[e]
<1>0. /\ g \in [1 .. n + 1 -> Int] /\ k \in [1 .. n -> Int] /\ e \in 1 .. n + 1
      /\ \A i \in 1 .. n : k[i] = IF i < e THEN g[i] ELSE g[i + 1]
  BY Zenon DEF Numbers, Omits
<1> DEFINE T == {i \in 0 .. n : h[i] = IF i < e THEN f[i] ELSE f[i + 1] - g[e]}
<1>1. /\ f \in [0 .. n + 1 -> Int] /\ f[0] = 0 /\ \A i \in 0 .. n : f[i + 1] = f[i] + g[i + 1]
      /\ h \in [0 .. n -> Int] /\ h[0] = 0 /\ \A i \in 0 .. n - 1 : h[i + 1] = h[i] + k[i + 1]
      /\ g[e] \in Int
  BY <1>0 DEF Sums
<1>2. 0 \in T
  BY <1>0, <1>1
<1>3. ASSUME NEW i \in 0 .. n - 1, i \in T
      PROVE  i + 1 \in T
  <2>a. /\ i + 1 \in 1 .. n /\ i + 1 \in 0 .. n /\ i + 1 \in 1 .. n + 1
        /\ (i + 1) + 1 \in 1 .. n + 1 /\ i \in 0 .. n
        /\ i \in 0 .. n + 1 /\ i + 1 \in 0 .. n + 1
    BY <1>0
  <2>1. /\ i + 1 \in 1 .. n /\ i + 1 \in 0 .. n /\ f[i + 1] \in Int
        /\ f[i + 1] = f[i] + g[i + 1] /\ f[(i + 1) + 1] = f[i + 1] + g[(i + 1) + 1]
        /\ h[i + 1] = h[i] + k[i + 1]
        /\ f[i] \in Int /\ h[i] \in Int /\ g[i + 1] \in Int /\ g[(i + 1) + 1] \in Int
    <3>1. f[i + 1] = f[i] + g[i + 1] /\ f[(i + 1) + 1] = f[i + 1] + g[(i + 1) + 1]
      BY <1>0, <1>1, <2>a, Zenon
    <3>2. h[i + 1] = h[i] + k[i + 1]
      BY <1>0, <1>1, Zenon
    <3>3. f[i + 1] \in Int /\ f[i] \in Int /\ h[i] \in Int /\ g[i + 1] \in Int
          /\ g[(i + 1) + 1] \in Int
      BY <1>0, <1>1, <2>a, Zenon
    <3> QED
      BY <2>a, <3>1, <3>2, <3>3, Zenon
  <2>0. h[i] = IF i < e THEN f[i] ELSE f[i + 1] - g[e]
    BY <1>3
  <2>2. k[i + 1] = IF i + 1 < e THEN g[i + 1] ELSE g[(i + 1) + 1]
    BY <1>0, <2>a, Zenon
  <2>3. i + 1 < e => i < e
    BY <1>0
  <2>4. h[i + 1] = IF i + 1 < e THEN f[i + 1] ELSE f[(i + 1) + 1] - g[e]
    <3>1. CASE i + 1 < e
      BY <1>0, <2>0, <2>1, <2>2, <2>3, <3>1, Zenon
    <3>2. CASE i + 1 = e
      <4>1. i < e /\ ~ (i + 1 < e)
        BY <1>0, <3>2
      <4>2. h[i + 1] = f[i] + g[(i + 1) + 1] /\ g[e] = g[i + 1]
        BY <1>0, <2>0, <2>1, <2>2, <3>2, <4>1, Zenon
      <4>3. f[i] + g[(i + 1) + 1] = ((f[i] + g[i + 1]) + g[(i + 1) + 1]) - g[i + 1]
        BY <2>1
      <4>4. h[i + 1] = f[(i + 1) + 1] - g[e]
        BY <1>0, <2>1, <4>2, <4>3, Zenon
      <4> QED
        BY <4>1, <4>4, Zenon
    <3>3. CASE i + 1 > e
      <4>1. ~ (i < e) /\ ~ (i + 1 < e)
        BY <1>0, <3>3
      <4>2. h[i + 1] = (f[i + 1] - g[e]) + g[(i + 1) + 1]
        BY <1>0, <2>0, <2>1, <2>2, <4>1, Zenon
      <4>3. (f[i + 1] - g[e]) + g[(i + 1) + 1] = (f[i + 1] + g[(i + 1) + 1]) - g[e]
        BY <1>0, <1>1, <2>1
      <4>4. h[i + 1] = f[(i + 1) + 1] - g[e]
        BY <1>0, <2>1, <4>2, <4>3, Zenon
      <4> QED
        BY <4>1, <4>4, Zenon
    <3> QED
      BY <1>0, <3>1, <3>2, <3>3
  <2> QED
    BY <2>a, <2>4
<1>4. n \in 0 .. n
  BY <1>0
<1> HIDE DEF T
<1>5. n \in T
  BY <1>2, <1>3, <1>4, UpTo
<1>6. h[n] = IF n < e THEN f[n] ELSE f[n + 1] - g[e]
  BY <1>5 DEF T
<1>7. CASE n < e
  <2>1. e = n + 1 /\ n + 1 \in 1 .. n + 1
    BY <1>0, <1>7
  <2>2. f[n + 1] = f[n] + g[e] /\ f[n] \in Int
    BY <1>0, <1>1, <2>1
  <2> QED
    BY <1>0, <1>1, <1>6, <1>7, <2>2
<1> QED
  BY <1>6, <1>7

(* The sizes of the objects of list s. *)
Sizes(ob, s) == [i \in 1 .. Len(s) |-> ob[s[i]].size]

LEMMA SizesType ==
    ASSUME NEW ob \in [Objs -> ObjectI], NEW s \in Seq(Objs)
    PROVE  Len(s) \in Nat /\ Sizes(ob, s) \in [1 .. Len(s) -> Int]
<1>1. \A i \in 1 .. Len(s) : s[i] \in Objs
  OBVIOUS
<1>2. \A o \in Objs : ob[o].size \in Int
  BY DEF ObjectI
<1> QED
  BY <1>1, <1>2 DEF Sizes

LEMMA TakenSums ==
    ASSUME NEW ob \in [Objs -> ObjectI], NEW s \in Seq(Objs)
    PROVE  \E f : Sums(f, Len(s), Sizes(ob, s)) /\ Taken(ob, s) = f[Len(s)]
<1> DEFINE n == Len(s)
           g == Sizes(ob, s)
           Step(f) == [i \in 0 .. n |-> IF i = 0 THEN 0 ELSE f[i - 1] + ob[s[i]].size]
           q == CHOOSE f : f = Step(f)
<1>1. n \in Nat /\ g \in [1 .. n -> Int] /\ \A i \in 1 .. n : g[i] = ob[s[i]].size
  BY SizesType DEF Sizes
<1>2. Taken(ob, s) = q[n]
  BY DEF Taken
<1> HIDE DEF g, n
<1>3. PICK f : Sums(f, n, g)
  BY <1>1, SumsExist, Zenon
<1>4. f = Step(f)
  <2>1. f \in [0 .. n -> Int] /\ f[0] = 0 /\ \A i \in 0 .. n - 1 : f[i + 1] = f[i] + g[i + 1]
    BY <1>3, Zenon DEF Sums
  <2>2. ASSUME NEW i \in 0 .. n, i # 0 PROVE f[i] = f[i - 1] + ob[s[i]].size
    <3>1. i - 1 \in 0 .. n - 1 /\ (i - 1) + 1 = i /\ i \in 1 .. n
      BY <1>1, <2>2
    <3>2. f[(i - 1) + 1] = f[i - 1] + g[(i - 1) + 1]
      BY <2>1, <3>1, Zenon
    <3> QED
      BY <1>1, <3>1, <3>2, Zenon
  <2> QED
    BY <2>1, <2>2
<1>5. q = Step(q)
  BY <1>4, Zenon
<1> HIDE DEF q
<1>6. \A i \in 0 .. n : q[i] = IF i = 0 THEN 0 ELSE q[i - 1] + ob[s[i]].size
  BY <1>5, Zenon
<1>7. DOMAIN q = 0 .. n /\ q = [i \in 0 .. n |-> q[i]]
  BY <1>5
<1>8. \A i \in 0 .. n - 1 : q[i + 1] = q[i] + g[i + 1]
  <2> SUFFICES ASSUME NEW i \in 0 .. n - 1 PROVE q[i + 1] = q[i] + g[i + 1]
    OBVIOUS
  <2>1. i + 1 \in 0 .. n /\ i + 1 # 0 /\ (i + 1) - 1 = i /\ i + 1 \in 1 .. n
    BY <1>1
  <2>2. q[i + 1] = q[(i + 1) - 1] + ob[s[i + 1]].size
    BY <1>6, <2>1, Zenon
  <2> QED
    BY <1>1, <2>1, <2>2, Zenon
<1>9. q[0] = 0
  BY <1>1, <1>6
<1>10. \A i \in 0 .. n : q[i] \in Int
  <2> DEFINE T == {i \in 0 .. n : q[i] \in Int}
  <2>1. 0 \in T
    BY <1>1, <1>9
  <2>2. ASSUME NEW i \in 0 .. n - 1, i \in T PROVE i + 1 \in T
    <3>1. i + 1 \in 0 .. n /\ g[i + 1] \in Int /\ q[i] \in Int
      BY <1>1, <2>2
    <3>2. q[i] + g[i + 1] \in Int
      BY <3>1
    <3> QED
      BY <1>8, <3>1, <3>2
  <2> HIDE DEF T
  <2>3. \A i \in 0 .. n : i \in T
    BY <1>1, <2>1, <2>2, UpTo, Zenon
  <2> QED
    BY <2>3 DEF T
<1>11. q \in [0 .. n -> Int]
  BY <1>7, <1>10
<1>12. Sums(q, n, g)
  BY <1>8, <1>9, <1>11, Zenon DEF Sums
<1> QED
  BY <1>2, <1>12, Zenon DEF n, g

LEMMA TakenType ==
    ASSUME NEW ob \in [Objs -> ObjectI], NEW s \in Seq(Objs)
    PROVE  Taken(ob, s) \in Int
<1>1. PICK f : Sums(f, Len(s), Sizes(ob, s)) /\ Taken(ob, s) = f[Len(s)]
  BY TakenSums, Zenon
<1>2. Len(s) \in 0 .. Len(s)
  OBVIOUS
<1> QED
  BY <1>1, <1>2, Zenon DEF Sums

(* Only the sizes matter. *)
LEMMA TakenSame ==
    ASSUME NEW ob \in [Objs -> ObjectI], NEW ob2 \in [Objs -> ObjectI], NEW s \in Seq(Objs),
           \A i \in 1 .. Len(s) : ob2[s[i]].size = ob[s[i]].size
    PROVE  Taken(ob2, s) = Taken(ob, s)
<1>1. Sizes(ob2, s) = Sizes(ob, s)
  BY DEF Sizes
<1>2. PICK f : Sums(f, Len(s), Sizes(ob, s)) /\ Taken(ob, s) = f[Len(s)]
  BY TakenSums, Zenon
<1>3. PICK h : Sums(h, Len(s), Sizes(ob2, s)) /\ Taken(ob2, s) = h[Len(s)]
  BY TakenSums, Zenon
<1> QED
  BY <1>1, <1>2, <1>3, SizesType, SumsSame, ZenonT(60)

LEMMA TakenEmpty ==
    ASSUME NEW ob \in [Objs -> ObjectI]
    PROVE  Taken(ob, << >>) = 0
<1> DEFINE e == << >>
<1>1. e \in Seq(Objs) /\ Len(e) = 0
  OBVIOUS
<1> HIDE DEF e
<1>2. PICK f : Sums(f, Len(e), Sizes(ob, e)) /\ Taken(ob, e) = f[Len(e)]
  BY <1>1, TakenSums, Zenon
<1> QED
  BY <1>1, <1>2, Zenon DEF Sums, e

(* An object that is put in front adds its size. *)
LEMMA TakenPrepend ==
    ASSUME NEW ob \in [Objs -> ObjectI], NEW s \in Seq(Objs), NEW o \in Objs
    PROVE  Taken(ob, <<o>> \o s) = ob[o].size + Taken(ob, s)
<1> DEFINE w == <<o>> \o s
           n == Len(s)
<1>1. w \in Seq(Objs) /\ Len(w) = n + 1 /\ n \in Nat /\ w[1] = o
      /\ \A j \in 1 .. n : w[j + 1] = s[j]
  OBVIOUS
<1> HIDE DEF w
<1>2. PICK f : Sums(f, Len(s), Sizes(ob, s)) /\ Taken(ob, s) = f[Len(s)]
  BY TakenSums, Zenon
<1>3. PICK h : Sums(h, Len(w), Sizes(ob, w)) /\ Taken(ob, w) = h[Len(w)]
  BY <1>1, TakenSums, Zenon
<1>4. /\ Sizes(ob, s) \in [1 .. n -> Int] /\ Sizes(ob, w) \in [1 .. n + 1 -> Int]
  BY <1>1, SizesType, Zenon
<1>5. Sizes(ob, w)[1] = ob[o].size /\ \A i \in 1 .. n : Sizes(ob, w)[i + 1] = Sizes(ob, s)[i]
  BY <1>1 DEF Sizes
<1> HIDE DEF n
<1>6. h[n + 1] = Sizes(ob, w)[1] + f[n]
  <2> DEFINE g == Sizes(ob, s)
             k == Sizes(ob, w)
  <2>1. Sums(f, n, g) /\ Sums(h, n + 1, k)
    BY <1>1, <1>2, <1>3, Zenon DEF n
  <2> HIDE DEF g, k
  <2>2. Numbers(g, n) /\ Numbers(k, n + 1) /\ Extends(k, g, n)
    BY <1>4, <1>5, Zenon DEF g, k, Numbers, Extends
  <2>3. n \in Nat
    BY <1>1
  <2>4. h[n + 1] = k[1] + f[n]
    BY <2>1, <2>2, <2>3, SumsPrepend
  <2> QED
    BY <2>4 DEF k
<1> QED
  BY <1>1, <1>2, <1>3, <1>5, <1>6, Zenon DEF w, n

(* An object that leaves takes its size with it. *)
LEMMA TakenWithout ==
    ASSUME NEW ob \in [Objs -> ObjectI], NEW s \in Seq(Objs), NEW o \in Objs, In(s, o)
    PROVE  Taken(ob, Without(s, o)) = Taken(ob, s) - ob[o].size
<1> DEFINE e == CHOOSE j \in 1 .. Len(s) : s[j] = o
           n == Len(s) - 1
           w == [j \in 1 .. n |-> IF j < e THEN s[j] ELSE s[j + 1]]
<1>1. Without(s, o) = w
  BY DEF Without
<1>2. e \in 1 .. Len(s) /\ s[e] = o
  BY DEF In
<1> HIDE DEF e
<1>3. n \in Nat /\ Len(s) = n + 1 /\ Len(s) \in Nat
  BY <1>2
<1>4. w \in [1 .. n -> Objs] /\ \A j \in 1 .. n : w[j] = IF j < e THEN s[j] ELSE s[j + 1]
  BY <1>2, <1>3
<1> HIDE DEF w, n
<1>5. w \in Seq(Objs) /\ Len(w) = n
  BY <1>3, <1>4
<1>6. PICK f : Sums(f, Len(s), Sizes(ob, s)) /\ Taken(ob, s) = f[Len(s)]
  BY TakenSums, Zenon
<1>7. PICK h : Sums(h, Len(w), Sizes(ob, w)) /\ Taken(ob, w) = h[Len(w)]
  BY <1>5, TakenSums, Zenon
<1>8. Sizes(ob, s) \in [1 .. n + 1 -> Int] /\ Sizes(ob, w) \in [1 .. n -> Int]
  BY <1>3, <1>5, SizesType, Zenon
<1>9. \A i \in 1 .. n : Sizes(ob, w)[i] = IF i < e THEN Sizes(ob, s)[i] ELSE Sizes(ob, s)[i + 1]
  BY <1>2, <1>3, <1>4, <1>5 DEF Sizes
<1>10. Sizes(ob, s)[e] = ob[o].size
  BY <1>2 DEF Sizes
<1>11. h[n] = f[n + 1] - Sizes(ob, s)[e]
  <2> DEFINE g == Sizes(ob, s)
             k == Sizes(ob, w)
  <2>1. Sums(f, n + 1, g) /\ Sums(h, n, k) /\ e \in 1 .. n + 1
    BY <1>2, <1>3, <1>5, <1>6, <1>7, Zenon
  <2> HIDE DEF g, k
  <2>2. Numbers(g, n + 1) /\ Numbers(k, n) /\ Omits(k, g, n, e)
    BY <1>8, <1>9, <2>1, Zenon DEF g, k, Numbers, Omits
  <2>3. h[n] = f[n + 1] - g[e]
    BY <1>3, <2>1, <2>2, SumsWithout
  <2> QED
    BY <2>3 DEF g
<1> QED
  BY <1>1, <1>3, <1>5, <1>6, <1>7, <1>10, <1>11, Zenon

(* One object has got another size. *)
LEMMA TakenChanged ==
    ASSUME NEW ob \in [Objs -> ObjectI], NEW ob2 \in [Objs -> ObjectI], NEW s \in Seq(Objs),
           NEW o \in Objs, In(s, o), \A i, j \in 1 .. Len(s) : s[i] = s[j] => i = j,
           \A x \in Objs \ {o} : ob2[x] = ob[x]
    PROVE  Taken(ob2, s) = Taken(ob, s) - ob[o].size + ob2[o].size
<1> DEFINE n == Len(s)
<1>1. PICK e \in 1 .. n : s[e] = o
  BY DEF In
<1>2. n \in Nat /\ Sizes(ob, s) \in [1 .. n -> Int] /\ Sizes(ob2, s) \in [1 .. n -> Int]
  BY SizesType, Zenon
<1>3. ASSUME NEW i \in 1 .. n, i # e PROVE Sizes(ob2, s)[i] = Sizes(ob, s)[i]
  <2>1. s[i] \in Objs /\ s[i] # o
    BY <1>1, <1>3
  <2> QED
    BY <2>1 DEF Sizes
<1>4. Sizes(ob, s)[e] = ob[o].size /\ Sizes(ob2, s)[e] = ob2[o].size
  BY <1>1 DEF Sizes
<1>5. PICK f : Sums(f, n, Sizes(ob, s)) /\ Taken(ob, s) = f[n]
  BY TakenSums, Zenon
<1>6. PICK h : Sums(h, n, Sizes(ob2, s)) /\ Taken(ob2, s) = h[n]
  BY TakenSums, Zenon
<1> HIDE DEF n
<1>7. h[n] = f[n] - Sizes(ob, s)[e] + Sizes(ob2, s)[e]
  <2> DEFINE g == Sizes(ob, s)
             k == Sizes(ob2, s)
  <2>1. Numbers(g, n) /\ Numbers(k, n) /\ Replaces(k, g, n, e)
    BY <1>1, <1>2, <1>3, Zenon DEF Numbers, Replaces
  <2>2. Sums(f, n, g) /\ Sums(h, n, k)
    BY <1>5, <1>6, Zenon
  <2> HIDE DEF g, k
  <2>3. h[n] = f[n] - g[e] + k[e]
    BY <1>2, <2>1, <2>2, SumsDiffer
  <2> QED
    BY <2>3 DEF g, k
<1> QED
  BY <1>4, <1>5, <1>6, <1>7, Zenon

(* What happens to an object that is in no list does not count. *)
LEMMA TakenOthers ==
    ASSUME NEW ob \in [Objs -> ObjectI], NEW ob2 \in [Objs -> ObjectI], NEW s \in Seq(Objs),
           NEW o \in Objs, ~ In(s, o), \A x \in Objs \ {o} : ob2[x] = ob[x]
    PROVE  Taken(ob2, s) = Taken(ob, s)
<1>1. \A i \in 1 .. Len(s) : s[i] \in Objs \ {o}
  BY DEF In
<1> QED
  BY <1>1, TakenSame

(* The counters are what the objects take. *)
Counts == \A l \in Lists : size[l] = Taken(obj, lists[l])

Typed == Types /\ Types'

LEMMA CountTypes ==
    ASSUME Typed
    PROVE  /\ obj \in [Objs -> ObjectI] /\ obj' \in [Objs -> ObjectI]
           /\ lists \in [Lists -> Seq(Objs)] /\ size \in [Lists -> Int]
           /\ \A l \in Lists : lists[l] \in Seq(Objs) /\ size[l] \in Int
           /\ \A o \in Objs : obj[o].size \in Nat /\ obj'[o].size \in Nat
           /\ \A l \in Lists : Taken(obj, lists[l]) \in Int /\ Taken(obj', lists[l]) \in Int
<1>1. /\ obj \in [Objs -> ObjectI] /\ obj' \in [Objs -> ObjectI]
      /\ lists \in [Lists -> Seq(Objs)] /\ size \in [Lists -> Int]
      /\ \A l \in Lists : lists[l] \in Seq(Objs) /\ size[l] \in Int
  BY Zenon DEF Typed, Types
<1>2. \A o \in Objs : obj[o].size \in Nat /\ obj'[o].size \in Nat
  BY <1>1, ObjectField, Zenon
<1>3. \A l \in Lists : Taken(obj, lists[l]) \in Int /\ Taken(obj', lists[l]) \in Int
  BY <1>1, TakenType, Zenon
<1> QED
  BY <1>1, <1>2, <1>3, Zenon

(* A list that o is not in, when nothing happens to other objects. *)
LEMMA CountElsewhere ==
    ASSUME Typed, Counts, NEW o \in Objs, Others(o), NEW m \in Lists, ~ In(lists[m], o)
    PROVE  size[m] = Taken(obj', lists[m])
  BY CountTypes, TakenOthers, Zenon DEF Counts, Others

LEMMA QuietCounts ==
    ASSUME Typed, Counts, UNCHANGED <<lists, size>>, \A o \in Objs : Stays(o), Intact'
    PROVE  Counts'
<1> SUFFICES ASSUME NEW l \in Lists PROVE size[l] = Taken(obj', lists[l])
  BY Zenon DEF Counts
<1>1. lists[l] \in Seq(Objs)
  BY CountTypes, Zenon
<1>2. ASSUME NEW i \in 1 .. Len(lists[l]) PROVE obj'[lists[l][i]].size = obj[lists[l][i]].size
  <2> DEFINE o == lists[l][i]
  <2>1. o \in Objs
    BY <1>1
  <2>2. IsListed(o) /\ IsListed(o)'
    BY <1>2, Zenon DEF IsListed
  <2>3. ~ Unused(o) /\ ~ (obj'[o].refs = 0)
    BY <2>1, <2>2 DEF Unused, Intact
  <2> QED
    BY <2>1, <2>3, Zenon DEF Stays
<1>3. Taken(obj', lists[l]) = Taken(obj, lists[l])
  BY <1>1, <1>2, CountTypes, TakenSame, Zenon
<1> QED
  BY <1>3, Zenon DEF Counts

LEMMA UnlinkCounted ==
    ASSUME Typed, Intact, Agree, Counts, NEW o \in Objs, obj[o].state \in Lists, Unlink(o),
           Others(o)
    PROVE  Counts'
<1> DEFINE l == obj[o].state
<1>1. /\ lists' = [lists EXCEPT ![l] = Without(lists[l], o)]
      /\ size' = [size EXCEPT ![l] = size[l] - obj[o].size]
  BY Zenon DEF Unlink
<1>2. /\ lists'[l] = Without(lists[l], o) /\ size'[l] = size[l] - obj[o].size
      /\ \A m \in Lists \ {l} : lists'[m] = lists[m] /\ size'[m] = size[m]
  BY <1>1, CountTypes, Zenon
<1>3. \A m \in Lists : In(lists[m], o) <=> m = l
  BY Zenon DEF Agree
<1> HIDE DEF l
<1>4. l \in Lists
  BY Zenon DEF l
<1>5. /\ Without(lists[l], o) \in Seq(Objs) /\ ~ In(Without(lists[l], o), o)
  BY <1>3, <1>4, CountTypes, WithoutFacts, UniqueIn, Zenon
<1>6. Taken(obj', Without(lists[l], o)) = Taken(obj, Without(lists[l], o))
  BY <1>5, CountTypes, TakenOthers, ZenonT(60) DEF Others
<1>7. Taken(obj, Without(lists[l], o)) = Taken(obj, lists[l]) - obj[o].size
  BY <1>3, <1>4, CountTypes, TakenWithout, Zenon
<1>8. size'[l] = Taken(obj', lists'[l])
  BY <1>2, <1>4, <1>6, <1>7, Zenon DEF Counts
<1>9. \A m \in Lists \ {l} : size'[m] = Taken(obj', lists'[m])
  BY <1>2, <1>3, CountElsewhere, Zenon
<1> QED
  BY <1>8, <1>9, Zenon DEF Counts

LEMMA RelinkCounted ==
    ASSUME Typed, Intact, Agree, Counts, NEW o \in Objs, obj[o].state \in Lists,
           NEW to \in Lists, to # obj[o].state, Relink(o, to), Others(o),
           obj'[o].size = obj[o].size
    PROVE  Counts'
<1> DEFINE l == obj[o].state
<1>1. /\ lists' = [lists EXCEPT ![l] = Without(lists[l], o), ![to] = <<o>> \o lists[to]]
      /\ size' = [size EXCEPT ![l] = size[l] - obj[o].size, ![to] = size[to] + obj[o].size]
  BY Zenon DEF Relink
<1>2. /\ lists'[l] = Without(lists[l], o) /\ size'[l] = size[l] - obj[o].size
      /\ lists'[to] = <<o>> \o lists[to] /\ size'[to] = size[to] + obj[o].size
      /\ \A m \in Lists \ {l, to} : lists'[m] = lists[m] /\ size'[m] = size[m]
  BY <1>1, CountTypes, Zenon
<1>3. \A m \in Lists : In(lists[m], o) <=> m = l
  BY Zenon DEF Agree
<1> HIDE DEF l
<1>4. l \in Lists /\ l # to
  BY Zenon DEF l
<1>5. /\ Without(lists[l], o) \in Seq(Objs) /\ ~ In(Without(lists[l], o), o)
  BY <1>3, <1>4, CountTypes, WithoutFacts, UniqueIn, ZenonT(60)
<1>6. Taken(obj', Without(lists[l], o)) = Taken(obj, Without(lists[l], o))
  BY <1>5, CountTypes, TakenOthers, Zenon DEF Others
<1>7. Taken(obj, Without(lists[l], o)) = Taken(obj, lists[l]) - obj[o].size
  BY <1>3, <1>4, CountTypes, TakenWithout, Zenon
<1>8. size'[l] = Taken(obj', lists'[l])
  BY <1>2, <1>4, <1>6, <1>7, Zenon DEF Counts
<1>9. Taken(obj', lists'[to]) = obj'[o].size + Taken(obj', lists[to])
  BY <1>2, CountTypes, TakenPrepend, Zenon
<1>10. size[to] = Taken(obj', lists[to])
  BY <1>3, <1>4, CountElsewhere, Zenon
<1>11. size'[to] = Taken(obj', lists'[to])
  <2>1. size[to] \in Int /\ obj[o].size \in Nat
    BY CountTypes, Zenon
  <2>2. size[to] + obj[o].size = obj[o].size + size[to]
    BY <2>1
  <2> QED
    BY <1>2, <1>9, <1>10, <2>2, Zenon
<1>12. \A m \in Lists \ {l, to} : size'[m] = Taken(obj', lists'[m])
  BY <1>2, <1>3, CountElsewhere, Zenon
<1> QED
  BY <1>8, <1>11, <1>12, Zenon DEF Counts

LEMMA HeadCounted ==
    ASSUME Typed, Intact, Agree, Counts, NEW o \in Objs, NEW l \in Lists, obj[o].state = l,
           lists' = [lists EXCEPT ![l] = <<o>> \o Without(lists[l], o)], UNCHANGED <<obj, size>>
    PROVE  Counts'
<1>1. /\ lists'[l] = <<o>> \o Without(lists[l], o)
      /\ \A m \in Lists \ {l} : lists'[m] = lists[m]
  BY CountTypes, Zenon
<1>2. In(lists[l], o)
  BY Zenon DEF Agree
<1>3. Without(lists[l], o) \in Seq(Objs)
  BY CountTypes, WithoutType, Zenon
<1>4. Taken(obj, lists'[l]) = obj[o].size + Taken(obj, Without(lists[l], o))
  BY <1>1, <1>3, CountTypes, TakenPrepend, ZenonT(60)
<1>5. Taken(obj, Without(lists[l], o)) = Taken(obj, lists[l]) - obj[o].size
  BY <1>2, CountTypes, TakenWithout, Zenon
<1>6. obj[o].size + (Taken(obj, lists[l]) - obj[o].size) = Taken(obj, lists[l])
  <2>1. Taken(obj, lists[l]) \in Int /\ obj[o].size \in Nat
    BY CountTypes, Zenon
  <2> QED
    BY <2>1
<1>7. size[l] = Taken(obj, lists'[l])
  BY <1>4, <1>5, <1>6, Zenon DEF Counts
<1> QED
  BY <1>1, <1>7, Zenon DEF Counts

LEMMA AddCounted ==
    ASSUME Typed, Counts, NEW o \in Objs, NEW to \in Lists, Others(o), Intact',
           lists' = [lists EXCEPT ![to] = <<o>> \o lists[to]],
           size' = [size EXCEPT ![to] = size[to] + obj'[o].size]
    PROVE  Counts'
<1>1. /\ lists'[to] = <<o>> \o lists[to] /\ size'[to] = size[to] + obj'[o].size
      /\ \A m \in Lists \ {to} : lists'[m] = lists[m] /\ size'[m] = size[m]
  BY CountTypes, Zenon
<1>2. \A m \in Lists : ~ In(lists[m], o)
  BY AddUnlisted, Zenon DEF Typed
<1>3. \A m \in Lists : size[m] = Taken(obj', lists[m])
  BY <1>2, CountElsewhere, Zenon
<1>4. Taken(obj', lists'[to]) = obj'[o].size + Taken(obj', lists[to])
  BY <1>1, CountTypes, TakenPrepend, Zenon
<1>5. size[to] + obj'[o].size = obj'[o].size + size[to]
  <2>1. size[to] \in Int /\ obj'[o].size \in Nat
    BY CountTypes, Zenon
  <2> QED
    BY <2>1
<1>6. size'[to] = Taken(obj', lists'[to])
  BY <1>1, <1>3, <1>4, <1>5, Zenon
<1> QED
  BY <1>1, <1>3, <1>6, Zenon DEF Counts

LEMMA ResizeCounted ==
    ASSUME Typed, Intact, Agree, Counts, NEW o \in Objs, obj[o].state \in Lists, Others(o),
           UNCHANGED lists,
           size' = [size EXCEPT ![obj[o].state] = size[obj[o].state] - obj[o].size + obj'[o].size]
    PROVE  Counts'
<1> DEFINE l == obj[o].state
<1>1. /\ size'[l] = size[l] - obj[o].size + obj'[o].size
      /\ \A m \in Lists \ {l} : size'[m] = size[m]
  BY CountTypes, Zenon
<1>2. \A m \in Lists : In(lists[m], o) <=> m = l
  BY Zenon DEF Agree
<1> HIDE DEF l
<1>3. l \in Lists
  BY Zenon DEF l
<1>4. Taken(obj', lists[l]) = Taken(obj, lists[l]) - obj[o].size + obj'[o].size
  <2> DEFINE s == lists[l]
  <2>1. s \in Seq(Objs) /\ In(s, o) /\ \A i, j \in 1 .. Len(s) : s[i] = s[j] => i = j
    BY <1>2, <1>3, CountTypes, UniqueIn, Zenon
  <2>2. obj \in [Objs -> ObjectI] /\ obj' \in [Objs -> ObjectI]
    BY CountTypes, Zenon
  <2>3. \A x \in Objs \ {o} : obj'[x] = obj[x]
    BY Zenon DEF Others
  <2> HIDE DEF s
  <2>4. Taken(obj', s) = Taken(obj, s) - obj[o].size + obj'[o].size
    BY <2>1, <2>2, <2>3, TakenChanged
  <2> QED
    BY <2>4, Zenon DEF s
<1>5. size'[l] = Taken(obj', lists[l])
  BY <1>1, <1>3, <1>4, Zenon DEF Counts
<1>6. \A m \in Lists \ {l} : size'[m] = Taken(obj', lists[m])
  BY <1>1, <1>2, CountElsewhere, Zenon
<1> QED
  BY <1>5, <1>6, Zenon DEF Counts

(* Every step keeps the counters right, or tears the lists. *)
LEMMA CountsStep ==
    ASSUME Typed, Agree, Targets, Counts, Next, Intact'
    PROVE  Counts'
<1>0. /\ Intact /\ Types
      /\ obj \in [Objs -> ObjectI] /\ \A o \in Objs : obj[o] \in ObjectI
  BY Zenon DEF Next, Typed, Types
<1>1. ASSUME UNCHANGED <<lists, size, obj>>
      PROVE  Counts'
  BY <1>1, Zenon DEF Counts
<1>2. ASSUME NEW o \in Objs, NEW to, obj' = [obj EXCEPT ![o].state = to]
      PROVE  obj'[o].size = obj[o].size /\ Others(o)
  <2> DEFINE r == [obj[o] EXCEPT !.state = to]
  <2>1. r.size = obj[o].size
    BY <1>0, Zenon DEF ObjectI
  <2>2. obj' = [obj EXCEPT ![o] = r]
    BY <1>0, <1>2
  <2> HIDE DEF r
  <2> QED
    BY <1>0, <2>1, <2>2, Zenon DEF Others
<1>3. ASSUME NEW o \in Objs, NEW to \in Lists, obj[o].state \in Lists, to # obj[o].state,
             Relink(o, to), obj' = [obj EXCEPT ![o].state = to]
      PROVE  Counts'
  <2>1. obj'[o].size = obj[o].size /\ Others(o)
    BY <1>2, <1>3, Zenon
  <2> QED
    BY <1>0, <1>3, <2>1, RelinkCounted, Zenon
<1>4. ASSUME NEW t \in Threads, MoveToHead(t)
      PROVE  Counts'
  <2> DEFINE o == thr[t].obj
             l == thr[t].to
  <2>1. o \in Objs /\ l \in Lists /\ obj[o].state = l
    BY <1>0, <1>4, ThreadField, Zenon DEF MoveToHead, Types, Lists
  <2>2. /\ lists' = [lists EXCEPT ![l] = <<o>> \o Without(lists[l], o)]
        /\ UNCHANGED <<obj, size>>
    BY <1>4, Zenon DEF MoveToHead
  <2> HIDE DEF o, l
  <2> QED
    BY <1>0, <2>1, <2>2, HeadCounted, Zenon
<1>5. ASSUME NEW t \in Threads, MoveOut(t)
      PROVE  Counts'
  <2> DEFINE o == thr[t].obj
             r == [obj[o] EXCEPT !.state = "none"]
  <2>1. o \in Objs
    BY <1>0, <1>5, Zenon DEF MoveOut, Types
  <2>2. obj' = [obj EXCEPT ![o] = Released(r)] \/ obj' = [obj EXCEPT ![o] = r]
    BY <1>5, Zenon DEF MoveOut
  <2> HIDE DEF r
  <2>3. Others(o)
    BY <1>0, <2>2, Zenon DEF Others
  <2>4. CASE obj[o].state = "none"
    <3>1. UNCHANGED <<lists, size>>
      BY <1>5, <2>4, Zenon DEF MoveOut
    <3> HIDE DEF o
    <3>2. \A m \in Lists : ~ In(lists[m], o)
      <4>1. \A m \in Lists : In(lists[m], o) <=> obj[o].state = m
        BY <2>1, Zenon DEF Agree
      <4> QED
        BY <2>4, <4>1, NotAList, Zenon
    <3>3. ASSUME NEW m \in Lists PROVE size[m] = Taken(obj', lists[m])
      <4>1. ~ In(lists[m], o)
        BY <3>2, Zenon
      <4> QED
        BY <2>1, <2>3, <4>1, CountElsewhere, Zenon
    <3> QED
      BY <3>1, <3>3, Zenon DEF Counts
  <2>5. CASE obj[o].state # "none"
    <3>1. obj[o].state \in Lists
      BY <1>0, <2>1, <2>5, ObjectField, Zenon
    <3>2. Unlink(o)
      BY <1>5, <2>5, Zenon DEF MoveOut
    <3> HIDE DEF o
    <3> QED
      BY <1>0, <2>1, <2>3, <3>1, <3>2, UnlinkCounted, Zenon
  <2> QED
    BY <2>4, <2>5, Zenon
<1>6. ASSUME NEW t \in Threads, MoveBetween(t)
      PROVE  Counts'
  <2> DEFINE o == thr[t].obj
             to == thr[t].to
  <2>1. o \in Objs /\ to \in Lists
    BY <1>0, <1>6, ThreadField, Zenon DEF MoveBetween, Types, Lists
  <2>2. obj[o].state \in Lists /\ to # obj[o].state
    BY <1>0, <1>6, <2>1, ObjectField, Zenon DEF MoveBetween
  <2>3. Relink(o, to) /\ obj' = [obj EXCEPT ![o].state = to]
    BY <1>6, Zenon DEF MoveBetween
  <2> HIDE DEF o, to
  <2> QED
    BY <1>3, <2>1, <2>2, <2>3, Zenon
<1>7. ASSUME NEW t \in Threads, Fetched(t)
      PROVE  Counts'
  <2> DEFINE o == thr[t].obj
             to == thr[t].to
             n == thr[t].size
             r == [obj[o] EXCEPT !.size = n, !.state = to, !.locked = FALSE]
  <2>1. o \in Objs /\ to \in Lists
    BY <1>0, <1>7, ZenonT(60) DEF Fetched, Types, Targets
  <2>2. obj' = [obj EXCEPT ![o] = r]
    BY <1>0, <1>7, <2>1, Zenon DEF Fetched
  <2>3. r.size = n
    BY <1>0, <2>1 DEF ObjectI
  <2> HIDE DEF r
  <2>4. obj'[o].size = n /\ Others(o)
    BY <1>0, <2>1, <2>2, <2>3, Zenon DEF Others
  <2>5. /\ lists' = [lists EXCEPT ![to] = <<o>> \o lists[to]]
        /\ size' = [size EXCEPT ![to] = size[to] + n]
    BY <1>7, Zenon DEF Fetched
  <2> HIDE DEF o, to, n
  <2> QED
    BY <2>1, <2>4, <2>5, AddCounted, Zenon
<1>8. ASSUME NEW t \in Threads, EvictMru(t) \/ EvictMfu(t)
      PROVE  Counts'
  <2>1. PICK from \in Lists, to \in Lists : to # from /\ ToGhost(t, from, to)
    BY <1>8 DEF EvictMru, EvictMfu, Lists
  <2> DEFINE o == lru(from)
  <2>2. o \in Objs /\ In(lists[from], o)
    BY <1>0, <2>1, LruType, Zenon DEF Types, ToGhost
  <2>3. obj[o].state = from
    BY <2>2, Zenon DEF Agree
  <2>4. Relink(o, to) /\ obj' = [obj EXCEPT ![o].state = to]
    BY <2>1, Zenon DEF ToGhost
  <2> HIDE DEF o
  <2> QED
    BY <1>3, <2>1, <2>2, <2>3, <2>4, Zenon
<1>9. ASSUME NEW t \in Threads, ForgetMfu(t) \/ ForgetMru(t)
      PROVE  Counts'
  <2>1. PICK l \in Lists : Forget(t, l)
    BY <1>9, Zenon DEF ForgetMfu, ForgetMru, Lists
  <2> DEFINE o == lru(l)
             r == [obj[o] EXCEPT !.state = "none"]
  <2>2. o \in Objs /\ In(lists[l], o)
    BY <1>0, <2>1, LruType, Zenon DEF Types, Forget
  <2>3. obj[o].state = l
    BY <2>2, Zenon DEF Agree
  <2>4. Unlink(o) /\ (obj' = [obj EXCEPT ![o] = Released(r)] \/ obj' = [obj EXCEPT ![o] = r])
    BY <2>1, Zenon DEF Forget
  <2> HIDE DEF o, r
  <2>5. Others(o)
    BY <1>0, <2>4, Zenon DEF Others
  <2> QED
    BY <1>0, <2>2, <2>3, <2>4, <2>5, UnlinkCounted, Zenon
<1>10. ASSUME NEW t \in Threads, UpdateSize(t)
       PROVE  Counts'
  <2> DEFINE o == thr[t].obj
             l == obj[o].state
  <2>1. UNCHANGED lists /\ o \in Objs
    BY <1>0, <1>10, Zenon DEF UpdateSize, Types
  <2>2. CASE l \notin {"mru", "mfu"}
    BY <1>1, <1>10, <2>1, <2>2, Zenon DEF UpdateSize
  <2>3. CASE l \in {"mru", "mfu"}
    <3>1. PICK s \in DataSizes :
             /\ obj' = [obj EXCEPT ![o].size = BaseSize + s]
             /\ size' = [size EXCEPT ![l] = size[l] - obj[o].size + BaseSize + s]
      BY <1>10, <2>3, Zenon DEF UpdateSize
    <3> DEFINE n == BaseSize + s
               r == [obj[o] EXCEPT !.size = n]
    <3>2. obj' = [obj EXCEPT ![o] = r] /\ r.size = n
      BY <1>0, <2>1, <3>1 DEF ObjectI
    <3>3. l \in Lists
      BY <2>3, Zenon DEF Lists
    <3>4. size[l] - obj[o].size + BaseSize + s = size[l] - obj[o].size + n
      <4>1. size[l] \in Int /\ obj[o].size \in Nat /\ BaseSize \in Nat /\ s \in Nat
        BY <2>1, <3>3, CountTypes, ArcSizes, Zenon
      <4> QED
        BY <4>1
    <3>5. size' = [size EXCEPT ![l] = size[l] - obj[o].size + n]
      BY <3>1, <3>4, Zenon
    <3> HIDE DEF n, r
    <3>6. obj'[o].size = n /\ Others(o)
      BY <1>0, <2>1, <3>2, Zenon DEF Others
    <3>7. size' = [size EXCEPT ![l] = size[l] - obj[o].size + obj'[o].size]
      BY <3>5, <3>6, Zenon
    <3> HIDE DEF o
    <3> QED
      BY <1>0, <2>1, <3>3, <3>6, <3>7, ResizeCounted, Zenon
  <2> QED
    BY <2>2, <2>3, Zenon
<1>11. ASSUME NEW t \in Threads, Passive(t)
       PROVE  Counts'
  <2>1. UNCHANGED <<lists, size>> /\ \A o \in Objs : Stays(o)
    BY <1>0, <1>11, PassiveStays, PassiveFrame, Zenon
  <2> QED
    BY <2>1, QuietCounts, Zenon
<1>12. ASSUME NEW t \in Threads, BalanceDone(t)
       PROVE  Counts'
  BY <1>1, <1>12, Zenon DEF BalanceDone
<1>13. ASSUME SetSize
       PROVE  Counts'
  BY <1>1, <1>13, Zenon DEF SetSize
<1> QED
  BY <1>4, <1>5, <1>6, <1>7, <1>8, <1>9, <1>10, <1>11, <1>12, <1>13, StepKinds, ZenonT(60)

LEMMA InitAccounting == Init => Accounting
<1> SUFFICES ASSUME Init, NEW l \in Lists PROVE size[l] = Taken(obj, lists[l])
  BY Zenon DEF Accounting
<1>1. size[l] = 0 /\ lists[l] = << >>
  BY Zenon DEF Init
<1> QED
  BY <1>1, InitTypes, TakenEmpty, Zenon DEF Types

LEMMA AccountingStep ==
    ASSUME Types, Types', Linked, Accounting, [Next]_vars
    PROVE  Accounting'
<1>1. CASE Next
  <2>1. Intact /\ Agree /\ Targets
    BY <1>1, AgreeIsState, Zenon DEF Next, Linked
  <2>2. Counts
    BY <2>1, Zenon DEF Accounting, Counts
  <2>3. Intact' => Counts'
    BY <1>1, <2>1, <2>2, CountsStep, Zenon DEF Typed
  <2> QED
    BY <2>3, Zenon DEF Accounting, Counts
<1>2. CASE UNCHANGED vars
  <2>1. lists' = lists /\ obj' = obj /\ size' = size /\ cut' = cut
    BY <1>2, ZenonT(60) DEF vars
  <2>2. Intact' => Intact
    BY <2>1 DEF Intact, IsListed
  <2> QED
    BY <2>1, <2>2, Zenon DEF Accounting
<1> QED
  BY <1>1, <1>2

(* Until the lists are torn, the counter of every list is what the objects in it
   take, whichever threads move, fetch, resize, evict and forget them: what
   arc_balance trusts, and MemoryBound counts with, is what is there. *)
THEOREM CountersTrue == Spec => []Accounting
<1>1. Init => Types /\ Linked /\ Accounting
  BY InitTypes, InitLinked, InitAccounting
<1>2. Types /\ Linked /\ Accounting /\ [Next]_vars => Types' /\ Linked' /\ Accounting'
  BY TypesStep, LinkedStep, AccountingStep
<1> QED
  BY <1>1, <1>2, PTL DEF Spec
=============================================================================
