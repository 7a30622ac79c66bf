------------------------- MODULE ArcReferenceProofs -------------------------
(* Proofs about the reference counts of Arc: what each step does to the
   references, the table and the holders of objects; for one thread at a time,
   that no reference is lost and that the table and the lists have the same
   objects; and, as long as nobody calls arc_clear, that no object is freed while
   somebody has it, by counting the threads that have it. *)
EXTENDS ArcProofs

(* The table has an object under the object's own key. *)
Named == \A k \in Keys : hash[k] # NoObj => obj[hash[k]].key = k

(* An object in use has a key. *)
Used == \A o \in Objs : obj[o].refs > 0 => obj[o].key \in Keys

(* There is a reference for the table, and another one if some thread has the
   object. *)
Covered ==
    \A o \in Objs :
       /\ obj[o].refs >= Hashed(o)
       /\ \A t \in Threads : thr[t].obj = o => obj[o].refs > Hashed(o)

(* A thread that has found no object yet has none, and is looking for a key. *)
Seeking ==
    \A t \in Threads :
       /\ thr[t].pc \in Unheld => thr[t].obj = NoObj
       /\ thr[t].pc \in {"lookup", "create"} => thr[t].key \in Keys

Sound == Named /\ Used /\ Covered

(* The table has an object under no other key than its own. *)
LEMMA HashedUnder ==
    ASSUME Types, Named, NEW o \in Objs
    PROVE  /\ Hashed(o) \in {0, 1}
           /\ Hashed(o) = 1 <=> \E k \in Keys : hash[k] = o
           /\ \A k \in Keys : hash[k] = o => k = obj[o].key
<1>1. o # NoObj
  BY ArcNames, Zenon
<1> QED
  BY <1>1 DEF Hashed, Named

-----------------------------------------------------------------------------
(* What a step does to the references *)

SameKey(o) == obj'[o].key = obj[o].key
SameHolders == \A u \in Threads : thr'[u].obj = thr[u].obj
OnlyHolder(t) == \A u \in Threads \ {t} : thr'[u].obj = thr[u].obj
OnlyKey(k, o) == hash'[k] = o /\ \A j \in Keys \ {k} : hash'[j] = hash[j]

Silent ==
    /\ UNCHANGED hash /\ SameHolders
    /\ \A o \in Objs : obj'[o].refs = obj[o].refs /\ SameKey(o)

(* Thread t retains what the table has. *)
Retains(t, o) ==
    /\ UNCHANGED hash /\ OnlyHolder(t) /\ Others(o)
    /\ \E k \in Keys : hash[k] = o
    /\ thr[t].obj = NoObj /\ thr'[t].obj = o
    /\ obj'[o].refs = obj[o].refs + 1 /\ SameKey(o)

(* A new object for key k, with a reference for the table and one for thread t
   unless it does not keep it. *)
Creates(t, o, k) ==
    /\ obj[o].refs = 0 /\ hash[k] = NoObj
    /\ OnlyKey(k, o) /\ Others(o) /\ OnlyHolder(t)
    /\ obj'[o].key = k
    /\ \/ obj'[o].refs = 1 /\ thr'[t].obj = thr[t].obj
       \/ obj'[o].refs = 2 /\ thr[t].obj = NoObj /\ thr'[t].obj = o

Unhashes(o) == \E k \in Keys : hash[k] = o /\ OnlyKey(k, NoObj)
Leaves(t, o) == thr[t].obj = o /\ thr'[t].obj = NoObj

(* A fetch failed for an object that was there before: its reference stays. *)
Forsakes(t) == thr[t].pc = "fetch" /\ ~ thr[t].new /\ thr'[t].obj = NoObj

(* The table, thread t or both give object o up, with h and n of its
   references. *)
GivesUp(t, o, h, n) ==
    /\ Others(o) /\ OnlyHolder(t)
    /\ \/ h = 0 /\ UNCHANGED hash
       \/ h = 1 /\ Unhashes(o)
    /\ \/ n = 0 /\ (thr'[t].obj = thr[t].obj \/ Forsakes(t))
       \/ n = 1 /\ Leaves(t, o)
    /\ obj'[o].refs = obj[o].refs - h - n
    /\ obj'[o].refs = 0 \/ SameKey(o)

(* Nobody has an object without references. *)
LEMMA UnusedFree ==
    ASSUME Types, Sound, NEW o \in Objs, obj[o].refs = 0
    PROVE  \A k \in Keys : hash[k] # o
<1>1. Hashed(o) \in {0, 1} /\ (Hashed(o) = 1 <=> \E k \in Keys : hash[k] = o)
  BY HashedUnder, Zenon DEF Sound
<1>2. obj[o].refs >= Hashed(o)
  BY Zenon DEF Sound, Covered
<1> QED
  BY <1>1, <1>2

(* Somebody's object has references, and so a key. *)
LEMMA HeldUsed ==
    ASSUME Types, Sound, NEW t \in Threads, NEW o \in Objs, thr[t].obj = o
    PROVE  obj[o].refs > 0 /\ obj[o].key \in Keys
<1>1. obj[o].refs > Hashed(o) /\ Hashed(o) \in {0, 1} /\ obj[o].refs \in Int
  BY ObjectField, Zenon DEF Sound, Covered, Hashed, Types
<1>2. obj[o].refs > 0
  BY <1>1
<1> QED
  BY <1>2, Zenon DEF Sound, Used

(* Changing what the table has under k changes nothing for other objects. *)
LEMMA HashedElsewhere ==
    ASSUME Types, NEW k \in Keys, NEW o \in Objs,
           \/ hash[k] = NoObj /\ OnlyKey(k, o)
           \/ hash[k] = o /\ OnlyKey(k, NoObj)
    PROVE  \A x \in Objs \ {o} : Hashed(x)' = Hashed(x)
<1> SUFFICES ASSUME NEW x \in Objs \ {o}
             PROVE  (\E j \in Keys : hash'[j] = x) <=> (\E j \in Keys : hash[j] = x)
  BY Zenon DEF Hashed
<1>1. x # NoObj
  BY ArcNames, Zenon
<1> QED
  BY <1>1, Zenon DEF OnlyKey

LEMMA GivesUpHashed ==
    ASSUME Types, Sound, NEW t \in Threads, NEW o \in Objs, NEW h, NEW n,
           GivesUp(t, o, h, n)
    PROVE  /\ \/ h = 0 /\ Hashed(o)' = Hashed(o)
              \/ h = 1 /\ Hashed(o) = 1 /\ Hashed(o)' = 0
           /\ \A x \in Objs \ {o} : Hashed(x)' = Hashed(x)
           /\ \A j \in Keys : hash'[j] = NoObj \/ hash'[j] = hash[j]
           /\ Hashed(o)' \in {0, 1}
           /\ Hashed(o)' = 0 => \A j \in Keys : hash'[j] # o
<1>0. o # NoObj
  BY ArcNames, Zenon
<1>1. CASE h = 0 /\ UNCHANGED hash
  BY <1>1 DEF Hashed
<1>2. CASE h = 1 /\ Unhashes(o)
  <2>1. PICK k \in Keys : hash[k] = o /\ OnlyKey(k, NoObj)
    BY <1>2, Zenon DEF Unhashes
  <2>2. \A j \in Keys : hash[j] = o => j = k
    BY <2>1, HashedUnder, Zenon DEF Sound
  <2>3. \A j \in Keys : hash'[j] # o
    BY <1>0, <2>1, <2>2, Zenon DEF OnlyKey
  <2>4. Hashed(o) = 1 /\ Hashed(o)' = 0
    BY <2>1, <2>3, Zenon DEF Hashed
  <2>5. \A x \in Objs \ {o} : Hashed(x)' = Hashed(x)
    BY <2>1, HashedElsewhere, Zenon
  <2> QED
    BY <1>2, <2>1, <2>3, <2>4, <2>5, Zenon DEF OnlyKey
<1> QED
  BY <1>1, <1>2, Zenon DEF GivesUp

-----------------------------------------------------------------------------
(* The table and the keys after a step *)

LEMMA SilentKeys ==
    ASSUME Types, Sound, Silent
    PROVE  Named' /\ Used'
<1>1. Used'
  BY Zenon DEF Sound, Used, Silent, SameKey
<1>2. ASSUME NEW k \in Keys, hash[k] # NoObj, hash[k] \in Objs
      PROVE  obj'[hash[k]].key = k
  BY <1>2, Zenon DEF Sound, Named, Silent, SameKey
<1> QED
  BY <1>1, <1>2, Zenon DEF Named, Silent, Types

LEMMA RetainsKeys ==
    ASSUME Types, Sound, NEW t \in Threads, NEW o \in Objs, Retains(t, o)
    PROVE  Named' /\ Used'
<1>1. Named'
  BY Zenon DEF Named, Sound, Retains, SameKey, Others, Types
<1>2. obj[o].refs > 0
  <2>1. Hashed(o) = 1
    BY HashedUnder, Zenon DEF Retains, Sound
  <2>2. obj[o].refs >= Hashed(o) /\ obj[o].refs \in Int
    BY ObjectField, Zenon DEF Sound, Covered, Types
  <2> QED
    BY <2>1, <2>2
<1>3. obj'[o].key \in Keys
  BY <1>2, Zenon DEF Sound, Used, Retains, SameKey
<1>4. Used'
  BY <1>3, Zenon DEF Used, Sound, Others, Retains
<1> QED
  BY <1>1, <1>4, Zenon

LEMMA CreatesKeys ==
    ASSUME Types, Sound, NEW t \in Threads, NEW o \in Objs, NEW k \in Keys, Creates(t, o, k)
    PROVE  Named' /\ Used'
<1>0. o # NoObj /\ \A j \in Keys : hash[j] # o
  BY ArcNames, UnusedFree, Zenon DEF Creates
<1>1. ASSUME NEW j \in Keys, hash'[j] # NoObj
      PROVE  obj'[hash'[j]].key = j
  <2>1. CASE j = k
    BY <2>1, Zenon DEF Creates, OnlyKey
  <2>2. CASE j # k
    <3>1. hash'[j] = hash[j]
      BY <2>2, Zenon DEF Creates, OnlyKey
    <3>2. hash[j] \in Objs \cup {NoObj}
      BY Zenon DEF Types
    <3>3. hash[j] \in Objs /\ hash[j] # o
      BY <1>0, <1>1, <3>1, <3>2, Zenon
    <3>4. obj[hash[j]].key = j
      BY <1>1, <3>1, Zenon DEF Sound, Named
    <3> QED
      BY <3>1, <3>3, <3>4, Zenon DEF Creates, Others
  <2> QED
    BY <2>1, <2>2, Zenon
<1>2. Named'
  BY <1>1, Zenon DEF Named
<1>3. obj'[o].key \in Keys /\ Others(o)
  BY Zenon DEF Creates
<1>4. Used'
  BY <1>3, Zenon DEF Used, Sound, Others
<1> QED
  BY <1>2, <1>4, Zenon

LEMMA GivesUpKeys ==
    ASSUME Types, Sound, NEW t \in Threads, NEW o \in Objs, NEW h, NEW n,
           GivesUp(t, o, h, n)
    PROVE  Named' /\ Used'
<1>1. /\ \/ h = 0 /\ Hashed(o)' = Hashed(o)
         \/ h = 1 /\ Hashed(o) = 1 /\ Hashed(o)' = 0
      /\ \A j \in Keys : hash'[j] = NoObj \/ hash'[j] = hash[j]
      /\ Hashed(o)' \in {0, 1}
      /\ Hashed(o)' = 0 => \A j \in Keys : hash'[j] # o
  BY GivesUpHashed, Zenon
<1>2. obj[o].refs >= Hashed(o) /\ obj[o].refs \in Int /\ Hashed(o) \in {0, 1}
  BY ObjectField, HashedUnder, Zenon DEF Sound, Covered, Types
<1>3. \/ n = 0
      \/ n = 1 /\ obj[o].refs > Hashed(o)
  BY Zenon DEF GivesUp, Leaves, Sound, Covered
<1>4. obj'[o].refs = obj[o].refs - h - n
  BY Zenon DEF GivesUp
<1>5. /\ Hashed(o)' = 0 \/ obj'[o].refs # 0
      /\ obj'[o].refs > 0 => obj'[o].refs # 0 /\ obj[o].refs > 0
  BY <1>1, <1>2, <1>3, <1>4
<1>6. obj'[o].refs > 0 => obj'[o].key \in Keys
  BY <1>5, Zenon DEF Sound, Used, GivesUp, SameKey
<1>7. Others(o)
  BY Zenon DEF GivesUp
<1>8. Used'
  BY <1>6, <1>7, Zenon DEF Used, Sound, Others
<1>9. (\A j \in Keys : hash'[j] # o) \/ SameKey(o)
  BY <1>1, <1>5, Zenon DEF GivesUp
<1>10. ASSUME NEW j \in Keys, hash'[j] # NoObj
       PROVE  obj'[hash'[j]].key = j
  <2>1. hash'[j] = hash[j] /\ hash[j] # NoObj
    BY <1>1, <1>10, Zenon
  <2>2. hash[j] \in Objs /\ obj[hash[j]].key = j
    BY <2>1, Zenon DEF Types, Sound, Named
  <2> QED
    BY <1>7, <1>9, <2>1, <2>2, Zenon DEF SameKey, Others
<1>11. Named'
  BY <1>10, Zenon DEF Named
<1> QED
  BY <1>8, <1>11, Zenon

-----------------------------------------------------------------------------
(* Which of these each action does *)

Event ==
    \/ Silent
    \/ \E t \in Threads, o \in Objs :
          \/ Retains(t, o)
          \/ \E k \in Keys : Creates(t, o, k)
          \/ \E h, n \in {0, 1} : GivesUp(t, o, h, n)

LEMMA ThreadBecomes ==
    ASSUME Types, NEW t \in Threads, NEW r, thr' = [thr EXCEPT ![t] = r]
    PROVE  /\ OnlyHolder(t) /\ thr'[t] = r
           /\ r.obj = thr[t].obj => SameHolders
<1>1. thr'[t] = r /\ \A u \in Threads \ {t} : thr'[u] = thr[u]
  BY Zenon DEF Types
<1> QED
  BY <1>1, Zenon DEF OnlyHolder, SameHolders

LEMMA GotoHolders ==
    ASSUME Types, NEW t \in Threads, NEW pc, Goto(t, pc)
    PROVE  SameHolders
<1> DEFINE r == [thr[t] EXCEPT !.pc = pc]
<1>1. thr' = [thr EXCEPT ![t] = r] /\ r.obj = thr[t].obj
  BY Zenon DEF Goto, Types, Thread
<1> HIDE DEF r
<1> QED
  BY <1>1, ThreadBecomes, Zenon

LEMMA ObjectBecomes ==
    ASSUME Types, NEW o \in Objs, NEW r, obj' = [obj EXCEPT ![o] = r]
    PROVE  Others(o) /\ obj'[o] = r
  BY Zenon DEF Types, Others

(* A step that writes other fields of an object than its references and its
   key. *)
LEMMA FieldSilent ==
    ASSUME Types, NEW o \in Objs, NEW r, obj' = [obj EXCEPT ![o] = r],
           r.refs = obj[o].refs, r.key = obj[o].key, UNCHANGED hash, SameHolders
    PROVE  Silent
<1>1. Others(o) /\ obj'[o] = r
  BY ObjectBecomes, Zenon
<1> QED
  BY <1>1, Zenon DEF Silent, Others, SameKey

LEMMA ReleasedRefs ==
    ASSUME NEW r \in ObjectI
    PROVE  /\ Released(r).refs = r.refs - 1
           /\ Released(r).refs = 0 \/ Released(r).key = r.key
<1>1. CASE r.refs = 1
  BY <1>1 DEF Released, Free
<1>2. CASE r.refs # 1
  <2>1. Released(r) = [r EXCEPT !.refs = r.refs - 1]
    BY <1>2, Zenon DEF Released
  <2> QED
    BY <2>1, Zenon DEF ObjectI
<1> QED
  BY <1>1, <1>2, Zenon

LEMMA SameThreads ==
    ASSUME UNCHANGED thr
    PROVE  SameHolders
  BY Zenon DEF SameHolders

LEMMA QuietEvent ==
    ASSUME Types, NEW t \in Threads,
           \/ Check(t) \/ FetchFits(t) \/ StartBalance(t) \/ ResidentDone(t)
           \/ BalanceDone(t) \/ Drop(t) \/ MoveToHead(t) \/ SetSize
    PROVE  Silent
<1>1. UNCHANGED <<hash, obj>>
  BY Zenon DEF Check, FetchFits, StartBalance, ResidentDone, BalanceDone, Drop, MoveToHead, SetSize
<1>2. SameHolders
  <2>1. CASE SetSize
    BY <2>1, SameThreads, Zenon DEF SetSize
  <2>2. CASE Drop(t)
    <3> DEFINE r == [thr[t] EXCEPT !.pc = "check", !.to = "none"]
    <3>1. thr' = [thr EXCEPT ![t] = r] /\ r.obj = thr[t].obj
      BY <2>2, Zenon DEF Drop, Types, Thread
    <3> HIDE DEF r
    <3> QED
      BY <3>1, ThreadBecomes, Zenon
  <2>3. CASE FetchFits(t)
    <3>1. PICK s \in DataSizes : thr' = [thr EXCEPT ![t].pc = "link", ![t].size = BaseSize + s]
      BY <2>3, Zenon DEF FetchFits
    <3> DEFINE r == [thr[t] EXCEPT !.pc = "link", !.size = BaseSize + s]
    <3>2. thr' = [thr EXCEPT ![t] = r] /\ r.obj = thr[t].obj
      BY <3>1, Zenon DEF Types, Thread
    <3> HIDE DEF r
    <3> QED
      BY <3>2, ThreadBecomes, Zenon
  <2>4. CASE Check(t) \/ StartBalance(t) \/ ResidentDone(t) \/ BalanceDone(t) \/ MoveToHead(t)
    <3>1. \E pc : Goto(t, pc)
      BY <2>4, Zenon DEF Check, StartBalance, ResidentDone, BalanceDone, MoveToHead
    <3> QED
      BY <3>1, GotoHolders, Zenon
  <2> QED
    BY <2>1, <2>2, <2>3, <2>4, Zenon
<1> QED
  BY <1>1, <1>2, Zenon DEF Silent, SameKey

(* A thread that is past the lookup has an object. *)
LEMMA HasObject ==
    ASSUME Types, NEW t \in Threads, thr[t].pc \notin Unheld
    PROVE  thr[t].obj \in Objs /\ obj[thr[t].obj] \in ObjectI
  BY Zenon DEF Types, Unheld

LEMMA FieldsKeep ==
    ASSUME NEW r \in ObjectI, NEW s, NEW n, NEW b
    PROVE  /\ [r EXCEPT !.state = s].refs = r.refs /\ [r EXCEPT !.state = s].key = r.key
           /\ [r EXCEPT !.locked = b].refs = r.refs /\ [r EXCEPT !.locked = b].key = r.key
           /\ [r EXCEPT !.size = n].refs = r.refs /\ [r EXCEPT !.size = n].key = r.key
  BY Zenon DEF ObjectI

LEMMA FieldEvent ==
    ASSUME Types, NEW t \in Threads,
           \/ MoveBetween(t) \/ StartFetch(t) \/ Fetched(t) \/ UpdateSize(t)
           \/ EvictMru(t) \/ EvictMfu(t)
    PROVE  Silent
<1>0. obj \in [Objs -> ObjectI]
  BY Zenon DEF Types
<1>1. CASE MoveBetween(t)
  <2>1. thr[t].obj \in Objs /\ obj[thr[t].obj] \in ObjectI /\ SameHolders
    BY <1>1, HasObject, GotoHolders, Zenon DEF MoveBetween, Unheld
  <2>2. obj' = [obj EXCEPT ![thr[t].obj] = [obj[thr[t].obj] EXCEPT !.state = thr[t].to]]
    BY <1>0, <1>1, <2>1, Zenon DEF MoveBetween
  <2>3. UNCHANGED hash
    BY <1>1, Zenon DEF MoveBetween
  <2> QED
    BY <2>1, <2>2, <2>3, FieldSilent, FieldsKeep, Zenon
<1>2. CASE StartFetch(t)
  <2>1. thr[t].obj \in Objs /\ obj[thr[t].obj] \in ObjectI /\ SameHolders
    BY <1>2, HasObject, GotoHolders, Zenon DEF StartFetch, Unheld
  <2>2. obj' = [obj EXCEPT ![thr[t].obj] = [obj[thr[t].obj] EXCEPT !.locked = TRUE]]
    BY <1>0, <1>2, <2>1, Zenon DEF StartFetch
  <2>3. UNCHANGED hash
    BY <1>2, Zenon DEF StartFetch
  <2> QED
    BY <2>1, <2>2, <2>3, FieldSilent, FieldsKeep, Zenon
<1>3. CASE Fetched(t)
  <2>1. thr[t].obj \in Objs /\ obj[thr[t].obj] \in ObjectI
    BY <1>3, HasObject, Zenon DEF Fetched, Unheld
  <2>2. obj' = [obj EXCEPT ![thr[t].obj] = [obj[thr[t].obj] EXCEPT
                               !.size = thr[t].size, !.state = thr[t].to, !.locked = FALSE]]
    BY <1>0, <1>3, <2>1, Zenon DEF Fetched
  <2>3. UNCHANGED hash
    BY <1>3, Zenon DEF Fetched
  <2> DEFINE r == [thr[t] EXCEPT !.pc = "balance", !.size = 0]
  <2>4. thr' = [thr EXCEPT ![t] = r] /\ r.obj = thr[t].obj
    BY <1>3, Zenon DEF Fetched, Types, Thread
  <2> HIDE DEF r
  <2>5. SameHolders
    BY <2>4, ThreadBecomes, Zenon
  <2> DEFINE q == [obj[thr[t].obj] EXCEPT !.size = thr[t].size, !.state = thr[t].to,
                                          !.locked = FALSE]
  <2>6. q.refs = obj[thr[t].obj].refs /\ q.key = obj[thr[t].obj].key
    BY <2>1, Zenon DEF ObjectI
  <2>7. obj' = [obj EXCEPT ![thr[t].obj] = q]
    BY <2>2, Zenon
  <2> HIDE DEF q
  <2> QED
    BY <2>1, <2>3, <2>5, <2>6, <2>7, FieldSilent, Zenon
<1>4. CASE UpdateSize(t)
  <2>1. thr[t].obj \in Objs /\ obj[thr[t].obj] \in ObjectI /\ SameHolders /\ UNCHANGED hash
    BY <1>4, HasObject, SameThreads, Zenon DEF UpdateSize, Unheld
  <2>2. CASE UNCHANGED obj
    BY <2>1, <2>2, Zenon DEF Silent, SameKey
  <2>3. CASE ~ UNCHANGED obj
    <3>1. PICK s \in DataSizes : obj' = [obj EXCEPT ![thr[t].obj].size = BaseSize + s]
      BY <1>4, <2>3, Zenon DEF UpdateSize
    <3>2. obj' = [obj EXCEPT ![thr[t].obj] = [obj[thr[t].obj] EXCEPT !.size = BaseSize + s]]
      BY <1>0, <2>1, <3>1, Zenon
    <3> QED
      BY <2>1, <3>2, FieldSilent, FieldsKeep, Zenon
  <2> QED
    BY <2>2, <2>3, Zenon
<1>5. ASSUME NEW l \in Lists, NEW to, ToGhost(t, l, to)
      PROVE  Silent
  <2>1. lists \in [Lists -> Seq(Objs)] /\ Len(lists[l]) > 0
    BY <1>5, Zenon DEF Types, ToGhost
  <2>2. lru(l) \in Objs /\ obj[lru(l)] \in ObjectI
    BY <1>0, <2>1, LruType, Zenon
  <2>3. obj' = [obj EXCEPT ![lru(l)] = [obj[lru(l)] EXCEPT !.state = to]]
    BY <1>0, <1>5, <2>2, Zenon DEF ToGhost
  <2>4. UNCHANGED hash /\ SameHolders
    BY <1>5, SameThreads, Zenon DEF ToGhost
  <2> QED
    BY <2>2, <2>3, <2>4, FieldSilent, FieldsKeep, Zenon
<1>6. CASE EvictMru(t) \/ EvictMfu(t)
  BY <1>5, <1>6, Zenon DEF EvictMru, EvictMfu, Lists
<1> QED
  BY <1>1, <1>2, <1>3, <1>4, <1>6, Zenon

(* The table gives o up, if it has it. *)
LEMMA UnhashEvent ==
    ASSUME Types, Sound, NEW t \in Threads, NEW o \in Objs, NEW r \in ObjectI,
           r.refs = obj[o].refs, r.key = obj[o].key, r.key \in Keys, SameHolders,
           IF hash[r.key] = o
           THEN hash' = [hash EXCEPT ![r.key] = NoObj] /\ obj' = [obj EXCEPT ![o] = Released(r)]
           ELSE obj' = [obj EXCEPT ![o] = r] /\ UNCHANGED hash
    PROVE  /\ Silent \/ GivesUp(t, o, 1, 0)
           /\ Hashed(o)' = 0
           /\ Others(o) /\ obj'[o] \in {r, Released(r)}
<1>1. CASE hash[r.key] = o
  <2>1. Others(o) /\ obj'[o] = Released(r)
    BY <1>1, ObjectBecomes, Zenon
  <2>2. OnlyKey(r.key, NoObj)
    BY <1>1, Zenon DEF OnlyKey, Types
  <2>3. Unhashes(o)
    BY <1>1, <2>2, Zenon DEF Unhashes
  <2>4. obj'[o].refs = obj[o].refs - 1 /\ (obj'[o].refs = 0 \/ SameKey(o))
    BY <2>1, ReleasedRefs, Zenon DEF SameKey
  <2>5. obj[o].refs \in Int /\ OnlyHolder(t) /\ thr'[t].obj = thr[t].obj
    BY ObjectField, Zenon DEF Types, OnlyHolder, SameHolders
  <2>6. obj'[o].refs = obj[o].refs - 1 - 0
    BY <2>4, <2>5
  <2>7. GivesUp(t, o, 1, 0)
    BY <2>1, <2>3, <2>4, <2>5, <2>6, Zenon DEF GivesUp
  <2>8. Hashed(o)' = 0
    BY <2>7, GivesUpHashed
  <2> QED
    BY <2>1, <2>7, <2>8, Zenon
<1>2. CASE hash[r.key] # o
  <2>1. Silent /\ Others(o) /\ obj'[o] = r
    BY <1>2, FieldSilent, ObjectBecomes, Zenon
  <2>2. \A k \in Keys : hash[k] # o
    BY <1>2, HashedUnder, Zenon DEF Sound
  <2>3. Hashed(o)' = 0
    BY <1>2, <2>2, Zenon DEF Hashed
  <2> QED
    BY <2>1, <2>3, Zenon
<1> QED
  BY <1>1, <1>2, Zenon

LEMMA MoveOutEvent ==
    ASSUME Types, Sound, NEW t \in Threads, MoveOut(t), NEW o, o = thr[t].obj
    PROVE  /\ Silent \/ GivesUp(t, o, 1, 0)
           /\ o \in Objs /\ Hashed(o)' = 0
           /\ Others(o) /\ obj'[o].state = "none"
<1> DEFINE r == [obj[o] EXCEPT !.state = "none"]
<1>1. o \in Objs /\ obj[o] \in ObjectI /\ SameHolders
  BY HasObject, GotoHolders, Zenon DEF MoveOut, Unheld
<1>2. r \in ObjectI /\ r.refs = obj[o].refs /\ r.key = obj[o].key
  BY <1>1, ObjectFields, FieldsKeep, Zenon
<1>3. IF hash[r.key] = o
      THEN hash' = [hash EXCEPT ![r.key] = NoObj] /\ obj' = [obj EXCEPT ![o] = Released(r)]
      ELSE obj' = [obj EXCEPT ![o] = r] /\ UNCHANGED hash
  BY Zenon DEF MoveOut
<1>7. r.key \in Keys
  BY <1>1, <1>2, HeldUsed, Zenon
<1>8. r.state = "none"
  BY <1>1, Zenon DEF ObjectI
<1> HIDE DEF r
<1>9. /\ Silent \/ GivesUp(t, o, 1, 0)
      /\ Hashed(o)' = 0
      /\ Others(o) /\ obj'[o] \in {r, Released(r)}
  BY <1>1, <1>2, <1>3, <1>7, UnhashEvent, Zenon
<1>10. obj'[o].state = "none"
  <2>1. Released(r).state = "none"
    BY <1>2, <1>8, ReleasedStays, Zenon
  <2> QED
    BY <1>8, <1>9, <2>1, Zenon
<1> QED
  BY <1>1, <1>9, <1>10, Zenon

LEMMA ForgetEvent ==
    ASSUME Types, Sound, Intact, NEW t \in Threads, NEW l \in Lists, Forget(t, l),
           NEW o, o = lru(l)
    PROVE  /\ o \in Objs /\ In(lists[l], o) /\ SameHolders
           /\ Silent \/ GivesUp(t, o, 1, 0)
           /\ Hashed(o)' = 0
           /\ Others(o) /\ obj'[o].state = "none"
<1> DEFINE r == [obj[o] EXCEPT !.state = "none"]
<1>1. lists \in [Lists -> Seq(Objs)] /\ Len(lists[l]) > 0 /\ SameHolders
  BY SameThreads, Zenon DEF Types, Forget
<1>2. o \in Objs /\ In(lists[l], o)
  BY <1>1, LruType, Zenon
<1>3. obj[o] \in ObjectI
  BY <1>2, Zenon DEF Types
<1>4. r \in ObjectI /\ r.refs = obj[o].refs /\ r.key = obj[o].key
  BY <1>3, ObjectFields, FieldsKeep, Zenon
<1>5. IF hash[r.key] = o
      THEN hash' = [hash EXCEPT ![r.key] = NoObj] /\ obj' = [obj EXCEPT ![o] = Released(r)]
      ELSE obj' = [obj EXCEPT ![o] = r] /\ UNCHANGED hash
  BY Zenon DEF Forget
<1>6. obj[o].refs > 0
  BY <1>2, ListedIn, Zenon DEF Intact
<1>7. r.key \in Keys
  BY <1>2, <1>4, <1>6, Zenon DEF Sound, Used
<1>8. r.state = "none"
  BY <1>3, Zenon DEF ObjectI
<1> HIDE DEF r
<1>9. /\ Silent \/ GivesUp(t, o, 1, 0)
      /\ Hashed(o)' = 0
      /\ Others(o) /\ obj'[o] \in {r, Released(r)}
  BY <1>1, <1>2, <1>4, <1>5, <1>7, UnhashEvent, Zenon
<1>10. obj'[o].state = "none"
  <2>1. Released(r).state = "none"
    BY <1>4, <1>8, ReleasedStays, Zenon
  <2> QED
    BY <1>8, <1>9, <2>1, Zenon
<1> QED
  BY <1>1, <1>2, <1>9, <1>10, Zenon

(* The new object of arc_lookup_internal and of arc_load. *)
LEMMA CreateEvent ==
    ASSUME Types, NEW t \in Threads, NEW o \in Objs, NEW k \in Keys, NEW n,
           hash[k] = NoObj, Unused(o), hash' = [hash EXCEPT ![k] = o],
           obj' = [obj EXCEPT ![o] = [Free EXCEPT !.key = k, !.size = BaseSize, !.refs = n]],
           OnlyHolder(t),
           \/ n = 1 /\ thr'[t].obj = thr[t].obj
           \/ n = 2 /\ thr[t].obj = NoObj /\ thr'[t].obj = o
    PROVE  Creates(t, o, k)
<1> DEFINE r == [Free EXCEPT !.key = k, !.size = BaseSize, !.refs = n]
<1>1. r.key = k /\ r.refs = n
  BY Zenon DEF Free
<1> HIDE DEF r
<1>2. Others(o) /\ obj'[o] = r
  BY ObjectBecomes, Zenon DEF r
<1>3. OnlyKey(k, o)
  BY Zenon DEF OnlyKey, Types
<1>4. obj[o].refs = 0
  BY ZenonT(60) DEF Unused
<1> QED
  BY <1>1, <1>2, <1>3, <1>4, Zenon DEF Creates

LEMMA InsertEvent ==
    ASSUME Types, Seeking, NEW t \in Threads, Insert(t)
    PROVE  \/ Silent /\ Goto(t, "lookup") /\ UNCHANGED obj
           \/ \E o \in Objs :
                 /\ Unused(o) /\ Creates(t, o, thr[t].key) /\ thr[t].key \in Keys
                 /\ thr'[t] = [thr[t] EXCEPT !.pc = "move", !.obj = o, !.to = "mru",
                                             !.new = TRUE]
                 /\ obj'[o].state = "none" /\ obj'[o].refs = 2
<1>1. CASE hash[thr[t].key] # NoObj
  <2>1. Goto(t, "lookup") /\ UNCHANGED <<hash, obj>>
    BY <1>1, Zenon DEF Insert
  <2>2. SameHolders
    BY <2>1, GotoHolders, Zenon
  <2> QED
    BY <2>1, <2>2, Zenon DEF Silent, SameKey
<1>2. CASE hash[thr[t].key] = NoObj
  <2> DEFINE k == thr[t].key
  <2>1. thr[t].obj = NoObj /\ k \in Keys
    BY Zenon DEF Insert, Seeking, Unheld
  <2>2. PICK o \in Objs :
           /\ Unused(o) /\ hash' = [hash EXCEPT ![k] = o]
           /\ obj' = [obj EXCEPT ![o] = [Free EXCEPT !.key = k, !.size = BaseSize, !.refs = 2]]
           /\ thr' = [thr EXCEPT ![t].pc = "move", ![t].obj = o,
                                 ![t].to = "mru", ![t].new = TRUE]
    BY <1>2, Zenon DEF Insert
  <2> DEFINE r == [thr[t] EXCEPT !.pc = "move", !.obj = o, !.to = "mru", !.new = TRUE]
  <2>3. thr' = [thr EXCEPT ![t] = r] /\ r.obj = o
    BY <2>2, Zenon DEF Types, Thread
  <2>4. OnlyHolder(t) /\ thr'[t] = r
    BY <2>3, ThreadBecomes, Zenon
  <2> HIDE DEF r
  <2>5. Creates(t, o, k)
    BY <1>2, <2>1, <2>2, <2>3, <2>4, CreateEvent, Zenon
  <2>6. obj'[o].state = "none" /\ obj'[o].refs = 2
    <3> DEFINE q == [Free EXCEPT !.key = k, !.size = BaseSize, !.refs = 2]
    <3>1. q.state = "none" /\ q.refs = 2
      BY Zenon DEF Free
    <3>2. obj'[o] = q
      BY <2>2, ObjectBecomes, Zenon
    <3> HIDE DEF q
    <3> QED
      BY <3>1, <3>2, Zenon
  <2> QED
    BY <2>1, <2>2, <2>4, <2>5, <2>6, Zenon DEF r
<1> QED
  BY <1>1, <1>2, Zenon

LEMMA LoadEvent ==
    ASSUME Types, NEW t \in Threads, NEW k \in Keys, Load(t, k)
    PROVE  \E o \in Objs : Creates(t, o, k)
<1>1. PICK o \in Objs :
         /\ Unused(o) /\ hash' = [hash EXCEPT ![k] = o]
         /\ obj' = [obj EXCEPT ![o] = [Free EXCEPT !.key = k, !.size = BaseSize, !.refs = 1]]
  BY Zenon DEF Load
<1>2. OnlyHolder(t) /\ thr'[t].obj = thr[t].obj /\ hash[k] = NoObj
  BY Zenon DEF Load, OnlyHolder
<1> QED
  BY <1>1, <1>2, CreateEvent, Zenon

(* A thread that finds an object retains it. *)
LEMMA FoundEvent ==
    ASSUME Types, NEW t \in Threads, NEW k \in Keys, NEW o \in Objs, hash[k] = o, NEW r,
           UNCHANGED hash, obj' = [obj EXCEPT ![o].refs = @ + 1],
           thr[t].obj = NoObj, thr' = [thr EXCEPT ![t] = r], r.obj = o
    PROVE  /\ Retains(t, o) /\ thr'[t] = r
           /\ obj'[o].state = obj[o].state
<1> DEFINE q == [obj[o] EXCEPT !.refs = obj[o].refs + 1]
<1>1. obj[o] \in ObjectI /\ obj \in [Objs -> ObjectI]
  BY Zenon DEF Types
<1>2. obj' = [obj EXCEPT ![o] = q]
  BY <1>1, Zenon
<1>3. q.refs = obj[o].refs + 1 /\ q.key = obj[o].key /\ q.state = obj[o].state
  BY <1>1, Zenon DEF ObjectI
<1> HIDE DEF q
<1>4. Others(o) /\ obj'[o] = q
  BY <1>2, ObjectBecomes, Zenon
<1>5. OnlyHolder(t) /\ thr'[t] = r
  BY ThreadBecomes, Zenon
<1> QED
  BY <1>3, <1>4, <1>5, Zenon DEF Retains, SameKey

LEMMA LookupEvent ==
    ASSUME Types, Seeking, NEW t \in Threads, NEW k \in Keys, Lookup(t, k)
    PROVE  \/ /\ Silent /\ UNCHANGED obj
              /\ thr'[t] = [Idle EXCEPT !.pc = "create", !.key = k]
           \/ /\ hash[k] \in Objs /\ Retains(t, hash[k])
              /\ thr'[t] = [Idle EXCEPT !.pc = "check", !.key = k, !.obj = hash[k], !.to = "mfu"]
              /\ obj'[hash[k]].state = obj[hash[k]].state
<1>0. thr[t].obj = NoObj
  BY Zenon DEF Lookup, Seeking, Unheld
<1>1. CASE hash[k] = NoObj
  <2> DEFINE r == [Idle EXCEPT !.pc = "create", !.key = k]
  <2>1. r.obj = NoObj
    BY Zenon DEF Idle
  <2>2. thr' = [thr EXCEPT ![t] = r] /\ UNCHANGED <<hash, obj>>
    BY <1>1, Zenon DEF Lookup
  <2> HIDE DEF r
  <2>3. SameHolders /\ thr'[t] = r
    BY <1>0, <2>1, <2>2, ThreadBecomes, Zenon
  <2> QED
    BY <2>2, <2>3, Zenon DEF Silent, SameKey, r
<1>2. CASE hash[k] # NoObj
  <2> DEFINE r == [Idle EXCEPT !.pc = "check", !.key = k, !.obj = hash[k], !.to = "mfu"]
  <2>1. r.obj = hash[k]
    BY Zenon DEF Idle
  <2>2. /\ thr' = [thr EXCEPT ![t] = r] /\ UNCHANGED hash
        /\ obj' = [obj EXCEPT ![hash[k]].refs = @ + 1]
    BY <1>2, Zenon DEF Lookup
  <2>3. hash[k] \in Objs
    BY <1>2, Zenon DEF Types
  <2> HIDE DEF r
  <2>4. Retains(t, hash[k]) /\ thr'[t] = r /\ obj'[hash[k]].state = obj[hash[k]].state
    BY <1>0, <2>1, <2>2, <2>3, FoundEvent, Zenon
  <2> QED
    BY <2>3, <2>4, Zenon DEF r
<1> QED
  BY <1>1, <1>2, Zenon

LEMMA RemoveEvent ==
    ASSUME Types, Seeking, NEW t \in Threads, NEW k \in Keys, Remove(t, k)
    PROVE  /\ hash[k] \in Objs /\ Retains(t, hash[k])
           /\ thr'[t] = [Idle EXCEPT !.pc = "check", !.key = k, !.obj = hash[k]]
           /\ obj'[hash[k]].state = obj[hash[k]].state
<1> DEFINE r == [Idle EXCEPT !.pc = "check", !.key = k, !.obj = hash[k]]
<1>1. r.obj = hash[k]
  BY Zenon DEF Idle
<1>2. /\ thr' = [thr EXCEPT ![t] = r] /\ UNCHANGED hash
      /\ obj' = [obj EXCEPT ![hash[k]].refs = @ + 1]
  BY Zenon DEF Remove
<1>3. hash[k] \in Objs /\ thr[t].obj = NoObj
  BY Zenon DEF Types, Remove, Seeking, Unheld
<1> HIDE DEF r
<1>4. Retains(t, hash[k]) /\ thr'[t] = r /\ obj'[hash[k]].state = obj[hash[k]].state
  BY <1>1, <1>2, <1>3, FoundEvent, Zenon
<1> QED
  BY <1>3, <1>4, Zenon DEF r

LEMMA UncachedEvent ==
    ASSUME Types, Sound, NEW t \in Threads, FetchedUncached(t), NEW o, o = thr[t].obj
    PROVE  /\ Silent \/ GivesUp(t, o, 1, 0)
           /\ o \in Objs /\ Hashed(o)' = 0
           /\ Others(o) /\ obj'[o].state \in {"none", obj[o].state}
<1> DEFINE k == obj[o].key
<1>1. o \in Objs /\ obj[o] \in ObjectI /\ SameHolders
  BY HasObject, GotoHolders, Zenon DEF FetchedUncached, Unheld
<1>2. CASE k \in Keys /\ hash[k] = o
  <2>1. hash' = [hash EXCEPT ![k] = NoObj] /\ obj' = [obj EXCEPT ![o] = Released(obj[o])]
    BY <1>1, <1>2, Zenon DEF FetchedUncached, HashDelete, Types
  <2>2. /\ Silent \/ GivesUp(t, o, 1, 0)
        /\ Hashed(o)' = 0
        /\ Others(o) /\ obj'[o] \in {obj[o], Released(obj[o])}
    BY <1>1, <1>2, <2>1, UnhashEvent, Zenon
  <2>3. obj'[o].state \in {"none", obj[o].state}
    <3>1. Released(obj[o]).state = "none" \/ Released(obj[o]).state = obj[o].state
      BY <1>1, ReleasedStays, Zenon
    <3> QED
      BY <2>2, <3>1, Zenon
  <2> QED
    BY <1>1, <2>2, <2>3, Zenon
<1>3. CASE ~ (k \in Keys /\ hash[k] = o)
  <2>1. UNCHANGED <<hash, obj>>
    BY <1>3, Zenon DEF FetchedUncached, HashDelete
  <2>2. \A j \in Keys : hash[j] # o
    BY <1>1, <1>3, HashedUnder, Zenon DEF Sound
  <2>3. Hashed(o)' = 0
    BY <2>1, <2>2, Zenon DEF Hashed
  <2>4. Silent /\ Others(o) /\ obj'[o] = obj[o]
    BY <1>1, <2>1, Zenon DEF Silent, SameKey, Others
  <2> QED
    BY <1>1, <2>3, <2>4, Zenon
<1> QED
  BY <1>2, <1>3, Zenon

LEMMA ReleaseEvent ==
    ASSUME Types, NEW t \in Threads, Release(t)
    PROVE  /\ thr[t].obj \in Objs /\ GivesUp(t, thr[t].obj, 0, 1) /\ thr'[t] = Idle
           /\ UNCHANGED hash /\ obj'[thr[t].obj] = Released(obj[thr[t].obj])
<1> DEFINE o == thr[t].obj
<1>1. o \in Objs /\ obj[o] \in ObjectI
  BY HasObject, Zenon DEF Release, Unheld
<1>2. obj' = [obj EXCEPT ![o] = Released(obj[o])]
  BY <1>1, Zenon DEF Release, Types
<1>3. thr' = [thr EXCEPT ![t] = Idle] /\ UNCHANGED hash /\ Idle.obj = NoObj
  BY Zenon DEF Release, Idle
<1>4. OnlyHolder(t) /\ thr'[t] = Idle
  BY <1>3, ThreadBecomes, Zenon
<1> HIDE DEF o
<1>5. Others(o) /\ obj'[o] = Released(obj[o])
  BY <1>1, <1>2, ObjectBecomes, Zenon
<1>6. obj'[o].refs = obj[o].refs - 1 /\ (obj'[o].refs = 0 \/ SameKey(o)) /\ obj[o].refs \in Int
  BY <1>1, <1>5, ReleasedRefs, ObjectField, Zenon DEF SameKey
<1>7. obj'[o].refs = obj[o].refs - 0 - 1
  BY <1>6
<1>8. Leaves(t, o)
  BY <1>3, <1>4, Zenon DEF Leaves, o
<1>9. GivesUp(t, o, 0, 1)
  BY <1>3, <1>4, <1>5, <1>6, <1>7, <1>8, Zenon DEF GivesUp
<1> QED
  BY <1>1, <1>3, <1>4, <1>5, <1>9, Zenon DEF o

LEMMA FailedEvent ==
    ASSUME Types, Sound, NEW t \in Threads, FetchFailed(t)
    PROVE  /\ thr[t].obj \in Objs /\ thr'[t] = Idle
           /\ \E h, n \in {0, 1} :
                 /\ GivesUp(t, thr[t].obj, h, n)
                 /\ n = 1 <=> thr[t].new
                 /\ h = 1 <=> Hashed(thr[t].obj) = 1
                 /\ obj'[thr[t].obj] =
                       IF obj[thr[t].obj].refs = h + n THEN Free
                       ELSE [obj[thr[t].obj] EXCEPT !.refs = obj[thr[t].obj].refs - (h + n)]
<1> DEFINE o == thr[t].obj
           k == obj[o].key
           h == IF hash[k] = o THEN 1 ELSE 0
           n == IF thr[t].new THEN 1 ELSE 0
           r == IF obj[o].refs = h + n THEN Free
                ELSE [obj[o] EXCEPT !.refs = obj[o].refs - (h + n)]
<1>1. o \in Objs /\ obj[o] \in ObjectI
  BY HasObject, Zenon DEF FetchFailed, Unheld
<1>2. thr' = [thr EXCEPT ![t] = Idle] /\ Idle.obj = NoObj
  BY Zenon DEF FetchFailed, Idle
<1>3. OnlyHolder(t) /\ thr'[t] = Idle
  BY <1>2, ThreadBecomes, Zenon
<1>4. k \in Keys
  BY <1>1, HeldUsed, Zenon
<1>5. hash' = [hash EXCEPT ![k] = IF hash[k] = o THEN NoObj ELSE hash[k]]
  BY <1>4, Zenon DEF FetchFailed, Types
<1>6. obj' = [obj EXCEPT ![o] = r]
  BY <1>1, Zenon DEF FetchFailed
<1>7. h \in {0, 1} /\ n \in {0, 1} /\ (n = 1 <=> thr[t].new) /\ (h = 1 <=> hash[k] = o)
  OBVIOUS
<1> HIDE DEF o, k, h, n
<1>8. r.refs = obj[o].refs - h - n /\ (r.refs = 0 \/ r.key = obj[o].key)
  <2>1. obj[o].refs \in Int
    BY <1>1, ObjectField, Zenon
  <2>2. CASE obj[o].refs = h + n
    <3>1. r.refs = 0
      BY <2>2, Zenon DEF Free
    <3> QED
      BY <1>7, <2>1, <2>2, <3>1
  <2>3. CASE obj[o].refs # h + n
    <3>1. r = [obj[o] EXCEPT !.refs = obj[o].refs - (h + n)]
      BY <2>3, Zenon
    <3>2. r.refs = obj[o].refs - (h + n) /\ r.key = obj[o].key
      BY <1>1, <3>1, Zenon DEF ObjectI
    <3> QED
      BY <1>7, <2>1, <3>2
  <2> QED
    BY <2>2, <2>3, Zenon
<1> HIDE DEF r
<1>9. Others(o) /\ obj'[o] = r
  BY <1>1, <1>6, ObjectBecomes, Zenon
<1>10. \/ h = 0 /\ UNCHANGED hash
       \/ h = 1 /\ Unhashes(o)
  <2>1. CASE hash[k] = o
    <3>1. OnlyKey(k, NoObj)
      BY <1>4, <1>5, <2>1, Zenon DEF OnlyKey, Types
    <3> QED
      BY <1>4, <1>7, <2>1, <3>1, Zenon DEF Unhashes
  <2>2. CASE hash[k] # o
    <3>1. hash' = hash
      BY <1>5, <2>2, Zenon DEF Types
    <3> QED
      BY <1>7, <2>2, <3>1, Zenon
  <2> QED
    BY <2>1, <2>2, Zenon
<1>11. \/ n = 0 /\ (thr'[t].obj = thr[t].obj \/ Forsakes(t))
       \/ n = 1 /\ Leaves(t, o)
  BY <1>2, <1>3, <1>7, Zenon DEF Leaves, Forsakes, FetchFailed, o
<1>12. GivesUp(t, o, h, n)
  BY <1>3, <1>8, <1>9, <1>10, <1>11, Zenon DEF GivesUp, SameKey
<1>13. h = 1 <=> Hashed(o) = 1
  BY <1>1, <1>4, <1>7, HashedUnder, Zenon DEF Sound, k
<1>14. obj'[o] = IF obj[o].refs = h + n THEN Free
                 ELSE [obj[o] EXCEPT !.refs = obj[o].refs - (h + n)]
  BY <1>9, Zenon DEF r
<1>15. \E a, b \in {0, 1} :
          /\ GivesUp(t, o, a, b)
          /\ b = 1 <=> thr[t].new
          /\ a = 1 <=> Hashed(o) = 1
          /\ obj'[o] = IF obj[o].refs = a + b THEN Free
                       ELSE [obj[o] EXCEPT !.refs = obj[o].refs - (a + b)]
  BY <1>7, <1>12, <1>13, <1>14, Zenon
<1> QED
  BY <1>1, <1>3, <1>15, Zenon DEF o

(* Whatever a thread does, but arc_clear. *)
LEMMA StepEvent ==
    ASSUME Types, Sound, Seeking, Next, \A t \in Threads : ~ Clear(t)
    PROVE  Event
<1>0. Intact
  BY Zenon DEF Next
<1>1. ASSUME NEW t \in Threads,
             \/ Check(t) \/ FetchFits(t) \/ StartBalance(t) \/ ResidentDone(t)
             \/ BalanceDone(t) \/ Drop(t) \/ MoveToHead(t)
      PROVE  Event
  BY <1>1, QuietEvent, Zenon DEF Event
<1>2. ASSUME NEW t \in Threads,
             \/ MoveBetween(t) \/ StartFetch(t) \/ Fetched(t) \/ UpdateSize(t)
             \/ EvictMru(t) \/ EvictMfu(t)
      PROVE  Event
  BY <1>2, FieldEvent, Zenon DEF Event
<1>3. ASSUME NEW t \in Threads, MoveOut(t)
      PROVE  Event
  <2>1. thr[t].obj \in Objs
    BY <1>3, HasObject, Zenon DEF MoveOut, Unheld
  <2> QED
    BY <1>3, <2>1, MoveOutEvent, Zenon DEF Event
<1>4. ASSUME NEW t \in Threads, FetchedUncached(t)
      PROVE  Event
  <2>1. thr[t].obj \in Objs
    BY <1>4, HasObject, Zenon DEF FetchedUncached, Unheld
  <2> QED
    BY <1>4, <2>1, UncachedEvent, Zenon DEF Event
<1>5. ASSUME NEW t \in Threads, ForgetMfu(t) \/ ForgetMru(t)
      PROVE  Event
  <2>1. PICK l \in Lists : Forget(t, l)
    BY <1>5, Zenon DEF ForgetMfu, ForgetMru, Lists
  <2> QED
    BY <1>0, <2>1, ForgetEvent, Zenon DEF Event
<1>6. ASSUME NEW t \in Threads, FetchFailed(t)
      PROVE  Event
  <2>1. thr[t].obj \in Objs /\ \E h, n \in {0, 1} : GivesUp(t, thr[t].obj, h, n)
    BY <1>6, FailedEvent, Zenon
  <2> QED
    BY <2>1, Zenon DEF Event
<1>7. ASSUME NEW t \in Threads, Release(t)
      PROVE  Event
  BY <1>7, ReleaseEvent, Zenon DEF Event
<1>8. ASSUME NEW t \in Threads, Insert(t)
      PROVE  Event
  BY <1>8, InsertEvent, Zenon DEF Event
<1>9. ASSUME NEW t \in Threads, NEW k \in Keys, Lookup(t, k) \/ Remove(t, k) \/ Load(t, k)
      PROVE  Event
  <2>1. CASE Lookup(t, k) \/ Remove(t, k)
    <3>1. Silent \/ (hash[k] \in Objs /\ Retains(t, hash[k]))
      BY <2>1, LookupEvent, RemoveEvent, Zenon
    <3> QED
      BY <3>1, Zenon DEF Event
  <2>2. CASE Load(t, k)
    BY <2>2, LoadEvent, Zenon DEF Event
  <2> QED
    BY <1>9, <2>1, <2>2, Zenon
<1>10. ASSUME SetSize
       PROVE  Event
  BY <1>10, Zenon DEF Event, Silent, SetSize, SameHolders, SameKey
<1> QED
  BY <1>1, <1>2, <1>3, <1>4, <1>5, <1>6, <1>7, <1>8, <1>9, <1>10, StepKinds, Zenon
     DEF Passive

LEMMA EventKeys ==
    ASSUME Types, Sound, Event
    PROVE  Named' /\ Used'
  BY SilentKeys, RetainsKeys, CreatesKeys, GivesUpKeys, Zenon DEF Event

LEMMA SeekingBecomes ==
    ASSUME Types, Seeking, NEW t \in Threads, NEW r, thr' = [thr EXCEPT ![t] = r],
           r.pc \in Unheld => r.obj = NoObj, r.pc \in {"lookup", "create"} => r.key \in Keys
    PROVE  Seeking'
<1>1. thr'[t] = r /\ \A u \in Threads \ {t} : thr'[u] = thr[u]
  BY Zenon DEF Types
<1> QED
  BY <1>1, Zenon DEF Seeking

(* A thread that has nothing has nothing to give back. *)
LEMMA SeekingStep ==
    ASSUME Types, Seeking, Next
    PROVE  Seeking'
<1>1. ASSUME NEW t \in Threads, NEW pc, Goto(t, pc), pc \notin Unheld
      PROVE  Seeking'
  <2> DEFINE r == [thr[t] EXCEPT !.pc = pc]
  <2>1. thr' = [thr EXCEPT ![t] = r] /\ r.pc = pc
    BY <1>1, Zenon DEF Goto, Types, Thread
  <2> HIDE DEF r
  <2> QED
    BY <1>1, <2>1, SeekingBecomes, Zenon DEF Unheld
<1>2. ASSUME UNCHANGED thr
      PROVE  Seeking'
  BY <1>2, Zenon DEF Seeking
<1>3. ASSUME NEW t \in Threads, Insert(t)
      PROVE  Seeking'
  <2>1. CASE hash[thr[t].key] # NoObj
    <3> DEFINE r == [thr[t] EXCEPT !.pc = "lookup"]
    <3>1. thr' = [thr EXCEPT ![t] = r] /\ r.obj = thr[t].obj /\ r.key = thr[t].key
      BY <1>3, <2>1, Zenon DEF Insert, Goto, Types, Thread
    <3>2. thr[t].obj = NoObj /\ thr[t].key \in Keys
      BY <1>3, Zenon DEF Insert, Seeking, Unheld
    <3> HIDE DEF r
    <3> QED
      BY <3>1, <3>2, SeekingBecomes, Zenon
  <2>2. CASE hash[thr[t].key] = NoObj
    <3>1. PICK o \in Objs : thr' = [thr EXCEPT ![t].pc = "move", ![t].obj = o,
                                               ![t].to = "mru", ![t].new = TRUE]
      BY <1>3, <2>2, Zenon DEF Insert
    <3> DEFINE r == [thr[t] EXCEPT !.pc = "move", !.obj = o, !.to = "mru", !.new = TRUE]
    <3>2. thr' = [thr EXCEPT ![t] = r] /\ r.pc = "move"
      BY <3>1, Zenon DEF Types, Thread
    <3>3. r.pc \notin Unheld
      BY <3>2, Zenon DEF Unheld
    <3> HIDE DEF r
    <3> QED
      BY <3>2, <3>3, SeekingBecomes, Zenon DEF Unheld
  <2> QED
    BY <2>1, <2>2, Zenon
<1>4. ASSUME NEW t \in Threads, Release(t) \/ FetchFailed(t)
      PROVE  Seeking'
  <2>1. thr' = [thr EXCEPT ![t] = Idle] /\ Idle.obj = NoObj /\ Idle.pc = "idle"
    BY <1>4, Zenon DEF Release, FetchFailed, Idle
  <2>2. Idle.pc \notin {"lookup", "create"}
    BY <2>1, Zenon
  <2> QED
    BY <2>1, <2>2, SeekingBecomes, Zenon
<1>5. ASSUME NEW t \in Threads, NEW k \in Keys, Lookup(t, k) \/ Remove(t, k)
      PROVE  Seeking'
  <2>1. PICK r : /\ thr' = [thr EXCEPT ![t] = r]
                 /\ \/ r.pc = "create" /\ r.obj = NoObj /\ r.key = k
                    \/ r.pc = "check"
    <3> DEFINE a == [Idle EXCEPT !.pc = "create", !.key = k]
               b == [Idle EXCEPT !.pc = "check", !.key = k, !.obj = hash[k], !.to = "mfu"]
               d == [Idle EXCEPT !.pc = "check", !.key = k, !.obj = hash[k]]
    <3>1. /\ a.pc = "create" /\ a.obj = NoObj /\ a.key = k
          /\ b.pc = "check" /\ d.pc = "check"
      BY Zenon DEF Idle
    <3>2. \/ thr' = [thr EXCEPT ![t] = a]
          \/ thr' = [thr EXCEPT ![t] = b]
          \/ thr' = [thr EXCEPT ![t] = d]
      BY <1>5, Zenon DEF Lookup, Remove
    <3> HIDE DEF a, b, d
    <3> QED
      BY <3>1, <3>2, Zenon
  <2>2. /\ r.pc \in Unheld => r.obj = NoObj
        /\ r.pc \in {"lookup", "create"} => r.key \in Keys
    BY <2>1, Zenon DEF Unheld
  <2> QED
    BY <2>1, <2>2, SeekingBecomes, Zenon
<1>6. ASSUME NEW t \in Threads, Drop(t) \/ FetchFits(t) \/ Fetched(t)
      PROVE  Seeking'
  <2>1. PICK r : thr' = [thr EXCEPT ![t] = r] /\ r.pc \in {"check", "link", "balance"}
    <3>1. CASE Drop(t)
      <4> DEFINE r == [thr[t] EXCEPT !.pc = "check", !.to = "none"]
      <4>1. thr' = [thr EXCEPT ![t] = r] /\ r.pc = "check"
        BY <3>1, Zenon DEF Drop, Types, Thread
      <4> QED
        BY <4>1, Zenon
    <3>2. CASE FetchFits(t)
      <4>1. PICK s \in DataSizes : thr' = [thr EXCEPT ![t].pc = "link", ![t].size = BaseSize + s]
        BY <3>2, Zenon DEF FetchFits
      <4> DEFINE r == [thr[t] EXCEPT !.pc = "link", !.size = BaseSize + s]
      <4>2. thr' = [thr EXCEPT ![t] = r] /\ r.pc = "link"
        BY <4>1, Zenon DEF Types, Thread
      <4> QED
        BY <4>2, Zenon
    <3>3. CASE Fetched(t)
      <4> DEFINE r == [thr[t] EXCEPT !.pc = "balance", !.size = 0]
      <4>1. thr' = [thr EXCEPT ![t] = r] /\ r.pc = "balance"
        BY <3>3, Zenon DEF Fetched, Types, Thread
      <4> QED
        BY <4>1, Zenon
    <3> QED
      BY <1>6, <3>1, <3>2, <3>3, Zenon
  <2>2. r.pc \notin Unheld /\ r.pc \notin {"lookup", "create"}
    BY <2>1, Zenon DEF Unheld
  <2> QED
    BY <2>1, <2>2, SeekingBecomes, Zenon
<1>7. ASSUME NEW t \in Threads,
             \/ Check(t) \/ StartBalance(t) \/ ResidentDone(t) \/ BalanceDone(t)
             \/ MoveToHead(t) \/ MoveOut(t) \/ MoveBetween(t) \/ StartFetch(t)
             \/ FetchedUncached(t)
      PROVE  Seeking'
  <2>1. PICK pc \in {"hold", "release", "balance", "move", "resident", "ghosts", "fetch"} :
           Goto(t, pc)
    BY <1>7, Zenon DEF Check, StartBalance, ResidentDone, BalanceDone, MoveToHead, MoveOut,
                MoveBetween, StartFetch, FetchedUncached
  <2>2. pc \notin Unheld
    BY Zenon DEF Unheld
  <2> QED
    BY <1>1, <2>1, <2>2, Zenon
<1>8. ASSUME NEW t \in Threads,
             \/ EvictMru(t) \/ EvictMfu(t) \/ ForgetMfu(t) \/ ForgetMru(t)
             \/ UpdateSize(t) \/ Clear(t) \/ \E k \in Keys : Load(t, k)
      PROVE  Seeking'
  BY <1>2, <1>8, Zenon DEF EvictMru, EvictMfu, ForgetMfu, ForgetMru, ToGhost, Forget,
                           UpdateSize, Clear, Load
<1>9. ASSUME SetSize
      PROVE  Seeking'
  BY <1>2, <1>9, Zenon DEF SetSize
<1> QED
  BY <1>3, <1>4, <1>5, <1>6, <1>7, <1>8, <1>9, StepKinds, Zenon DEF Passive

LEMMA InitKeys == Init => Named /\ Used /\ Seeking
  BY ArcNames DEF Init, Free, Idle, Named, Used, Seeking

-----------------------------------------------------------------------------
(* One thread at a time *)

Has(t, o) == IF thr[t].obj = o THEN 1 ELSE 0

(* The object has been made by this lookup and is being fetched. *)
Fresh(t, o) ==
    thr[t].obj = o /\ thr[t].to = "mru" /\ thr[t].pc \in {"move", "fetch", "link"}

Exact(t) == \A o \in Objs : obj[o].refs = Hashed(o) + Has(t, o)

PlacedObj(t, o) ==
    IF Fresh(t, o) THEN Hashed(o) = 1 /\ obj[o].state = "none"
    ELSE Hashed(o) = 1 <=> obj[o].state # "none"

Placed(t) == \A o \in Objs : PlacedObj(t, o)

Heading(t) ==
    /\ thr[t].pc \in {"fetch", "link"} => thr[t].to = "mru"
    /\ thr[t].pc \in {"move", "fetch", "link"} /\ thr[t].to = "mru" => thr[t].new
    /\ thr[t].pc = "check" => thr[t].to # "mru"
    /\ thr[t].pc \in {"check", "move"} /\ thr[t].to = "mfu" => obj[thr[t].obj].state # "none"

Lone(t) == Exact(t) /\ Placed(t) /\ Heading(t)

LEMMA HasBit ==
    ASSUME NEW t, NEW o
    PROVE  /\ Has(t, o) \in {0, 1} /\ (Has(t, o) = 1 <=> thr[t].obj = o)
           /\ Has(t, o)' \in {0, 1} /\ (Has(t, o)' = 1 <=> thr'[t].obj = o)
  BY DEF Has

LEMMA SilentHashed ==
    ASSUME UNCHANGED hash
    PROVE  \A x : Hashed(x)' = Hashed(x)
  BY Zenon DEF Hashed

LEMMA CreatesHashed ==
    ASSUME Types, Sound, NEW t \in Threads, NEW o \in Objs, NEW k \in Keys, Creates(t, o, k)
    PROVE  /\ Hashed(o) = 0 /\ Hashed(o)' = 1
           /\ \A x \in Objs \ {o} : Hashed(x)' = Hashed(x)
<1>1. \A j \in Keys : hash[j] # o
  BY UnusedFree, Zenon DEF Creates
<1>2. \A x \in Objs \ {o} : Hashed(x)' = Hashed(x)
  BY HashedElsewhere, Zenon DEF Creates
<1> QED
  BY <1>1, <1>2, Zenon DEF Hashed, Creates, OnlyKey

(* The references of all objects but o are as before. *)
LEMMA ExactOne ==
    ASSUME NEW t, Exact(t), NEW o \in Objs, Others(o),
           \A x \in Objs \ {o} : Hashed(x)' = Hashed(x) /\ (thr'[t].obj = x <=> thr[t].obj = x),
           obj'[o].refs = Hashed(o)' + Has(t, o)'
    PROVE  Exact(t)'
<1>1. ASSUME NEW x \in Objs \ {o}
      PROVE  obj'[x].refs = Hashed(x)' + Has(t, x)'
  <2>1. Has(t, x)' = Has(t, x)
    BY Zenon DEF Has
  <2>2. obj[x].refs = Hashed(x) + Has(t, x) /\ obj'[x] = obj[x] /\ Hashed(x)' = Hashed(x)
    BY Zenon DEF Exact, Others
  <2> QED
    BY <2>1, <2>2, Zenon
<1> QED
  BY <1>1, Zenon DEF Exact

(* With one thread every reference is accounted for. *)
LEMMA ExactStep ==
    ASSUME Types, Sound, NEW t \in Threads, Threads = {t}, Exact(t), Heading(t), Event
    PROVE  Exact(t)'
<1>0. \A o \in Objs : o # NoObj
  BY ArcNames, Zenon
<1>1. CASE Silent
  <2>1. ASSUME NEW x \in Objs
        PROVE  obj'[x].refs = Hashed(x)' + Has(t, x)'
    <3>1. Has(t, x)' = Has(t, x)
      BY <1>1, Zenon DEF Has, Silent, SameHolders
    <3>2. Hashed(x)' = Hashed(x)
      BY <1>1, SilentHashed, Zenon DEF Silent
    <3>3. obj[x].refs = Hashed(x) + Has(t, x) /\ obj'[x].refs = obj[x].refs
      BY <1>1, Zenon DEF Exact, Silent
    <3> QED
      BY <3>1, <3>2, <3>3, Zenon
  <2> QED
    BY <2>1, Zenon DEF Exact
<1>2. ASSUME NEW o \in Objs, Retains(t, o)
      PROVE  Exact(t)'
  <2>1. \A x \in Objs : Hashed(x)' = Hashed(x)
    BY <1>2, SilentHashed, Zenon DEF Retains
  <2>2. \A x \in Objs \ {o} : thr'[t].obj = x <=> thr[t].obj = x
    BY <1>0, <1>2, Zenon DEF Retains
  <2>3. Has(t, o) = 0 /\ Has(t, o)' = 1
    BY <1>0, <1>2, Zenon DEF Retains, Has
  <2>4. obj[o].refs = Hashed(o) + Has(t, o) /\ obj'[o].refs = obj[o].refs + 1 /\ Others(o)
    BY <1>2, Zenon DEF Exact, Retains
  <2>5. Hashed(o) \in {0, 1}
    BY Zenon DEF Hashed
  <2>6. obj'[o].refs = Hashed(o)' + Has(t, o)'
    BY <2>1, <2>3, <2>4, <2>5
  <2> QED
    BY <2>1, <2>2, <2>4, <2>6, ExactOne, Zenon
<1>3. ASSUME NEW o \in Objs, NEW k \in Keys, Creates(t, o, k)
      PROVE  Exact(t)'
  <2>1. Hashed(o) = 0 /\ Hashed(o)' = 1 /\ \A x \in Objs \ {o} : Hashed(x)' = Hashed(x)
    BY <1>3, CreatesHashed, Zenon
  <2>2. \A x \in Objs \ {o} : thr'[t].obj = x <=> thr[t].obj = x
    BY <1>0, <1>3, Zenon DEF Creates
  <2>3. obj[o].refs = Hashed(o) + Has(t, o) /\ obj[o].refs = 0 /\ Others(o)
    BY <1>3, Zenon DEF Exact, Creates
  <2>4. Has(t, o) = 0
    BY <2>1, <2>3, HasBit
  <2>5. \/ obj'[o].refs = 1 /\ Has(t, o)' = 0
        \/ obj'[o].refs = 2 /\ Has(t, o)' = 1
    BY <1>3, <2>4, Zenon DEF Creates, Has
  <2>6. obj'[o].refs = Hashed(o)' + Has(t, o)'
    BY <2>1, <2>5
  <2> QED
    BY <2>1, <2>2, <2>3, <2>6, ExactOne, Zenon
<1>4. ASSUME NEW o \in Objs, NEW h, NEW n, GivesUp(t, o, h, n)
      PROVE  Exact(t)'
  <2>1. /\ \/ h = 0 /\ Hashed(o)' = Hashed(o)
           \/ h = 1 /\ Hashed(o) = 1 /\ Hashed(o)' = 0
        /\ \A x \in Objs \ {o} : Hashed(x)' = Hashed(x)
        /\ Others(o)
    BY <1>4, GivesUpHashed, Zenon DEF GivesUp
  <2>2. ~ Forsakes(t)
    BY Zenon DEF Forsakes, Heading
  <2>3. \/ n = 0 /\ thr'[t].obj = thr[t].obj
        \/ n = 1 /\ thr[t].obj = o /\ thr'[t].obj = NoObj
    BY <1>4, <2>2, Zenon DEF GivesUp, Leaves
  <2>4. \A x \in Objs \ {o} : thr'[t].obj = x <=> thr[t].obj = x
    BY <1>0, <2>3, Zenon
  <2>5. \/ n = 0 /\ Has(t, o)' = Has(t, o)
        \/ n = 1 /\ Has(t, o) = 1 /\ Has(t, o)' = 0
    BY <1>0, <2>3, Zenon DEF Has
  <2>6. obj[o].refs = Hashed(o) + Has(t, o) /\ obj'[o].refs = obj[o].refs - h - n
    BY <1>4, Zenon DEF Exact, GivesUp
  <2>7. Hashed(o) \in {0, 1} /\ Has(t, o) \in {0, 1}
    BY HasBit, Zenon DEF Hashed
  <2>8. obj'[o].refs = Hashed(o)' + Has(t, o)'
    BY <2>1, <2>5, <2>6, <2>7
  <2> QED
    BY <2>1, <2>4, <2>8, ExactOne, Zenon
<1>5. \A u \in Threads : u = t
  BY Zenon
<1> QED
  BY <1>1, <1>2, <1>3, <1>4, <1>5, Zenon DEF Event

Making == {"move", "fetch", "link"}

LEMMA FreshWhen ==
    ASSUME NEW t
    PROVE  /\ thr[t].pc \notin Making => \A x : ~ Fresh(t, x)
           /\ thr'[t].pc \notin Making => \A x : ~ Fresh(t, x)'
           /\ thr[t].to # "mru" => \A x : ~ Fresh(t, x)
           /\ thr'[t].to # "mru" => \A x : ~ Fresh(t, x)'
           /\ \A x : x # thr[t].obj => ~ Fresh(t, x)
           /\ \A x : x # thr'[t].obj => ~ Fresh(t, x)'
  BY Zenon DEF Fresh, Making

LEMMA PlacedSame ==
    ASSUME NEW t, Placed(t),
           \A x \in Objs : /\ obj'[x].state = obj[x].state /\ Hashed(x)' = Hashed(x)
                           /\ Fresh(t, x)' <=> Fresh(t, x)
    PROVE  Placed(t)'
<1>1. ASSUME NEW x \in Objs PROVE PlacedObj(t, x)'
  <2>1. PlacedObj(t, x)
    BY Zenon DEF Placed
  <2> QED
    BY <2>1, Zenon DEF PlacedObj
<1> QED
  BY <1>1, Zenon DEF Placed

LEMMA PlacedOne ==
    ASSUME NEW t, Placed(t), NEW o \in Objs, Others(o), PlacedObj(t, o)',
           \A x \in Objs \ {o} : Hashed(x)' = Hashed(x) /\ ~ Fresh(t, x) /\ ~ Fresh(t, x)'
    PROVE  Placed(t)'
<1>1. ASSUME NEW x \in Objs \ {o} PROVE PlacedObj(t, x)'
  <2>1. PlacedObj(t, x) /\ obj'[x] = obj[x]
    BY Zenon DEF Placed, Others
  <2>2. Hashed(x)' = Hashed(x) /\ ~ Fresh(t, x) /\ ~ Fresh(t, x)'
    BY Zenon
  <2> QED
    BY <2>1, <2>2, Zenon DEF PlacedObj
<1> QED
  BY <1>1, Zenon DEF Placed

LEMMA GotoFacts ==
    ASSUME Types, NEW t \in Threads, NEW pc, Goto(t, pc)
    PROVE  /\ thr'[t].pc = pc /\ thr'[t].obj = thr[t].obj
           /\ thr'[t].to = thr[t].to /\ thr'[t].new = thr[t].new
<1> DEFINE r == [thr[t] EXCEPT !.pc = pc]
<1>1. thr' = [thr EXCEPT ![t] = r]
  BY Zenon DEF Goto
<1>2. /\ r.pc = pc /\ r.obj = thr[t].obj
      /\ r.to = thr[t].to /\ r.new = thr[t].new
  BY Zenon DEF Types, Thread
<1> HIDE DEF r
<1>3. thr'[t] = r
  BY <1>1, ThreadBecomes, Zenon
<1> QED
  BY <1>2, <1>3, Zenon

(* A thread that is not about to move or fetch anything heads nowhere. *)
LEMMA HeadingAfter ==
    ASSUME NEW t, thr'[t].pc \notin {"check", "move", "fetch", "link"}
    PROVE  Heading(t)' /\ \A x : ~ Fresh(t, x)'
  BY Zenon DEF Heading, Fresh

LEMMA IdleAfter ==
    ASSUME NEW t, thr'[t] = Idle
    PROVE  Heading(t)' /\ \A x : ~ Fresh(t, x)'
<1>1. thr'[t].pc = "idle"
  BY IdleType, Zenon
<1> QED
  BY <1>1, HeadingAfter, Zenon

(* The steps that write no object. *)
LEMMA CheckLone ==
    ASSUME Types, NEW t \in Threads, Placed(t), Heading(t), Check(t)
    PROVE  Placed(t)' /\ Heading(t)'
<1>1. PICK pc \in {"hold", "release", "balance", "move"} : Goto(t, pc)
  BY Zenon DEF Check
<1>2. /\ thr'[t].pc = pc /\ thr'[t].obj = thr[t].obj
      /\ thr'[t].to = thr[t].to /\ thr'[t].new = thr[t].new
  BY <1>1, GotoFacts, Zenon
<1>3. thr[t].pc = "check" /\ hash' = hash /\ obj' = obj
  BY Zenon DEF Check
<1>4. thr[t].to # "mru"
  BY <1>3, Zenon DEF Heading
<1>5. \A x : ~ Fresh(t, x) /\ ~ Fresh(t, x)'
  BY <1>2, <1>4, FreshWhen, Zenon
<1>6. Heading(t)'
  BY <1>2, <1>3, <1>4, Zenon DEF Heading
<1> QED
  BY <1>3, <1>5, <1>6, PlacedSame, SilentHashed, Zenon

LEMMA FetchFitsLone ==
    ASSUME Types, NEW t \in Threads, Placed(t), Heading(t), FetchFits(t)
    PROVE  Placed(t)' /\ Heading(t)'
<1>1. PICK s \in DataSizes : thr' = [thr EXCEPT ![t].pc = "link", ![t].size = BaseSize + s]
  BY Zenon DEF FetchFits
<1> DEFINE r == [thr[t] EXCEPT !.pc = "link", !.size = BaseSize + s]
<1>2. thr' = [thr EXCEPT ![t] = r]
  BY <1>1, Zenon DEF Types
<1>3. r.pc = "link" /\ r.obj = thr[t].obj /\ r.to = thr[t].to /\ r.new = thr[t].new
  BY Zenon DEF Types, Thread
<1> HIDE DEF r
<1>4. thr'[t] = r
  BY <1>2, ThreadBecomes, Zenon
<1>5. thr[t].pc = "fetch" /\ hash' = hash /\ obj' = obj
  BY Zenon DEF FetchFits
<1>6. \A x : Fresh(t, x)' <=> Fresh(t, x)
  BY <1>3, <1>4, <1>5, Zenon DEF Fresh
<1>7. Heading(t)'
  BY <1>3, <1>4, <1>5, Zenon DEF Heading
<1> QED
  BY <1>5, <1>6, <1>7, PlacedSame, SilentHashed, Zenon

LEMMA DropLone ==
    ASSUME Types, NEW t \in Threads, Placed(t), Heading(t), Drop(t)
    PROVE  Placed(t)' /\ Heading(t)'
<1> DEFINE r == [thr[t] EXCEPT !.pc = "check", !.to = "none"]
<1>1. thr' = [thr EXCEPT ![t] = r]
  BY Zenon DEF Drop, Types
<1>2. r.pc = "check" /\ r.to = "none"
  BY Zenon DEF Types, Thread
<1> HIDE DEF r
<1>3. thr'[t] = r
  BY <1>1, ThreadBecomes, Zenon
<1>4. thr[t].pc = "hold" /\ hash' = hash /\ obj' = obj
  BY Zenon DEF Drop
<1>5. thr[t].pc \notin Making /\ thr'[t].to # "mru"
  BY <1>2, <1>3, <1>4, Zenon DEF Making
<1>6. \A x : ~ Fresh(t, x) /\ ~ Fresh(t, x)'
  BY <1>5, FreshWhen, Zenon
<1>7. Heading(t)'
  BY <1>2, <1>3, Zenon DEF Heading
<1> QED
  BY <1>4, <1>6, <1>7, PlacedSame, SilentHashed, Zenon

LEMMA QuietLone ==
    ASSUME Types, NEW t \in Threads, Placed(t), Heading(t),
           StartBalance(t) \/ ResidentDone(t) \/ BalanceDone(t)
    PROVE  Placed(t)' /\ Heading(t)'
<1>1. PICK pc \in {"hold", "resident", "ghosts"} : Goto(t, pc)
  BY Zenon DEF StartBalance, ResidentDone, BalanceDone
<1>2. thr'[t].pc = pc
  BY <1>1, GotoFacts, Zenon
<1>3. /\ thr[t].pc \in {"balance", "resident", "ghosts"}
      /\ hash' = hash /\ obj' = obj
  BY Zenon DEF StartBalance, ResidentDone, BalanceDone
<1>4. thr[t].pc \notin Making /\ thr'[t].pc \notin {"check", "move", "fetch", "link"}
  BY <1>2, <1>3, Zenon DEF Making
<1>5. Heading(t)' /\ \A x : ~ Fresh(t, x) /\ ~ Fresh(t, x)'
  BY <1>4, FreshWhen, HeadingAfter, Zenon
<1> QED
  BY <1>3, <1>5, PlacedSame, SilentHashed, Zenon

LEMMA MoveToHeadLone ==
    ASSUME Types, NEW t \in Threads, Placed(t), Heading(t), MoveToHead(t)
    PROVE  Placed(t)' /\ Heading(t)'
<1>1. thr'[t].pc = "balance"
  BY GotoFacts, Zenon DEF MoveToHead
<1>2. thr'[t].pc \notin {"check", "move", "fetch", "link"}
  BY <1>1, Zenon
<1>3. thr[t].obj \in Objs /\ hash' = hash /\ obj' = obj
  BY HasObject, Zenon DEF MoveToHead, Unheld
<1>4. obj[thr[t].obj].state # "none" /\ PlacedObj(t, thr[t].obj)
  BY <1>3, Zenon DEF MoveToHead, Placed
<1>5. ~ Fresh(t, thr[t].obj)
  BY <1>4, Zenon DEF PlacedObj
<1>6. Heading(t)' /\ \A x : ~ Fresh(t, x) /\ ~ Fresh(t, x)'
  BY <1>2, <1>5, FreshWhen, HeadingAfter, Zenon
<1> QED
  BY <1>3, <1>6, PlacedSame, SilentHashed, Zenon

(* The steps that move an object between lists, or out of them. *)
LEMMA MoveOutLone ==
    ASSUME Types, Sound, NEW t \in Threads, Placed(t), MoveOut(t)
    PROVE  Placed(t)' /\ Heading(t)'
<1>1. PICK o : o = thr[t].obj
  BY Zenon
<1>2. /\ Silent \/ GivesUp(t, o, 1, 0)
      /\ o \in Objs /\ Hashed(o)' = 0
      /\ Others(o) /\ obj'[o].state = "none"
  BY <1>1, MoveOutEvent, Zenon
<1>3. \A x \in Objs \ {o} : Hashed(x)' = Hashed(x)
  BY <1>2, GivesUpHashed, SilentHashed, Zenon DEF Silent
<1>4. thr'[t].pc = "release"
  BY GotoFacts, Zenon DEF MoveOut
<1>5. thr'[t].pc \notin {"check", "move", "fetch", "link"} /\ thr[t].to # "mru"
  BY <1>4, Zenon DEF MoveOut
<1>6. Heading(t)' /\ \A x : ~ Fresh(t, x) /\ ~ Fresh(t, x)'
  BY <1>5, FreshWhen, HeadingAfter, Zenon
<1>7. PlacedObj(t, o)'
  BY <1>2, <1>6 DEF PlacedObj
<1> QED
  BY <1>2, <1>3, <1>6, <1>7, PlacedOne, Zenon

(* An object that goes from a list to a list, or out of the fetch into a list,
   stays in the table. *)
LEMMA ListedLone ==
    ASSUME Types, NEW t \in Threads, Placed(t), NEW o \in Objs, Hashed(o) = 1,
           NEW r, obj' = [obj EXCEPT ![o] = r], r.state # "none", UNCHANGED hash,
           \A x \in Objs \ {o} : ~ Fresh(t, x),
           thr'[t].pc \notin {"check", "move", "fetch", "link"}
    PROVE  Placed(t)' /\ Heading(t)'
<1>1. Others(o) /\ obj'[o] = r
  BY ObjectBecomes, Zenon
<1>2. \A x : Hashed(x)' = Hashed(x)
  BY SilentHashed, Zenon
<1>3. Heading(t)' /\ \A x : ~ Fresh(t, x)'
  BY HeadingAfter, Zenon
<1>4. Hashed(o)' = 1
  BY <1>2, Zenon
<1>5. PlacedObj(t, o)'
  BY <1>1, <1>3, <1>4, Zenon DEF PlacedObj
<1> QED
  BY <1>1, <1>2, <1>3, <1>5, PlacedOne, Zenon

LEMMA MoveBetweenLone ==
    ASSUME Types, NEW t \in Threads, Placed(t), MoveBetween(t)
    PROVE  Placed(t)' /\ Heading(t)'
<1>1. PICK o : o = thr[t].obj
  BY Zenon
<1>2. o \in Objs /\ obj[o] \in ObjectI /\ obj \in [Objs -> ObjectI]
  BY <1>1, HasObject, Zenon DEF MoveBetween, Unheld, Types
<1> DEFINE r == [obj[o] EXCEPT !.state = thr[t].to]
<1>3. obj' = [obj EXCEPT ![o] = r] /\ UNCHANGED hash
  BY <1>1, <1>2, Zenon DEF MoveBetween
<1>4. r.state = thr[t].to /\ thr[t].to # "none" /\ obj[o].state # "none"
  BY <1>1, <1>2, Zenon DEF MoveBetween, ObjectI
<1> HIDE DEF r
<1>5. thr'[t].pc = "balance"
  BY GotoFacts, Zenon DEF MoveBetween
<1>6. thr'[t].pc \notin {"check", "move", "fetch", "link"}
  BY <1>5, Zenon
<1>7. PlacedObj(t, o)
  BY <1>2, Zenon DEF Placed
<1>8. Hashed(o) = 1
  BY <1>4, <1>7, Zenon DEF PlacedObj
<1>9. \A x \in Objs \ {o} : ~ Fresh(t, x)
  BY <1>1, FreshWhen, Zenon
<1> QED
  BY <1>2, <1>3, <1>4, <1>6, <1>8, <1>9, ListedLone, Zenon

LEMMA FetchedLone ==
    ASSUME Types, NEW t \in Threads, Placed(t), Heading(t), Fetched(t)
    PROVE  Placed(t)' /\ Heading(t)'
<1>1. PICK o : o = thr[t].obj
  BY Zenon
<1>2. o \in Objs /\ obj[o] \in ObjectI /\ obj \in [Objs -> ObjectI]
  BY <1>1, HasObject, Zenon DEF Fetched, Unheld, Types
<1> DEFINE r == [obj[o] EXCEPT !.size = thr[t].size, !.state = thr[t].to, !.locked = FALSE]
<1>3. obj' = [obj EXCEPT ![o] = r]
  BY <1>1, <1>2, Zenon DEF Fetched
<1>4. UNCHANGED hash /\ thr[t].pc = "link"
  BY Zenon DEF Fetched
<1>5. thr[t].to = "mru"
  BY <1>4, Zenon DEF Heading
<1>6. r.state = thr[t].to
  BY <1>2, Zenon DEF ObjectI
<1> HIDE DEF r
<1> DEFINE q == [thr[t] EXCEPT !.pc = "balance", !.size = 0]
<1>7. thr' = [thr EXCEPT ![t] = q]
  BY Zenon DEF Fetched, Types
<1>8. q.pc = "balance"
  BY Zenon DEF Types, Thread
<1> HIDE DEF q
<1>9. thr'[t] = q
  BY <1>7, ThreadBecomes, Zenon
<1>10. thr'[t].pc \notin {"check", "move", "fetch", "link"}
  BY <1>8, <1>9, Zenon
<1>11. Fresh(t, o)
  BY <1>1, <1>4, <1>5, Zenon DEF Fresh
<1>12. Hashed(o) = 1
  BY <1>2, <1>11, Zenon DEF Placed, PlacedObj
<1>13. \A x \in Objs \ {o} : ~ Fresh(t, x)
  BY <1>1, FreshWhen, Zenon
<1>14. r.state # "none"
  BY <1>5, <1>6, Zenon
<1> QED
  BY <1>2, <1>3, <1>4, <1>10, <1>12, <1>13, <1>14, ListedLone, Zenon

LEMMA EvictLone ==
    ASSUME Types, Intact, Agree, NEW t \in Threads, Placed(t), EvictMru(t) \/ EvictMfu(t)
    PROVE  Placed(t)' /\ Heading(t)'
<1>1. PICK l \in Lists, to \in Lists : ToGhost(t, l, to)
  BY Zenon DEF EvictMru, EvictMfu, Lists
<1>2. PICK o : o = lru(l)
  BY Zenon
<1>3. lists \in [Lists -> Seq(Objs)] /\ Len(lists[l]) > 0
  BY <1>1, Zenon DEF Types, ToGhost
<1>4. o \in Objs /\ In(lists[l], o)
  BY <1>2, <1>3, LruType, Zenon
<1>5. obj[o].state = l /\ obj[o] \in ObjectI /\ obj \in [Objs -> ObjectI]
  BY <1>4, Zenon DEF Agree, Types
<1> DEFINE r == [obj[o] EXCEPT !.state = to]
<1>6. obj' = [obj EXCEPT ![o] = r] /\ UNCHANGED hash
  BY <1>1, <1>2, <1>5, Zenon DEF ToGhost
<1>7. r.state = to
  BY <1>5, Zenon DEF ObjectI
<1> HIDE DEF r
<1>8. to # "none" /\ l # "none"
  BY NotAList, Zenon
<1>9. thr[t].pc = "resident" /\ thr' = thr
  BY <1>1, Zenon DEF ToGhost
<1>10. thr[t].pc \notin Making /\ thr'[t].pc \notin {"check", "move", "fetch", "link"}
  BY <1>9, Zenon DEF Making
<1>11. \A x : ~ Fresh(t, x)
  BY <1>10, FreshWhen, Zenon
<1>12. Hashed(o) = 1
  BY <1>4, <1>5, <1>8, <1>11, Zenon DEF Placed, PlacedObj
<1> QED
  BY <1>4, <1>6, <1>7, <1>8, <1>10, <1>11, <1>12, ListedLone, Zenon

LEMMA ForgetLone ==
    ASSUME Types, Sound, Intact, NEW t \in Threads, Placed(t), ForgetMfu(t) \/ ForgetMru(t)
    PROVE  Placed(t)' /\ Heading(t)'
<1>1. PICK l \in Lists : Forget(t, l)
  BY Zenon DEF ForgetMfu, ForgetMru, Lists
<1>2. PICK o : o = lru(l)
  BY Zenon
<1>3. /\ Silent \/ GivesUp(t, o, 1, 0)
      /\ o \in Objs /\ Hashed(o)' = 0
      /\ Others(o) /\ obj'[o].state = "none"
  BY <1>1, <1>2, ForgetEvent, Zenon
<1>4. \A x \in Objs \ {o} : Hashed(x)' = Hashed(x)
  BY <1>3, GivesUpHashed, SilentHashed, Zenon DEF Silent
<1>5. thr[t].pc = "ghosts" /\ thr' = thr
  BY <1>1, Zenon DEF Forget
<1>6. thr[t].pc \notin Making /\ thr'[t].pc \notin {"check", "move", "fetch", "link"}
  BY <1>5, Zenon DEF Making
<1>7. Heading(t)' /\ \A x : ~ Fresh(t, x) /\ ~ Fresh(t, x)'
  BY <1>6, FreshWhen, HeadingAfter, Zenon
<1>8. PlacedObj(t, o)'
  BY <1>3, <1>7 DEF PlacedObj
<1> QED
  BY <1>3, <1>4, <1>7, <1>8, PlacedOne, Zenon

(* The steps of a fetch. *)
LEMMA StartFetchLone ==
    ASSUME Types, NEW t \in Threads, Placed(t), Heading(t), StartFetch(t)
    PROVE  Placed(t)' /\ Heading(t)'
<1>1. PICK o : o = thr[t].obj
  BY Zenon
<1>2. o \in Objs /\ obj[o] \in ObjectI /\ obj \in [Objs -> ObjectI] /\ thr[t] \in Thread
  BY <1>1, HasObject, Zenon DEF StartFetch, Unheld, Types
<1> DEFINE r == [obj[o] EXCEPT !.locked = TRUE]
<1>3. obj' = [obj EXCEPT ![o] = r] /\ UNCHANGED hash
  BY <1>1, <1>2, Zenon DEF StartFetch
<1>4. r.state = obj[o].state
  BY <1>2, Zenon DEF ObjectI
<1> HIDE DEF r
<1>5. Others(o) /\ obj'[o] = r
  BY <1>2, <1>3, ObjectBecomes, Zenon
<1>6. /\ thr[t].pc = "move" /\ thr[t].to # "none" /\ obj[o].state = "none"
      /\ thr'[t].pc = "fetch" /\ thr'[t].obj = thr[t].obj
      /\ thr'[t].to = thr[t].to /\ thr'[t].new = thr[t].new
  BY <1>1, GotoFacts, Zenon DEF StartFetch
<1>7. thr[t].to \in {"mru", "mfu", "none"}
  BY <1>2, ThreadField, Zenon
<1>8. thr[t].to = "mru"
  BY <1>1, <1>6, <1>7, Zenon DEF Heading
<1>9. \A x : Fresh(t, x)' <=> Fresh(t, x)
  BY <1>6, <1>8, Zenon DEF Fresh
<1>10. Heading(t)'
  BY <1>6, <1>8, Zenon DEF Heading
<1>11. \A x \in Objs : obj'[x].state = obj[x].state
  BY <1>4, <1>5, Zenon DEF Others
<1> QED
  BY <1>3, <1>9, <1>10, <1>11, PlacedSame, SilentHashed, Zenon

LEMMA UncachedLone ==
    ASSUME Types, Sound, NEW t \in Threads, Placed(t), Heading(t), FetchedUncached(t)
    PROVE  Placed(t)' /\ Heading(t)'
<1>1. PICK o : o = thr[t].obj
  BY Zenon
<1>2. /\ Silent \/ GivesUp(t, o, 1, 0)
      /\ o \in Objs /\ Hashed(o)' = 0
      /\ Others(o) /\ obj'[o].state \in {"none", obj[o].state}
  BY <1>1, UncachedEvent, Zenon
<1>3. \A x \in Objs \ {o} : Hashed(x)' = Hashed(x)
  BY <1>2, GivesUpHashed, SilentHashed, Zenon DEF Silent
<1>4. thr[t].pc = "fetch" /\ thr'[t].pc = "balance"
  BY GotoFacts, Zenon DEF FetchedUncached
<1>5. Fresh(t, o)
  BY <1>1, <1>4, Zenon DEF Fresh, Heading
<1>6. obj[o].state = "none"
  BY <1>2, <1>5, Zenon DEF Placed, PlacedObj
<1>7. thr'[t].pc \notin {"check", "move", "fetch", "link"}
  BY <1>4, Zenon
<1>8. Heading(t)' /\ \A x : ~ Fresh(t, x)'
  BY <1>7, HeadingAfter, Zenon
<1>9. \A x \in Objs \ {o} : ~ Fresh(t, x)
  BY <1>1, FreshWhen, Zenon
<1>10. PlacedObj(t, o)'
  BY <1>2, <1>6, <1>8 DEF PlacedObj
<1> QED
  BY <1>2, <1>3, <1>8, <1>9, <1>10, PlacedOne, Zenon

(* The object of a fetch that failed is gone. *)
LEMMA FailedLone ==
    ASSUME Types, Sound, NEW t \in Threads, Exact(t), Placed(t), Heading(t), FetchFailed(t)
    PROVE  Placed(t)' /\ Heading(t)'
<1>1. PICK o : o = thr[t].obj
  BY Zenon
<1>2. o \in Objs /\ thr'[t] = Idle /\ thr[t].pc = "fetch"
  BY <1>1, FailedEvent, Zenon DEF FetchFailed
<1>3. PICK h \in {0, 1}, n \in {0, 1} :
         /\ GivesUp(t, o, h, n)
         /\ n = 1 <=> thr[t].new
         /\ h = 1 <=> Hashed(o) = 1
         /\ obj[o].refs = h + n => obj'[o] = Free
  BY <1>1, FailedEvent, ZenonT(60)
<1>4. Fresh(t, o) /\ thr[t].new
  BY <1>1, <1>2, Zenon DEF Fresh, Heading
<1>5. Hashed(o) = 1
  BY <1>2, <1>4, Zenon DEF Placed, PlacedObj
<1>6. Has(t, o) = 1 /\ obj[o].refs = Hashed(o) + Has(t, o)
  BY <1>1, <1>2, HasBit, Zenon DEF Exact
<1>7. h = 1 /\ n = 1 /\ obj[o].refs = 2
  BY <1>3, <1>4, <1>5, <1>6
<1>8. obj'[o] = Free
  BY <1>3, <1>7
<1>9. obj'[o].state = "none"
  BY <1>8 DEF Free
<1>10. Hashed(o)' = 0 /\ Others(o) /\ \A x \in Objs \ {o} : Hashed(x)' = Hashed(x)
  <2>1. Others(o)
    BY <1>3, Zenon DEF GivesUp
  <2>2. /\ \/ h = 0 /\ Hashed(o)' = Hashed(o)
           \/ h = 1 /\ Hashed(o) = 1 /\ Hashed(o)' = 0
        /\ \A x \in Objs \ {o} : Hashed(x)' = Hashed(x)
    BY <1>2, <1>3, GivesUpHashed, Zenon
  <2> QED
    BY <1>7, <2>1, <2>2
<1>11. Heading(t)' /\ \A x : ~ Fresh(t, x)'
  BY <1>2, IdleAfter, Zenon
<1>12. \A x \in Objs \ {o} : ~ Fresh(t, x)
  BY <1>1, FreshWhen, Zenon
<1>13. PlacedObj(t, o)'
  BY <1>9, <1>10, <1>11 DEF PlacedObj
<1> QED
  BY <1>2, <1>10, <1>11, <1>12, <1>13, PlacedOne, Zenon

LEMMA ReleaseLone ==
    ASSUME Types, NEW t \in Threads, Exact(t), Placed(t), Release(t)
    PROVE  Placed(t)' /\ Heading(t)'
<1>1. PICK o : o = thr[t].obj
  BY Zenon
<1>2. /\ o \in Objs /\ thr'[t] = Idle /\ UNCHANGED hash /\ Others(o)
      /\ obj'[o] = Released(obj[o])
  BY <1>1, ReleaseEvent, Zenon DEF GivesUp
<1>3. thr[t].pc \notin Making
  BY Zenon DEF Release, Making
<1>4. Heading(t)' /\ \A x : ~ Fresh(t, x) /\ ~ Fresh(t, x)'
  BY <1>2, <1>3, IdleAfter, FreshWhen, Zenon
<1>5. obj[o] \in ObjectI /\ PlacedObj(t, o)
  BY <1>2, Zenon DEF Types, Placed
<1>6. Has(t, o) = 1 /\ obj[o].refs = Hashed(o) + Has(t, o) /\ Hashed(o) \in {0, 1}
  BY <1>1, <1>2, HasBit, Zenon DEF Exact, Hashed
<1>7. CASE obj[o].refs = 1
  <2>1. Hashed(o) # 1
    BY <1>6, <1>7
  <2>2. obj[o].state = "none"
    BY <1>4, <1>5, <2>1, Zenon DEF PlacedObj
  <2>3. obj'[o].state = "none"
    BY <1>2, <1>7 DEF Released, Free
  <2> QED
    BY <1>2, <1>4, <2>2, <2>3, PlacedSame, SilentHashed, Zenon DEF Others
<1>8. CASE obj[o].refs # 1
  <2>1. obj'[o] = [obj[o] EXCEPT !.refs = obj[o].refs - 1]
    BY <1>2, <1>8, Zenon DEF Released
  <2>2. obj'[o].state = obj[o].state
    BY <1>5, <2>1, Zenon DEF ObjectI
  <2> QED
    BY <1>2, <1>4, <2>2, PlacedSame, SilentHashed, Zenon DEF Others
<1> QED
  BY <1>7, <1>8, Zenon

LEMMA UpdateSizeLone ==
    ASSUME Types, NEW t \in Threads, Placed(t), UpdateSize(t)
    PROVE  Placed(t)' /\ Heading(t)'
<1>1. PICK o : o = thr[t].obj
  BY Zenon
<1>2. /\ o \in Objs /\ obj[o] \in ObjectI /\ obj \in [Objs -> ObjectI]
      /\ thr[t].pc = "hold" /\ thr' = thr /\ UNCHANGED hash
  BY <1>1, HasObject, Zenon DEF UpdateSize, Unheld, Types
<1>3. thr[t].pc \notin Making /\ thr'[t].pc \notin {"check", "move", "fetch", "link"}
  BY <1>2, Zenon DEF Making
<1>4. Heading(t)' /\ \A x : ~ Fresh(t, x) /\ ~ Fresh(t, x)'
  BY <1>3, HeadingAfter, FreshWhen, Zenon
<1>5. CASE UNCHANGED obj
  BY <1>2, <1>4, <1>5, PlacedSame, SilentHashed, Zenon
<1>6. CASE ~ UNCHANGED obj
  <2>1. PICK s \in DataSizes : obj' = [obj EXCEPT ![o].size = BaseSize + s]
    BY <1>1, <1>6, Zenon DEF UpdateSize
  <2> DEFINE r == [obj[o] EXCEPT !.size = BaseSize + s]
  <2>2. obj' = [obj EXCEPT ![o] = r] /\ r.state = obj[o].state
    BY <1>2, <2>1, Zenon DEF ObjectI
  <2> HIDE DEF r
  <2>3. Others(o) /\ obj'[o] = r
    BY <1>2, <2>2, ObjectBecomes, Zenon
  <2> QED
    BY <1>2, <1>4, <2>2, <2>3, PlacedSame, SilentHashed, Zenon DEF Others
<1> QED
  BY <1>5, <1>6, Zenon

(* The steps of a lookup. *)
LEMMA FoundLone ==
    ASSUME Types, NEW t \in Threads, Placed(t), NEW k \in Keys, NEW o \in Objs, hash[k] = o,
           thr[t].pc \notin Making, Retains(t, o), obj'[o].state = obj[o].state,
           thr'[t].pc = "check", thr'[t].to \in {"mfu", "none"}
    PROVE  Placed(t)' /\ Heading(t)'
<1>1. thr'[t].pc \notin Making /\ thr'[t].obj = o /\ UNCHANGED hash /\ Others(o)
  BY Zenon DEF Making, Retains
<1>2. \A x : ~ Fresh(t, x) /\ ~ Fresh(t, x)'
  BY <1>1, FreshWhen, Zenon
<1>3. Hashed(o) = 1
  BY Zenon DEF Hashed
<1>4. obj'[o].state # "none"
  BY <1>2, <1>3, Zenon DEF Placed, PlacedObj
<1>5. Heading(t)'
  BY <1>1, <1>4, Zenon DEF Heading
<1> QED
  BY <1>1, <1>2, <1>5, PlacedSame, SilentHashed, Zenon DEF Others

LEMMA LookupLone ==
    ASSUME Types, Seeking, NEW t \in Threads, Placed(t), NEW k \in Keys,
           Lookup(t, k) \/ Remove(t, k)
    PROVE  Placed(t)' /\ Heading(t)'
<1>0. thr[t].pc \notin Making
  BY Zenon DEF Lookup, Remove, Making
<1>1. CASE /\ Silent /\ UNCHANGED obj
           /\ thr'[t] = [Idle EXCEPT !.pc = "create", !.key = k]
  <2>1. thr'[t].pc = "create"
    BY <1>1, Zenon DEF Idle
  <2>2. thr'[t].pc \notin {"check", "move", "fetch", "link"}
    BY <2>1, Zenon
  <2>3. Heading(t)' /\ \A x : ~ Fresh(t, x) /\ ~ Fresh(t, x)'
    BY <1>0, <2>2, HeadingAfter, FreshWhen, Zenon
  <2> QED
    BY <1>1, <2>3, PlacedSame, SilentHashed, Zenon DEF Silent
<1>2. CASE /\ hash[k] \in Objs /\ Retains(t, hash[k])
           /\ \/ thr'[t] = [Idle EXCEPT !.pc = "check", !.key = k, !.obj = hash[k], !.to = "mfu"]
              \/ thr'[t] = [Idle EXCEPT !.pc = "check", !.key = k, !.obj = hash[k]]
           /\ obj'[hash[k]].state = obj[hash[k]].state
  <2>1. thr'[t].pc = "check" /\ thr'[t].to \in {"mfu", "none"}
    BY <1>2, Zenon DEF Idle
  <2> QED
    BY <1>0, <1>2, <2>1, FoundLone, Zenon
<1> QED
  BY <1>1, <1>2, LookupEvent, RemoveEvent, Zenon

LEMMA InsertLone ==
    ASSUME Types, Sound, Seeking, NEW t \in Threads, Placed(t), Insert(t)
    PROVE  Placed(t)' /\ Heading(t)'
<1>0. thr[t].pc \notin Making
  BY Zenon DEF Insert, Making
<1>1. CASE Silent /\ Goto(t, "lookup") /\ UNCHANGED obj
  <2>1. thr'[t].pc = "lookup"
    BY <1>1, GotoFacts, Zenon
  <2>2. thr'[t].pc \notin {"check", "move", "fetch", "link"}
    BY <2>1, Zenon
  <2>3. Heading(t)' /\ \A x : ~ Fresh(t, x) /\ ~ Fresh(t, x)'
    BY <1>0, <2>2, HeadingAfter, FreshWhen, Zenon
  <2> QED
    BY <1>1, <2>3, PlacedSame, SilentHashed, Zenon DEF Silent
<1>2. ASSUME NEW o \in Objs, Creates(t, o, thr[t].key), thr[t].key \in Keys,
             thr'[t] = [thr[t] EXCEPT !.pc = "move", !.obj = o, !.to = "mru", !.new = TRUE],
             obj'[o].state = "none"
      PROVE  Placed(t)' /\ Heading(t)'
  <2>1. thr[t] \in Thread
    BY Zenon DEF Types
  <2>2. thr'[t].pc = "move" /\ thr'[t].obj = o /\ thr'[t].to = "mru" /\ thr'[t].new
    BY <1>2, <2>1, Zenon DEF Thread
  <2>3. Fresh(t, o)' /\ Heading(t)'
    BY <2>2, Zenon DEF Fresh, Heading
  <2>4. PICK k \in Keys : Creates(t, o, k)
    BY <1>2, Zenon
  <2>5. Hashed(o)' = 1 /\ \A x \in Objs \ {o} : Hashed(x)' = Hashed(x)
    BY <2>4, CreatesHashed, Zenon
  <2>6. PlacedObj(t, o)'
    BY <1>2, <2>3, <2>5, Zenon DEF PlacedObj
  <2>7. \A x \in Objs \ {o} : ~ Fresh(t, x) /\ ~ Fresh(t, x)'
    BY <1>0, <2>2, FreshWhen, Zenon
  <2>8. Others(o)
    BY <2>4, Zenon DEF Creates
  <2> QED
    BY <2>3, <2>5, <2>6, <2>7, <2>8, PlacedOne, Zenon
<1> QED
  BY <1>1, <1>2, InsertEvent, Zenon

(* arc_clear, called when nothing is under way, frees what there is. *)
LEMMA ClearLone ==
    ASSUME Types, Sound, Seeking, Intact, Agree, NEW t \in Threads, Threads = {t},
           Exact(t), Placed(t), Clear(t)
    PROVE  Named' /\ Used' /\ Exact(t)' /\ Placed(t)' /\ Heading(t)'
<1>1. /\ thr[t].pc = "idle" /\ thr' = thr /\ thr[t].obj = NoObj
      /\ \A k \in Keys : hash'[k] = NoObj
      /\ \A o \in Objs : obj'[o] = IF IsListed(o) THEN Released(obj[o]) ELSE obj[o]
  BY Zenon DEF Clear, Seeking, Unheld
<1>2. thr[t].pc \notin Making /\ thr'[t].pc \notin {"check", "move", "fetch", "link"}
  BY <1>1, Zenon DEF Making
<1>3. Heading(t)' /\ \A x : ~ Fresh(t, x) /\ ~ Fresh(t, x)'
  BY <1>2, HeadingAfter, FreshWhen, Zenon
<1>4. \A o \in Objs : Hashed(o)' = 0 /\ Has(t, o) = 0 /\ Has(t, o)' = 0
  BY <1>1, ArcNames, Zenon DEF Hashed, Has
<1>5. ASSUME NEW o \in Objs
      PROVE  obj'[o].refs = 0 /\ obj'[o].state = "none"
  <2>1. Hashed(o) \in {0, 1} /\ (Hashed(o) = 1 <=> obj[o].state # "none")
    BY <1>3, Zenon DEF Hashed, Placed, PlacedObj
  <2>2. obj[o].refs = Hashed(o)
    BY <1>4, <2>1 DEF Exact
  <2>3. obj[o].state \in Lists \cup {"none"}
    BY ObjectField, Zenon DEF Types
  <2>4. IsListed(o) <=> obj[o].state # "none"
    BY <2>3, ListedIn, NotAList, Zenon DEF Agree
  <2>5. CASE IsListed(o)
    <3>1. obj[o].refs = 1 /\ obj'[o] = Released(obj[o])
      BY <1>1, <2>1, <2>2, <2>4, <2>5, Zenon
    <3> QED
      BY <3>1 DEF Released, Free
  <2>6. CASE ~ IsListed(o)
    <3>1. obj'[o] = obj[o] /\ Hashed(o) # 1 /\ obj[o].state = "none"
      BY <1>1, <2>1, <2>4, <2>6, Zenon
    <3> QED
      BY <2>1, <2>2, <3>1, Zenon
  <2> QED
    BY <2>5, <2>6, Zenon
<1>6. Exact(t)'
  BY <1>4, <1>5 DEF Exact
<1>7. Placed(t)'
  <2>1. ASSUME NEW o \in Objs PROVE PlacedObj(t, o)'
    BY <1>3, <1>4, <1>5 DEF PlacedObj
  <2> QED
    BY <2>1, Zenon DEF Placed
<1>8. Named' /\ Used'
  BY <1>1, <1>5 DEF Named, Used
<1> QED
  BY <1>3, <1>6, <1>7, <1>8, Zenon

LEMMA StillLone ==
    ASSUME NEW t, Lone(t), UNCHANGED <<hash, obj, thr>>
    PROVE  Lone(t)'
<1>1. hash' = hash /\ obj' = obj /\ thr' = thr
  BY Zenon
<1>2. \A o : Hashed(o)' = Hashed(o) /\ Has(t, o)' = Has(t, o) /\ (Fresh(t, o)' <=> Fresh(t, o))
  BY <1>1, Zenon DEF Hashed, Has, Fresh
<1>3. Exact(t)'
  BY <1>1, <1>2, Zenon DEF Lone, Exact
<1>4. Placed(t)'
  BY <1>1, <1>2, PlacedSame, Zenon DEF Lone
<1>5. Heading(t)'
  BY <1>1, Zenon DEF Lone, Heading
<1> QED
  BY <1>3, <1>4, <1>5, Zenon DEF Lone

LEMMA LoneStep ==
    ASSUME NEW t \in Threads, Threads = {t}, "load" \notin Ops,
           Types, Linked, Sound, Seeking, Lone(t), Next
    PROVE  Named' /\ Used' /\ Lone(t)'
<1>0. Intact /\ Agree /\ Exact(t) /\ Placed(t) /\ Heading(t)
  BY AgreeIsState, Zenon DEF Next, Linked, Lone
<1>1. CASE SetSize
  <2>1. UNCHANGED <<hash, obj, thr>>
    BY <1>1, Zenon DEF SetSize
  <2>2. Silent
    BY <2>1, Zenon DEF Silent, SameHolders, SameKey
  <2> QED
    BY <2>1, <2>2, StillLone, SilentKeys, Zenon
<1>2. CASE Clear(t)
  BY <1>0, <1>2, ClearLone, Zenon DEF Lone
<1>3. CASE ~ Clear(t) /\ ~ SetSize
  <2>1. \A u \in Threads : u = t
    BY Zenon
  <2>2. Event
    BY <1>3, <2>1, StepEvent, Zenon
  <2>3. Named' /\ Used' /\ Exact(t)'
    BY <1>0, <2>2, EventKeys, ExactStep, Zenon
  <2>4. \A k \in Keys : ~ Load(t, k)
    BY Zenon DEF Load
  <2>5. \/ Passive(t) \/ MoveToHead(t) \/ MoveOut(t) \/ MoveBetween(t) \/ Fetched(t)
        \/ EvictMru(t) \/ EvictMfu(t) \/ ForgetMfu(t) \/ ForgetMru(t)
        \/ BalanceDone(t) \/ UpdateSize(t)
    BY <1>3, <2>1, StepKinds, Zenon
  <2>6. CASE MoveToHead(t) \/ MoveOut(t) \/ MoveBetween(t) \/ Fetched(t) \/ EvictMru(t)
             \/ EvictMfu(t) \/ ForgetMfu(t) \/ ForgetMru(t) \/ BalanceDone(t) \/ UpdateSize(t)
    BY <1>0, <2>6, MoveToHeadLone, MoveOutLone, MoveBetweenLone, FetchedLone, EvictLone,
       ForgetLone, QuietLone, UpdateSizeLone, <2>3, Zenon DEF Lone
  <2>7. CASE Insert(t) \/ Check(t) \/ StartFetch(t) \/ FetchFits(t) \/ FetchedUncached(t)
             \/ FetchFailed(t)
    BY <1>0, <2>3, <2>7, InsertLone, CheckLone, StartFetchLone, FetchFitsLone, UncachedLone,
       FailedLone, Zenon DEF Lone
  <2>8. CASE StartBalance(t) \/ ResidentDone(t) \/ Release(t) \/ Drop(t)
             \/ \E k \in Keys : Lookup(t, k) \/ Remove(t, k)
    BY <1>0, <2>3, <2>8, QuietLone, ReleaseLone, DropLone, LookupLone, Zenon DEF Lone
  <2> QED
    BY <1>3, <2>4, <2>5, <2>6, <2>7, <2>8, Zenon DEF Passive
<1> QED
  BY <1>1, <1>2, <1>3, Zenon

LEMMA InitLone ==
    ASSUME NEW t \in Threads, Init
    PROVE  Lone(t)
<1>1. /\ \A k \in Keys : hash[k] = NoObj
      /\ \A o \in Objs : obj[o].refs = 0 /\ obj[o].state = "none"
      /\ thr[t].pc = "idle" /\ thr[t].obj = NoObj
  BY Zenon DEF Init, Free, Idle
<1>2. \A o \in Objs : Hashed(o) = 0 /\ Has(t, o) = 0 /\ ~ Fresh(t, o)
  BY <1>1, ArcNames, Zenon DEF Hashed, Has, Fresh
<1>3. Exact(t) /\ Heading(t)
  BY <1>1, <1>2 DEF Exact, Heading
<1>4. Placed(t)
  BY <1>1, <1>2 DEF Placed, PlacedObj
<1> QED
  BY <1>3, <1>4, Zenon DEF Lone

(* With one thread the references it and the table have are all there are. *)
LEMMA ExactSound ==
    ASSUME NEW t \in Threads, Threads = {t}, Named, Used, Exact(t)
    PROVE  Sound
<1>1. ASSUME NEW o \in Objs
      PROVE  /\ obj[o].refs >= Hashed(o)
             /\ \A u \in Threads : thr[u].obj = o => obj[o].refs > Hashed(o)
  <2>1. Hashed(o) \in {0, 1} /\ Has(t, o) \in {0, 1} /\ (thr[t].obj = o => Has(t, o) = 1)
    BY Zenon DEF Hashed, Has
  <2>2. obj[o].refs = Hashed(o) + Has(t, o)
    BY Zenon DEF Exact
  <2> QED
    BY <2>1, <2>2
<1> QED
  BY <1>1, Zenon DEF Sound, Covered

LoneInv(t) == Types /\ Linked /\ Named /\ Used /\ Seeking /\ Lone(t)

LEMMA LoneInvariant ==
    ASSUME NEW t \in Threads, Threads = {t}, "load" \notin Ops
    PROVE  Spec => []LoneInv(t)
<1>1. Init => LoneInv(t)
  BY InitTypes, InitLinked, InitKeys, InitLone, Zenon DEF LoneInv
<1>2. LoneInv(t) /\ [Next]_vars => LoneInv(t)'
  <2> SUFFICES ASSUME LoneInv(t), [Next]_vars PROVE LoneInv(t)'
    BY Zenon
  <2>1. Types' /\ Linked'
    BY TypesStep, LinkedStep, Zenon DEF LoneInv
  <2>2. Sound
    BY ExactSound, Zenon DEF LoneInv, Lone
  <2>3. CASE Next
    BY <2>1, <2>2, <2>3, LoneStep, SeekingStep, Zenon DEF LoneInv
  <2>4. CASE UNCHANGED vars
    <3>1. hash' = hash /\ obj' = obj /\ thr' = thr
      BY <2>4, Zenon DEF vars
    <3>2. Silent
      BY <3>1, Zenon DEF Silent, SameHolders, SameKey
    <3>3. Named' /\ Used'
      BY <2>2, <3>2, SilentKeys, Zenon DEF LoneInv
    <3>4. Lone(t)' /\ Seeking'
      BY <3>1, StillLone, Zenon DEF LoneInv, Seeking
    <3> QED
      BY <2>1, <3>3, <3>4, Zenon DEF LoneInv
  <2> QED
    BY <2>3, <2>4, Zenon
<1> QED
  BY <1>1, <1>2, PTL DEF Spec

(* With one thread, and nothing put in by arc_load, whenever the thread is done
   with the cache the only reference left on an object is the hash table's. *)
THEOREM NothingLeaks ==
    ASSUME NEW t \in Threads, Threads = {t}, "load" \notin Ops
    PROVE  Spec => []NoLeak
<1>1. LoneInv(t) => NoLeak
  <2> SUFFICES ASSUME LoneInv(t), Settled, NEW o \in Objs PROVE obj[o].refs = Hashed(o)
    BY Zenon DEF NoLeak
  <2>1. thr[t].obj = NoObj
    BY Zenon DEF LoneInv, Seeking, Settled, Unheld
  <2>2. Has(t, o) = 0
    BY <2>1, ArcNames, Zenon DEF Has
  <2>3. obj[o].refs = Hashed(o) + Has(t, o) /\ Hashed(o) \in {0, 1}
    BY Zenon DEF LoneInv, Lone, Exact, Hashed
  <2> QED
    BY <2>2, <2>3
<1> QED
  BY <1>1, LoneInvariant, PTL

(* And what the hash table has is in a list, and the other way round. *)
THEOREM HashedAreListed ==
    ASSUME NEW t \in Threads, Threads = {t}, "load" \notin Ops
    PROVE  Spec => []HashedIsListed
<1>1. LoneInv(t) => HashedIsListed
  <2> SUFFICES ASSUME LoneInv(t), Settled, NEW o \in Objs
               PROVE  Hashed(o) = 1 <=> obj[o].state # "none"
    BY Zenon DEF HashedIsListed
  <2>1. ~ Fresh(t, o)
    BY Zenon DEF Fresh, Settled
  <2> QED
    BY <2>1, Zenon DEF LoneInv, Lone, Placed, PlacedObj
<1> QED
  BY <1>1, LoneInvariant, PTL

-----------------------------------------------------------------------------
(* Many threads: the holders of an object are counted *)

Counted == Named /\ Used /\ NotFreedEarly

Holds(o) == Cardinality(Holders(o))

(* The definitions of Cardinality and IsFiniteSet, under names of their own: the
   library of theorems instantiates FiniteSets once more. *)
Sized(S) == LET CS[T \in SUBSET S] == IF T = {} THEN 0 ELSE 1 + CS[T \ {CHOOSE x : x \in T}]
            IN  CS[S]
Listed(S) == \E q \in Seq(S) : \A s \in S : \E n \in 1 .. Len(q) : q[n] = s

LEMMA CardinalityHere == \A S : Cardinality(S) = Sized(S)
  BY Zenon DEF Cardinality, Sized

LEMMA ThreadsListed == Listed(Threads)
  BY ArcThreads, Zenon DEF IsFiniteSet, Listed

LOCAL INSTANCE FiniteSetTheorems

LEMMA CardinalityThere == \A S : Cardinality(S) = Sized(S)
  BY Zenon DEF Cardinality, Sized

LEMMA ThreadsFinite == IsFiniteSet(Threads)
  BY ThreadsListed, Zenon DEF IsFiniteSet, Listed

LEMMA SetCount ==
    ASSUME NEW A \in SUBSET Threads, NEW B \in SUBSET Threads, NEW t \in Threads,
           \A u \in Threads \ {t} : u \in A <=> u \in B
    PROVE  /\ Sized(A) \in Nat /\ Sized(B) \in Nat
           /\ t \in A => Sized(A) >= 1
           /\ (t \in A <=> t \in B) => Sized(B) = Sized(A)
           /\ t \notin A /\ t \in B => Sized(B) = Sized(A) + 1
           /\ t \in A /\ t \notin B => Sized(B) = Sized(A) - 1
<1>1. IsFiniteSet(A) /\ IsFiniteSet(B)
  BY ThreadsFinite, FS_Subset, Zenon
<1>2. Sized(A) \in Nat /\ Sized(B) \in Nat
  BY <1>1, FS_CardinalityType, CardinalityThere, Zenon
<1>3. ASSUME t \in A PROVE Sized(A) >= 1
  <2>1. Sized(A) # 0
    BY <1>1, <1>3, FS_EmptySet, CardinalityThere, Zenon
  <2> QED
    BY <1>2, <2>1
<1>4. ASSUME t \in A <=> t \in B PROVE B = A
  BY <1>4
<1>5. ASSUME t \notin A, t \in B PROVE Sized(B) = Sized(A) + 1
  <2>1. B = A \cup {t}
    BY <1>5, Zenon
  <2> QED
    BY <1>1, <1>5, <2>1, FS_AddElement, CardinalityThere, Zenon
<1>6. ASSUME t \in A, t \notin B PROVE Sized(B) = Sized(A) - 1
  <2>1. B = A \ {t}
    BY <1>6, Zenon
  <2> QED
    BY <1>1, <1>6, <2>1, FS_RemoveElement, CardinalityThere, Zenon
<1> QED
  BY <1>2, <1>3, <1>4, <1>5, <1>6, Zenon

(* When one thread takes or leaves an object, one holder more or less is
   counted for it, and as many as before for the others. *)
LEMMA HoldsCount ==
    ASSUME NEW t \in Threads, \A u \in Threads \ {t} : thr'[u].obj = thr[u].obj, NEW o
    PROVE  /\ Holds(o) \in Nat /\ Holds(o)' \in Nat
           /\ thr[t].obj = o => Holds(o) >= 1
           /\ (thr[t].obj = o <=> thr'[t].obj = o) => Holds(o)' = Holds(o)
           /\ thr[t].obj # o /\ thr'[t].obj = o => Holds(o)' = Holds(o) + 1
           /\ thr[t].obj = o /\ thr'[t].obj # o => Holds(o)' = Holds(o) - 1
<1> DEFINE A == Holders(o)
           B == Holders(o)'
<1>1. /\ A \in SUBSET Threads /\ B \in SUBSET Threads
      /\ \A u \in Threads \ {t} : u \in A <=> u \in B
      /\ t \in A <=> thr[t].obj = o
      /\ t \in B <=> thr'[t].obj = o
  BY Zenon DEF Holders
<1>2. Holds(o) = Sized(A) /\ Holds(o)' = Sized(B)
  BY CardinalityHere, Zenon DEF Holds
<1> HIDE DEF A, B
<1>3. /\ Sized(A) \in Nat /\ Sized(B) \in Nat
      /\ t \in A => Sized(A) >= 1
      /\ (t \in A <=> t \in B) => Sized(B) = Sized(A)
      /\ t \notin A /\ t \in B => Sized(B) = Sized(A) + 1
      /\ t \in A /\ t \notin B => Sized(B) = Sized(A) - 1
  BY <1>1, SetCount, Zenon
<1> QED
  BY <1>1, <1>2, <1>3, Zenon

LEMMA CountedSound ==
    ASSUME Types, Counted
    PROVE  Sound
<1>1. ASSUME NEW o \in Objs
      PROVE  obj[o].refs >= Hashed(o) /\ \A t \in Threads : thr[t].obj = o => obj[o].refs > Hashed(o)
  <2> DEFINE A == Holders(o)
  <2>1. A \in SUBSET Threads /\ \A t \in Threads : t \in A <=> thr[t].obj = o
    BY Zenon DEF Holders
  <2>2. obj[o].refs >= Hashed(o) + Sized(A) /\ Hashed(o) \in {0, 1} /\ obj[o].refs \in Int
    BY ObjectField, CardinalityHere, Zenon DEF Counted, NotFreedEarly, Hashed, Types
  <2> HIDE DEF A
  <2>3. IsFiniteSet(A)
    BY <2>1, ThreadsFinite, FS_Subset, Zenon
  <2>4. Sized(A) \in Nat
    BY <2>3, FS_CardinalityType, CardinalityThere, Zenon
  <2>5. ASSUME NEW t \in Threads, thr[t].obj = o
        PROVE  Sized(A) >= 1
    BY <2>1, <2>5, SetCount, Zenon
  <2>6. obj[o].refs >= Hashed(o)
    BY <2>2, <2>4
  <2>7. Sized(A) >= 1 => obj[o].refs > Hashed(o)
    BY <2>2, <2>4
  <2> QED
    BY <2>5, <2>6, <2>7, Zenon
<1> QED
  BY <1>1, Zenon DEF Sound, Counted, Covered

LEMMA SilentCounted ==
    ASSUME NotFreedEarly, Silent
    PROVE  NotFreedEarly'
<1>1. \A o \in Objs : Holders(o)' = Holders(o) /\ Hashed(o)' = Hashed(o)
  BY Zenon DEF Silent, SameHolders, Holders, Hashed
<1> QED
  BY <1>1, Zenon DEF NotFreedEarly, Silent

(* A step of thread t that leaves the other objects alone leaves them with
   references enough. *)
LEMMA OneCounted ==
    ASSUME Types, NotFreedEarly, NEW t \in Threads, NEW o \in Objs, Others(o), OnlyHolder(t),
           thr'[t].obj \in {thr[t].obj, o, NoObj},
           \A x \in Objs \ {o} : Hashed(x)' = Hashed(x),
           obj'[o].refs >= Hashed(o)' + Holds(o)'
    PROVE  NotFreedEarly'
<1>1. ASSUME NEW x \in Objs \ {o}
      PROVE  obj'[x].refs >= Hashed(x)' + Holds(x)'
  <2>1. thr'[t].obj = x => thr[t].obj = x
    BY ArcNames, Zenon
  <2>2. /\ Holds(x) \in Nat /\ Holds(x)' \in Nat
        /\ Holds(x)' = Holds(x) \/ Holds(x)' = Holds(x) - 1
    BY <2>1, HoldsCount, Zenon DEF OnlyHolder
  <2>3. obj[x].refs >= Hashed(x) + Holds(x) /\ obj'[x] = obj[x]
    BY Zenon DEF NotFreedEarly, Holds, Others
  <2>4. Hashed(x)' = Hashed(x) /\ Hashed(x) \in {0, 1} /\ obj[x].refs \in Int
    BY ObjectField, Zenon DEF Hashed, Types
  <2> QED
    BY <2>2, <2>3, <2>4
<1>2. \A x \in Objs : obj'[x].refs >= Hashed(x)' + Holds(x)'
  BY <1>1, Zenon
<1> QED
  BY <1>2, Zenon DEF NotFreedEarly, Holds

LEMMA RetainsCounted ==
    ASSUME Types, NotFreedEarly, NEW t \in Threads, NEW o \in Objs, Retains(t, o)
    PROVE  NotFreedEarly'
<1>0. o # NoObj
  BY ArcNames, Zenon
<1>1. \A x \in Objs : Hashed(x)' = Hashed(x)
  BY Zenon DEF Hashed, Retains
<1>2. Holds(o)' = Holds(o) + 1 /\ Holds(o) \in Nat
  BY <1>0, HoldsCount, Zenon DEF Retains, OnlyHolder
<1>3. obj[o].refs >= Hashed(o) + Holds(o) /\ obj[o].refs \in Int /\ Hashed(o) \in {0, 1}
  BY ObjectField, Zenon DEF NotFreedEarly, Holds, Types, Hashed
<1>4. obj'[o].refs = obj[o].refs + 1
  BY Zenon DEF Retains
<1>5. obj'[o].refs >= Hashed(o)' + Holds(o)'
  BY <1>1, <1>2, <1>3, <1>4
<1> QED
  BY <1>1, <1>5, OneCounted, Zenon DEF Retains

LEMMA CreatesCounted ==
    ASSUME Types, Sound, NotFreedEarly, NEW t \in Threads, NEW o \in Objs, NEW k \in Keys,
           Creates(t, o, k)
    PROVE  NotFreedEarly'
<1>0. o # NoObj
  BY ArcNames, Zenon
<1>1. /\ Hashed(o) = 0 /\ Hashed(o)' = 1
      /\ \A x \in Objs \ {o} : Hashed(x)' = Hashed(x)
  BY CreatesHashed, Zenon
<1>2. /\ Holds(o) \in Nat /\ Holds(o)' \in Nat
      /\ \/ Holds(o)' = Holds(o) /\ obj'[o].refs = 1
         \/ Holds(o)' = Holds(o) + 1 /\ obj'[o].refs = 2
  <2>1. \A u \in Threads \ {t} : thr'[u].obj = thr[u].obj
    BY Zenon DEF Creates, OnlyHolder
  <2>2. \/ obj'[o].refs = 1 /\ thr'[t].obj = thr[t].obj
        \/ obj'[o].refs = 2 /\ thr[t].obj # o /\ thr'[t].obj = o
    BY <1>0, Zenon DEF Creates
  <2> QED
    BY <2>1, <2>2, HoldsCount, Zenon
<1>3. obj[o].refs = 0 /\ obj[o].refs >= Hashed(o) + Holds(o)
  BY Zenon DEF NotFreedEarly, Holds, Creates
<1>4. obj'[o].refs >= Hashed(o)' + Holds(o)'
  BY <1>1, <1>2, <1>3
<1>5. thr'[t].obj \in {thr[t].obj, o, NoObj}
  BY Zenon DEF Creates
<1> QED
  BY <1>1, <1>4, <1>5, OneCounted, Zenon DEF Creates

LEMMA GivesUpCounted ==
    ASSUME Types, Sound, NotFreedEarly, NEW t \in Threads, NEW o \in Objs, NEW h, NEW n,
           GivesUp(t, o, h, n)
    PROVE  NotFreedEarly'
<1>0. o # NoObj
  BY ArcNames, Zenon
<1>1. /\ Holds(o) \in Nat /\ Holds(o)' \in Nat /\ n \in {0, 1}
      /\ \/ Holds(o)' = Holds(o) - 1
         \/ n = 0 /\ Holds(o)' = Holds(o)
  <2>1. \A u \in Threads \ {t} : thr'[u].obj = thr[u].obj
    BY Zenon DEF GivesUp, OnlyHolder
  <2>2. \/ n = 0 /\ (thr[t].obj = o <=> thr'[t].obj = o)
        \/ n \in {0, 1} /\ thr[t].obj = o /\ thr'[t].obj # o
    BY <1>0, Zenon DEF GivesUp, Leaves, Forsakes
  <2> QED
    BY <2>1, <2>2, HoldsCount, Zenon
<1>2. /\ \/ h = 0 /\ Hashed(o)' = Hashed(o)
         \/ h = 1 /\ Hashed(o) = 1 /\ Hashed(o)' = 0
      /\ \A x \in Objs \ {o} : Hashed(x)' = Hashed(x)
  BY GivesUpHashed, Zenon
<1>3. obj[o].refs >= Hashed(o) + Holds(o) /\ obj[o].refs \in Int /\ Hashed(o) \in {0, 1}
  BY ObjectField, Zenon DEF NotFreedEarly, Holds, Types, Hashed
<1>4. obj'[o].refs = obj[o].refs - h - n
  BY Zenon DEF GivesUp
<1>5. obj'[o].refs >= Hashed(o)' + Holds(o)'
  BY <1>1, <1>2, <1>3, <1>4, SMTT(60)
<1>6. thr'[t].obj \in {thr[t].obj, o, NoObj} /\ Others(o) /\ OnlyHolder(t)
  BY Zenon DEF GivesUp, Leaves, Forsakes
<1> QED
  BY <1>2, <1>5, <1>6, OneCounted, Zenon

LEMMA EventCounted ==
    ASSUME Types, Counted, Event
    PROVE  Counted'
<1>1. Sound /\ NotFreedEarly
  BY CountedSound, Zenon DEF Counted
<1>2. Named' /\ Used'
  BY <1>1, EventKeys, Zenon
<1>3. NotFreedEarly'
  BY <1>1, SilentCounted, RetainsCounted, CreatesCounted, GivesUpCounted, Zenon DEF Event
<1> QED
  BY <1>2, <1>3, Zenon DEF Counted

LEMMA InitCounted == Init => Counted
<1> SUFFICES ASSUME Init PROVE Counted
  BY Zenon
<1>1. /\ \A k \in Keys : hash[k] = NoObj
      /\ \A o \in Objs : obj[o].refs = 0
      /\ \A t \in Threads : thr[t].obj = NoObj
  BY Zenon DEF Init, Free, Idle
<1>2. ASSUME NEW o \in Objs
      PROVE  Hashed(o) = 0 /\ Holders(o) = {}
  BY <1>1, ArcNames, Zenon DEF Hashed, Holders
<1>3. \A o \in Objs : Hashed(o) = 0 /\ Sized(Holders(o)) = 0
  BY <1>2, FS_EmptySet, CardinalityThere, ZenonT(60)
<1>4. NotFreedEarly
  BY <1>1, <1>3, CardinalityHere DEF NotFreedEarly
<1> QED
  BY <1>4, InitKeys, Zenon DEF Counted

(* As long as nobody calls arc_clear, an object has at least a reference for
   the hash table, if that has it, and one for each thread that has it: no
   release frees it under their hands. *)
THEOREM ReferencesHeld ==
    ASSUME "clear" \notin Ops
    PROVE  Spec => []NotFreedEarly
<1> DEFINE Inv == Types /\ Counted /\ Seeking
<1>1. Init => Inv
  BY InitTypes, InitCounted, InitKeys, Zenon
<1>2. Inv /\ [Next]_vars => Inv'
  <2> SUFFICES ASSUME Inv, [Next]_vars PROVE Inv'
    BY Zenon
  <2>1. Types'
    BY TypesStep, Zenon
  <2>2. CASE Next
    <3>1. \A t \in Threads : ~ Clear(t)
      BY ZenonT(60) DEF Clear
    <3>2. Event
      BY <2>2, <3>1, CountedSound, StepEvent, Zenon
    <3> QED
      BY <2>1, <2>2, <3>2, EventCounted, SeekingStep, Zenon
  <2>3. CASE UNCHANGED vars
    <3>1. hash' = hash /\ obj' = obj /\ thr' = thr
      BY <2>3, Zenon DEF vars
    <3>2. Silent
      BY <3>1, Zenon DEF Silent, SameHolders, SameKey
    <3>3. Counted'
      BY <3>2, EventCounted, Zenon DEF Event
    <3> QED
      BY <2>1, <3>1, <3>3, Zenon DEF Seeking
  <2> QED
    BY <2>2, <2>3, Zenon
<1>3. Inv => NotFreedEarly
  BY Zenon DEF Counted
<1> HIDE DEF Inv
<1> QED
  BY <1>1, <1>2, <1>3, PTL DEF Spec
=============================================================================
