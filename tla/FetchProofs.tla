---------------------------- MODULE FetchProofs ----------------------------
(* The fetch that many callers share (module Fetch): its references are balanced,
   every caller gets the whole value and is told so once, and as long as no fetch
   failed half way a caller that listens has somebody who will call it, for any
   number of callers and of objects, any length of values and any faults. *)
EXTENDS Fetch, FiniteSetTheorems, TLAPS

(* Type invariant.  That references are never negative follows from what they
   count. *)
Object == [refs : Int, locked : BOOLEAN, listed : BOOLEAN, fetching : BOOLEAN,
           complete : BOOLEAN, evicted : BOOLEAN, drop : BOOLEAN,
           data : Nat, listeners : SUBSET Getters]

Holding == {"check", "move", "fetch", "link", "use", "waiting", "leaked"}
PCs == {"idle", "retry"} \cup Holding \cup Ended

GetCall == [pc : PCs, obj : Objs \cup {NoObj}, new : BOOLEAN, rc : {-1, 0, 1},
            tries : Nat, got : Nat, finals : Nat]

Types ==
    /\ owner \in BOOLEAN /\ global \in BOOLEAN /\ errors \in BOOLEAN
    /\ hash \in Objs \cup {NoObj}
    /\ obj \in [Objs -> Object]
    /\ reader \in [Objs -> [Stages -> Nat]]
    /\ get \in [Getters -> GetCall]

(* A call has an object while it works with it, listens to it or has lost it, and is
   told nothing before it listens and nothing final before its end. *)
CallOK(c) ==
    /\ c.obj \in Objs <=> c.pc \in Holding
    /\ c.finals <= 1
    /\ c.pc \notin Ended => c.finals = 0
    /\ c.pc \notin Ended \cup {"waiting"} => c.got = 0

(* The rest is said of one object o with the record r, of which the async reader has
   the answers a, when the hash table has h for the key and the calls are f. *)
Users(o, f) == {g \in Getters : f[g].obj = o}

Answers(a) == a["reading"] + a["done"] + a["drop"] + a["release"]

(* One if h is o. *)
One(h, o) == IF h = o THEN 1 ELSE 0

LEMMA OneNat == \A h, o : One(h, o) \in {0, 1} /\ (One(h, o) = 1 <=> h = o)
  BY DEF One

Balanced(o, r, h, f, a) ==
    r.refs = One(h, o) + Cardinality(Users(o, f)) + Answers(a)

(* The listeners are the calls that wait for o, and have got what has arrived. *)
Listening(o, r, f) ==
    \A g \in Getters :
        /\ g \in r.listeners <=> f[g].obj = o /\ f[g].pc = "waiting"
        /\ g \in r.listeners => f[g].got = r.data

(* The fetch of an object has begun, and its outcome is known or the async reader
   will bring it. *)
Settled(r, a) == r.complete \/ (r.evicted /\ r.fetching) \/ a["reading"] > 0

(* As long as no fetch failed half way, an object is fetched once, and is settled
   or has somebody about to fetch it. *)
Served(o, r, f, a) ==
    /\ r.complete \/ r.evicted => r.listeners = {}
    /\ a["reading"] > 0 /\ ~ r.complete => r.fetching
    /\ a["done"] > 0 \/ a["drop"] > 0 \/ a["release"] > 0 => r.complete
    /\ \/ r.fetching \/ r.data > 0 \/ r.listed
       \/ \E g \in Getters : f[g].obj = o /\ f[g].pc = "link"
       => Settled(r, a)
    /\ \/ r.refs = 0
       \/ Settled(r, a)
       \/ \E g \in Getters : f[g].obj = o /\ f[g].pc \in {"move", "fetch"}

Counted(o, r, h, f, a, e) ==
    /\ Balanced(o, r, h, f, a)
    /\ Listening(o, r, f)
    /\ e \/ Served(o, r, f, a)

(* Memory that nobody refers to is as calloc leaves it. *)
ObjOK(o, r, h, f, a, e) ==
    /\ Counted(o, r, h, f, a, e)
    /\ r.refs = 0 => r = New

IInv ==
    /\ Types
    /\ \A g \in Getters : CallOK(get[g])
    /\ \A o \in Objs : ObjOK(o, obj[o], hash, get, reader[o], errors)
-----------------------------------------------------------------------------
(* Counting the calls that have an object *)

LEMMA UsersFinite ==
    ASSUME NEW o, NEW f
    PROVE  IsFiniteSet(Users(o, f)) /\ Cardinality(Users(o, f)) \in Nat
  <1>1. Users(o, f) \in SUBSET Getters
    BY Zenon DEF Users
  <1>. QED
    BY <1>1, FetchFinite, FS_Subset, FS_CardinalityType, Zenon

(* Calls that keep the objects they have are as many. *)
LEMMA UsersStay ==
    ASSUME NEW o, NEW f, NEW k, \A g \in Getters : k[g].obj = o <=> f[g].obj = o
    PROVE  Users(o, k) = Users(o, f)
  BY Zenon DEF Users

(* The calls D leave the object. *)
LEMMA UsersLeave ==
    ASSUME NEW o, NEW f, NEW k, NEW D \in SUBSET Users(o, f),
           \A g \in Getters : k[g].obj = o <=> f[g].obj = o /\ g \notin D
    PROVE  /\ Cardinality(Users(o, k)) = Cardinality(Users(o, f)) - Cardinality(D)
           /\ Cardinality(D) \in Nat
  <1>1. Users(o, k) = Users(o, f) \ D /\ Users(o, f) \cap D = D
    BY Zenon DEF Users
  <1>2. IsFiniteSet(D) /\ Cardinality(D) \in Nat
    BY UsersFinite, FS_Subset, FS_CardinalityType, Zenon
  <1>. QED
    BY <1>1, <1>2, UsersFinite, FS_Difference, Zenon

(* The call g takes the object. *)
LEMMA UsersJoin ==
    ASSUME NEW o, NEW f, NEW k, NEW j \in Getters, f[j].obj # o,
           \A g \in Getters : k[g].obj = o <=> f[g].obj = o \/ g = j
    PROVE  Cardinality(Users(o, k)) = Cardinality(Users(o, f)) + 1
  <1>1. Users(o, k) = Users(o, f) \cup {j} /\ j \notin Users(o, f)
    BY Zenon DEF Users
  <1>. QED
    BY <1>1, UsersFinite, FS_AddElement, Zenon

(* Nobody has an object whose count is zero. *)
LEMMA UsersNone ==
    ASSUME NEW o, NEW f, Cardinality(Users(o, f)) = 0
    PROVE  \A g \in Getters : f[g].obj # o
  <1>1. Users(o, f) = {}
    BY UsersFinite, FS_EmptySet, Zenon
  <1>. QED
    BY <1>1, Zenon DEF Users

LEMMA AnswersNat ==
    ASSUME NEW a \in [Stages -> Nat]
    PROVE  /\ Answers(a) \in Nat
           /\ a["reading"] \in Nat /\ a["done"] \in Nat /\ a["drop"] \in Nat /\ a["release"] \in Nat
  BY DEF Answers, Stages

(* When d calls stop using an object, its count goes down by d. *)
LEMMA LeaveBalanced ==
    ASSUME NEW o, NEW r, NEW x, NEW h, NEW f, NEW k, NEW a, NEW b \in [Stages -> Nat], NEW d \in Nat,
           Balanced(o, r, h, f, b), x.refs = r.refs - d, Answers(a) = Answers(b),
           Cardinality(Users(o, k)) = Cardinality(Users(o, f)) - d
    PROVE  Balanced(o, x, h, k, a)
  <1>1. PICK u, n, m, c \in Int : /\ u = One(h, o) /\ n = Cardinality(Users(o, f))
                                 /\ m = Cardinality(Users(o, k)) /\ c = Answers(b)
    BY UsersFinite, OneNat, AnswersNat
  <1>2. r.refs = u + n + c
    BY <1>1, Zenon DEF Balanced
  <1>3. x.refs = u + m + c
    BY <1>1, <1>2
  <1>. QED
    BY <1>1, <1>3, Zenon DEF Balanced

LEMMA NewType == New \in Object
  BY DEF New, Object
-----------------------------------------------------------------------------
(* A step changes one object, and the calls that have it or come to have it *)

Elsewhere(o, f, k) ==
    \A g \in Getters : k[g] = f[g] \/ (f[g].obj \in {o, NoObj} /\ k[g].obj \in {o, NoObj})

(* When the last reference is gone nothing of the object is left. *)
LEMMA LastReference ==
    ASSUME NEW o \in Objs, NEW r \in Object, NEW h, NEW f, NEW a \in [Stages -> Nat],
           NEW e, Counted(o, r, h, f, a, e)
    PROVE  ObjOK(o, IF r.refs = 0 THEN New ELSE r, h, f, a, e)
  <1>1. CASE r.refs # 0
    BY <1>1, Zenon DEF ObjOK
  <1>2. CASE r.refs = 0
    <2>1. Cardinality(Users(o, f)) = 0 /\ Answers(a) = 0 /\ h # o
      BY <1>2, UsersFinite, AnswersNat, OneNat DEF Counted, Balanced
    <2>2. \A g \in Getters : f[g].obj # o
      BY <2>1, UsersNone, Zenon
    <2>3. ~ (a["reading"] > 0) /\ ~ (a["done"] > 0) /\ ~ (a["drop"] > 0) /\ ~ (a["release"] > 0)
      BY <2>1, AnswersNat DEF Answers
    <2>4. /\ New.refs = 0 /\ New.listeners = {} /\ New.complete = FALSE /\ New.evicted = FALSE
          /\ New.fetching = FALSE /\ New.listed = FALSE /\ New.data = 0
      BY Zenon DEF New
    <2>5. ~ (New.data > 0)
      BY <2>4
    <2>6. Balanced(o, New, h, f, a)
      BY <2>1, <2>4, OneNat DEF Balanced
    <2>7. Listening(o, New, f)
      BY <2>2, <2>4, Zenon DEF Listening
    <2>8. Served(o, New, f, a)
      BY <2>2, <2>3, <2>4, <2>5, Zenon DEF Served
    <2>. QED
      BY <1>2, <2>6, <2>7, <2>8, Zenon DEF ObjOK, Counted
  <1>. QED
    BY <1>1, <1>2, Zenon

(* What the others have does not change. *)
LEMMA OtherObject ==
    ASSUME NEW o \in Objs, NEW q \in Objs, q # o,
           NEW r \in Object, NEW h, NEW i, NEW f, NEW k, NEW a, NEW e \in BOOLEAN, NEW d \in BOOLEAN,
           Elsewhere(o, f, k), i = h \/ (h \in {o, NoObj} /\ i \in {o, NoObj}), e => d,
           ObjOK(q, r, h, f, a, e)
    PROVE  ObjOK(q, r, i, k, a, d)
  <1>1. \A g \in Getters : (f[g].obj = q \/ k[g].obj = q) => k[g] = f[g]
    BY FetchNoObj, Zenon DEF Elsewhere
  <1>2. Users(q, k) = Users(q, f)
    BY <1>1, UsersStay
  <1>3. i = q <=> h = q
    BY FetchNoObj
  <1>4. Balanced(q, r, i, k, a)
    BY <1>2, <1>3, Zenon DEF ObjOK, Counted, Balanced, One
  <1>5. Listening(q, r, k)
    BY <1>1, Zenon DEF ObjOK, Counted, Listening
  <1>6. Served(q, r, f, a) => Served(q, r, k, a)
    BY <1>1, Zenon DEF Served
  <1>. QED
    BY <1>4, <1>5, <1>6, Zenon DEF ObjOK, Counted

CallsOK(o, f, k) ==
    /\ k \in [Getters -> GetCall]
    /\ \A g \in Getters : CallOK(k[g])
    /\ Elsewhere(o, f, k)

HashOK(o, h, i) == i = h \/ (h \in {o, NoObj} /\ i \in {o, NoObj})

(* So the invariant is kept if it is kept of that object, before Freed looks at it. *)
LEMMA OneObject ==
    ASSUME IInv, NEW o \in Objs, NEW r \in Object, NEW a \in [Stages -> Nat],
           \/ obj' = Freed([obj EXCEPT ![o] = r])
           \/ r.refs # 0 /\ obj' = [obj EXCEPT ![o] = r],
           reader' = [reader EXCEPT ![o] = a],
           HashOK(o, hash, hash'), CallsOK(o, get, get'),
           owner' = owner, global' = global, errors' \in BOOLEAN, errors => errors',
           Counted(o, r, hash', get', a, errors')
    PROVE  IInv'
  <1> DEFINE x == IF r.refs = 0 THEN New ELSE r
  <1>1. obj \in [Objs -> Object] /\ \A q \in Objs : obj[q].refs = 0 => obj[q] = New
    BY Zenon DEF IInv, Types, ObjOK
  <1>2. obj' = [obj EXCEPT ![o] = x]
    <2>1. CASE r.refs # 0 /\ obj' = [obj EXCEPT ![o] = r]
      BY <2>1, Zenon
    <2>2. CASE obj' = Freed([obj EXCEPT ![o] = r])
      <3>1. obj' = [q \in Objs |-> IF [obj EXCEPT ![o] = r][q].refs = 0 THEN New
                                   ELSE [obj EXCEPT ![o] = r][q]]
        BY <2>2, Zenon DEF Freed
      <3>2. \A q \in Objs : [obj EXCEPT ![o] = r][q] = IF q = o THEN r ELSE obj[q]
        BY <1>1, Zenon
      <3>. QED
        BY <1>1, <3>1, <3>2, Zenon
    <2>. QED
      BY <2>1, <2>2, Zenon
  <1>3. x \in Object
    BY NewType, Zenon
  <1>4. ObjOK(o, x, hash', get', a, errors')
    BY LastReference, Zenon
  <1> HIDE DEF x
  <1>5. /\ obj' \in [Objs -> Object] /\ obj'[o] = x
        /\ \A q \in Objs : q # o => obj'[q] = obj[q]
    BY <1>1, <1>2, <1>3, Zenon
  <1>6. /\ reader' \in [Objs -> [Stages -> Nat]] /\ reader'[o] = a
        /\ \A q \in Objs : q # o => reader'[q] = reader[q]
    BY Zenon DEF IInv, Types
  <1>7. Types'
    <2>1. hash' \in Objs \cup {NoObj}
      BY Zenon DEF IInv, Types, HashOK
    <2>. QED
      BY <1>5, <1>6, <2>1, Zenon DEF IInv, Types, CallsOK
  <1>8. ASSUME NEW q \in Objs, q # o
        PROVE  ObjOK(q, obj'[q], hash', get', reader'[q], errors')
    <2>1. ObjOK(q, obj[q], hash, get, reader[q], errors) /\ obj[q] \in Object /\ errors \in BOOLEAN
      BY <1>1, Zenon DEF IInv, Types
    <2>2. ObjOK(q, obj[q], hash', get', reader[q], errors')
      <3>1. Elsewhere(o, get, get')
        BY Zenon DEF CallsOK
      <3>2. hash' = hash \/ (hash \in {o, NoObj} /\ hash' \in {o, NoObj})
        BY Zenon DEF HashOK
      <3>. QED
        BY <1>8, <2>1, <3>1, <3>2, OtherObject
    <2>. QED
      BY <1>5, <1>6, <1>8, <2>2, Zenon
  <1>9. \A q \in Objs : ObjOK(q, obj'[q], hash', get', reader'[q], errors')
    BY <1>4, <1>5, <1>6, <1>8, Zenon
  <1>. QED
    BY <1>7, <1>9, Zenon DEF IInv, CallsOK
-----------------------------------------------------------------------------
(* One call goes on *)

LEMMA OneCall ==
    ASSUME NEW o \in Objs, NEW f \in [Getters -> GetCall], \A g \in Getters : CallOK(f[g]),
           NEW g \in Getters, NEW c \in GetCall, CallOK(c),
           f[g].obj \in {o, NoObj}, c.obj \in {o, NoObj}
    PROVE  CallsOK(o, f, [f EXCEPT ![g] = c])
  BY Zenon DEF CallsOK, Elsewhere

LEMMA CallUsers ==
    ASSUME NEW o, NEW f, NEW k, NEW g \in Getters,
           \A h \in Getters : h # g => k[h] = f[h]
    PROVE  Cardinality(Users(o, k)) =
               Cardinality(Users(o, f)) + One(k[g].obj, o) - One(f[g].obj, o)
  <1>0. Cardinality(Users(o, f)) \in Nat
    BY UsersFinite, Zenon
  <1>1. CASE k[g].obj = o /\ f[g].obj = o
    <2>1. Users(o, k) = Users(o, f)
      BY <1>1, UsersStay
    <2>. QED
      BY <1>0, <1>1, <2>1 DEF One
  <1>2. CASE k[g].obj # o /\ f[g].obj # o
    <2>1. Users(o, k) = Users(o, f)
      BY <1>2, UsersStay, Zenon
    <2>. QED
      BY <1>0, <1>2, <2>1 DEF One
  <1>3. CASE k[g].obj = o /\ f[g].obj # o
    <2>1. Cardinality(Users(o, k)) = Cardinality(Users(o, f)) + 1
      BY <1>3, UsersJoin
    <2>. QED
      BY <1>0, <1>3, <2>1 DEF One
  <1>4. CASE k[g].obj # o /\ f[g].obj = o
    <2>1. {g} \in SUBSET Users(o, f) /\ Cardinality({g}) = 1
      BY <1>4, FS_Singleton, Zenon DEF Users
    <2>2. \A h \in Getters : k[h].obj = o <=> f[h].obj = o /\ h \notin {g}
      BY <1>4, Zenon
    <2>3. Cardinality(Users(o, k)) = Cardinality(Users(o, f)) - Cardinality({g})
      BY <2>1, <2>2, UsersLeave
    <2>. QED
      BY <1>0, <1>4, <2>1, <2>3 DEF One
  <1>. QED
    BY <1>1, <1>2, <1>3, <1>4, Zenon

LEMMA CallBalanced ==
    ASSUME NEW o \in Objs, NEW f \in [Getters -> GetCall], NEW g \in Getters, NEW c \in GetCall,
           NEW r \in Object, NEW x \in Object, NEW a \in [Stages -> Nat], NEW h, NEW i,
           Balanced(o, r, h, f, a),
           x.refs = r.refs + One(c.obj, o) - One(f[g].obj, o) + One(i, o) - One(h, o)
    PROVE  Balanced(o, x, i, [f EXCEPT ![g] = c], a)
  <1> DEFINE k == [f EXCEPT ![g] = c]
  <1>1. k[g] = c /\ \A j \in Getters : j # g => k[j] = f[j]
    BY Zenon
  <1> HIDE DEF k
  <1>2. Cardinality(Users(o, k)) = Cardinality(Users(o, f)) + One(c.obj, o) - One(f[g].obj, o)
    BY <1>1, CallUsers, Zenon
  <1>3. Cardinality(Users(o, f)) \in Nat /\ Answers(a) \in Nat
    BY UsersFinite, AnswersNat, Zenon
  <1>4. r.refs = One(h, o) + Cardinality(Users(o, f)) + Answers(a)
    BY Zenon DEF Balanced
  <1>5. x.refs = One(i, o) + Cardinality(Users(o, k)) + Answers(a)
    BY <1>2, <1>3, <1>4, OneNat
  <1>. QED
    BY <1>5, Zenon DEF Balanced, k

LEMMA CallListening ==
    ASSUME NEW o \in Objs, NEW f \in [Getters -> GetCall], NEW g \in Getters, NEW c \in GetCall,
           NEW r \in Object, NEW x \in Object, Listening(o, r, f),
           x.listeners = r.listeners, x.data = r.data,
           f[g].obj # o \/ f[g].pc # "waiting", c.pc # "waiting"
    PROVE  Listening(o, x, [f EXCEPT ![g] = c])
  <1> DEFINE k == [f EXCEPT ![g] = c]
  <1>1. k[g] = c /\ \A h \in Getters : h # g => k[h] = f[h]
    BY Zenon
  <1> HIDE DEF k
  <1>2. Listening(o, x, k)
    BY <1>1, Zenon DEF Listening
  <1>. QED
    BY <1>2, Zenon DEF k

(* Two records of an object agree on the fetch. *)
Alike(r, x) ==
    /\ x.fetching = r.fetching /\ x.complete = r.complete /\ x.evicted = r.evicted
    /\ x.data = r.data /\ x.listeners = r.listeners

LEMMA CallServed ==
    ASSUME NEW o \in Objs, NEW f \in [Getters -> GetCall], NEW g \in Getters, NEW c \in GetCall,
           NEW r \in Object, NEW x \in Object, NEW a \in [Stages -> Nat],
           Served(o, r, f, a), Alike(r, x), x.refs = 0 \/ r.refs # 0,
           x.listed => r.listed \/ Settled(r, a),
           c.obj = o /\ c.pc = "link" => Settled(r, a),
           f[g].obj = o /\ f[g].pc \in {"move", "fetch"} =>
               Settled(r, a) \/ (c.obj = o /\ c.pc \in {"move", "fetch"})
    PROVE  Served(o, x, [f EXCEPT ![g] = c], a)
  <1> DEFINE k == [f EXCEPT ![g] = c]
  <1>1. k[g] = c /\ \A h \in Getters : h # g => k[h] = f[h]
    BY Zenon
  <1>2. Settled(x, a) <=> Settled(r, a)
    BY Zenon DEF Settled, Alike
  <1> HIDE DEF k
  <1>3. Served(o, x, k, a)
    BY <1>1, <1>2, Zenon DEF Served, Alike
  <1>. QED
    BY <1>3, Zenon DEF k

LEMMA Known ==
    ASSUME IInv, NEW o \in Objs
    PROVE  /\ obj[o] \in Object /\ reader[o] \in [Stages -> Nat] /\ obj[o].refs \in Nat
           /\ Balanced(o, obj[o], hash, get, reader[o])
           /\ Listening(o, obj[o], get)
           /\ errors \/ Served(o, obj[o], get, reader[o])
           /\ hash = o => obj[o].refs # 0
           /\ Answers(reader[o]) > 0 => obj[o].refs # 0
           /\ obj[o].refs = 0 => obj[o] = New
  <1>1. /\ obj[o] \in Object /\ reader[o] \in [Stages -> Nat]
        /\ ObjOK(o, obj[o], hash, get, reader[o], errors)
    BY Zenon DEF IInv, Types
  <1>2. Balanced(o, obj[o], hash, get, reader[o])
    BY <1>1, Zenon DEF ObjOK, Counted
  <1>3. obj[o].refs \in Nat /\ (hash = o \/ Answers(reader[o]) > 0 => obj[o].refs # 0)
    BY <1>1, <1>2, UsersFinite, AnswersNat, OneNat DEF Balanced
  <1>. QED
    BY <1>1, <1>2, <1>3, Zenon DEF ObjOK, Counted

LEMMA Caller ==
    ASSUME IInv, NEW g \in Getters
    PROVE  /\ get[g] \in GetCall /\ CallOK(get[g]) /\ get \in [Getters -> GetCall]
           /\ get[g].pc \in Holding => get[g].obj \in Objs /\ obj[get[g].obj].refs # 0
           /\ get[g].pc \in {"idle", "retry"} => get[g].obj = NoObj
  <1>1. get[g] \in GetCall /\ CallOK(get[g]) /\ get \in [Getters -> GetCall]
    BY Zenon DEF IInv, Types
  <1>2. ASSUME get[g].pc \in Holding
        PROVE  get[g].obj \in Objs /\ obj[get[g].obj].refs # 0
    <2>1. get[g].obj \in Objs
      BY <1>1, <1>2, Zenon DEF CallOK
    <2>2. Cardinality(Users(get[g].obj, get)) # 0
      BY UsersNone, Zenon
    <2>3. Balanced(get[g].obj, obj[get[g].obj], hash, get, reader[get[g].obj])
      BY <2>1, Known, Zenon
    <2>. QED
      BY <2>1, <2>2, <2>3, Known, UsersFinite, AnswersNat, OneNat DEF Balanced
  <1>3. ASSUME get[g].pc \in {"idle", "retry"} PROVE get[g].obj = NoObj
    BY <1>1, <1>3, Zenon DEF CallOK, GetCall, Holding
  <1>. QED
    BY <1>1, <1>2, <1>3, Zenon

(* A call g goes on with o and becomes c, the object becomes x. *)
LEMMA CallStep ==
    ASSUME IInv, NEW o \in Objs, NEW g \in Getters, NEW c \in GetCall, NEW x \in Object,
           \/ obj' = Freed([obj EXCEPT ![o] = x])
           \/ x.refs # 0 /\ obj' = [obj EXCEPT ![o] = x],
           get' = [get EXCEPT ![g] = c], HashOK(o, hash, hash'),
           UNCHANGED <<owner, global, reader, errors>>,
           CallOK(c), get[g].obj \in {o, NoObj}, c.obj \in {o, NoObj},
           get[g].pc # "waiting", c.pc # "waiting",
           Alike(obj[o], x),
           x.refs = obj[o].refs + One(c.obj, o) - One(get[g].obj, o)
                                + One(hash', o) - One(hash, o),
           errors \/ Served(o, x, get', reader[o])
    PROVE  IInv'
  <1>1. /\ obj[o] \in Object /\ reader[o] \in [Stages -> Nat] /\ errors \in BOOLEAN
        /\ Balanced(o, obj[o], hash, get, reader[o]) /\ Listening(o, obj[o], get)
        /\ get \in [Getters -> GetCall] /\ \A h \in Getters : CallOK(get[h])
    BY Known, Zenon DEF IInv, Types
  <1>2. Listening(o, x, get')
    BY <1>1, CallListening, Zenon DEF Alike
  <1>3. Balanced(o, x, hash', get', reader[o])
    BY <1>1, CallBalanced, Zenon
  <1>4. CallsOK(o, get, get')
    BY <1>1, OneCall, Zenon
  <1>5. Counted(o, x, hash', get', reader[o], errors')
    BY <1>2, <1>3, Zenon DEF Counted
  <1>6. reader' = [reader EXCEPT ![o] = reader[o]]
    BY Zenon DEF IInv, Types
  <1>. QED
    BY <1>1, <1>4, <1>5, <1>6, OneObject, Zenon

(* An object whose fetch is settled is served whoever has it. *)
LEMMA SettledServed ==
    ASSUME NEW o, NEW x, NEW f, NEW a, Settled(x, a),
           x.complete \/ x.evicted => x.listeners = {},
           a["reading"] > 0 /\ ~ x.complete => x.fetching,
           a["done"] > 0 \/ a["drop"] > 0 \/ a["release"] > 0 => x.complete
    PROVE  Served(o, x, f, a)
  BY Zenon DEF Served
-----------------------------------------------------------------------------
(* arc_lookup and arc_move *)

LEMMA Goes ==
    ASSUME NEW b \in GetCall, CallOK(b), b.pc \notin Ended, b.pc # "waiting",
           NEW c \in GetCall, c.finals = b.finals, c.got = b.got,
           \/ c.obj \in Objs /\ c.pc \in Holding
           \/ c.obj \notin Objs /\ c.pc \notin Holding
    PROVE  CallOK(c)
  BY Zenon DEF CallOK

LEMMA LookupFoundOK ==
    ASSUME IInv, NEW g \in Getters, LookupFound(g)
    PROVE  IInv'
  <1> DEFINE o == hash
             c == [get[g] EXCEPT !.pc = "check", !.obj = o, !.new = FALSE]
             x == [obj[o] EXCEPT !.refs = @ + 1]
  <1>1. o \in Objs /\ get[g].pc \in {"idle", "retry"}
    BY Zenon DEF IInv, Types, LookupFound
  <1>2. get[g] \in GetCall /\ CallOK(get[g]) /\ get \in [Getters -> GetCall] /\ get[g].obj = NoObj
    BY <1>1, Caller, Zenon
  <1>3. obj[o] \in Object /\ obj[o].refs \in Nat /\ obj[o].refs # 0 /\ obj \in [Objs -> Object]
        /\ reader[o] \in [Stages -> Nat]
    BY <1>1, Known, Zenon DEF IInv, Types
  <1>4. c \in GetCall /\ c.pc = "check" /\ c.obj = o /\ c.finals = get[g].finals /\ c.got = get[g].got
    BY <1>1, <1>2, Zenon DEF GetCall, PCs, Holding
  <1>5. x \in Object /\ x.refs = obj[o].refs + 1 /\ Alike(obj[o], x) /\ x.listed = obj[o].listed
    BY <1>3 DEF Object, Alike
  <1>6. get' = [get EXCEPT ![g] = c] /\ obj' = [obj EXCEPT ![o] = x]
    BY Zenon DEF LookupFound
  <1>7. UNCHANGED <<owner, global, hash, reader, errors>>
    BY Zenon DEF LookupFound
  <1> HIDE DEF o, c, x
  <1>8. CallOK(c)
    BY <1>1, <1>2, <1>4, Goes, Zenon DEF Holding, Ended
  <1>9. errors \/ Served(o, x, get', reader[o])
    BY <1>1, <1>2, <1>3, <1>4, <1>5, <1>6, Known, CallServed, Zenon
  <1>10. x.refs = obj[o].refs + One(c.obj, o) - One(get[g].obj, o) + One(hash', o) - One(hash, o)
    BY <1>1, <1>2, <1>3, <1>4, <1>5, <1>7, FetchNoObj DEF One, o
  <1>11. x.refs # 0 /\ HashOK(o, hash, hash')
    BY <1>3, <1>5, <1>7 DEF HashOK
  <1>. QED
    BY <1>1, <1>2, <1>4, <1>5, <1>6, <1>7, <1>8, <1>9, <1>10, <1>11, CallStep, Zenon

LEMMA LookupNewOK ==
    ASSUME IInv, NEW g \in Getters, LookupNew(g)
    PROVE  IInv'
  <1>1. PICK o \in Objs : /\ obj[o].refs = 0 /\ hash' = o
                          /\ obj' = [obj EXCEPT ![o] = [New EXCEPT !.refs = 2]]
                          /\ get' = [get EXCEPT ![g].pc = "move", ![g].obj = o, ![g].new = TRUE]
    BY Zenon DEF LookupNew
  <1> DEFINE c == [get[g] EXCEPT !.pc = "move", !.obj = o, !.new = TRUE]
             x == [New EXCEPT !.refs = 2]
  <1>2. get[g].pc \in {"idle", "retry"} /\ hash = NoObj /\ UNCHANGED <<owner, global, reader, errors>>
    BY Zenon DEF LookupNew
  <1>3. get[g] \in GetCall /\ CallOK(get[g]) /\ get \in [Getters -> GetCall] /\ get[g].obj = NoObj
    BY <1>2, Caller, Zenon
  <1>4. obj[o] = New /\ reader[o] \in [Stages -> Nat] /\ (errors \/ Served(o, New, get, reader[o]))
    BY <1>1, Known, Zenon
  <1>5. c \in GetCall /\ c.pc = "move" /\ c.obj = o /\ c.finals = get[g].finals /\ c.got = get[g].got
    BY <1>3, Zenon DEF GetCall, PCs, Holding
  <1>6. x \in Object /\ x.refs = 2 /\ Alike(New, x) /\ x.listed = New.listed
    BY NewType DEF Object, Alike
  <1>7. get' = [get EXCEPT ![g] = c] /\ obj' = [obj EXCEPT ![o] = x]
    BY <1>1, Zenon
  <1> HIDE DEF c, x
  <1>8. CallOK(c)
    BY <1>2, <1>3, <1>5, Goes, Zenon DEF Holding, Ended
  <1>9. errors \/ Served(o, x, get', reader[o])
    <2>1. /\ get'[g].obj = o /\ get'[g].pc = "move"
          /\ \A j \in Getters : get'[j].pc = "link" => get'[j] = get[j]
      BY <1>3, <1>5, <1>7, Zenon
    <2>2. Settled(x, reader[o]) <=> Settled(New, reader[o])
      BY <1>6, Zenon DEF Settled, Alike
    <2>. QED
      BY <1>4, <1>6, <2>1, <2>2, Zenon DEF Served, Alike
  <1>10. x.refs = obj[o].refs + One(c.obj, o) - One(get[g].obj, o) + One(hash', o) - One(hash, o)
    BY <1>1, <1>2, <1>3, <1>5, <1>6, FetchNoObj DEF One
  <1>11. x.refs # 0 /\ HashOK(o, hash, hash')
    BY <1>1, <1>2, <1>6 DEF HashOK
  <1>12. Alike(obj[o], x) /\ get[g].pc # "waiting" /\ c.pc # "waiting"
    BY <1>2, <1>4, <1>5, <1>6, Zenon
  <1>. QED
    BY <1>2, <1>3, <1>5, <1>6, <1>7, <1>8, <1>9, <1>10, <1>11, <1>12, CallStep, Zenon

(* A call that has o goes on with it. *)
LEMMA Working ==
    ASSUME IInv, NEW g \in Getters, get[g].pc \in Holding, NEW o, o = get[g].obj
    PROVE  /\ o \in Objs /\ get[g] \in GetCall /\ CallOK(get[g]) /\ get \in [Getters -> GetCall]
           /\ obj[o] \in Object /\ obj[o].refs \in Nat /\ obj[o].refs # 0 /\ obj \in [Objs -> Object]
           /\ reader[o] \in [Stages -> Nat]
           /\ errors \/ Served(o, obj[o], get, reader[o])
  BY Caller, Known, Zenon DEF IInv, Types

LEMMA HoldingStep ==
    ASSUME IInv, NEW g \in Getters, NEW o, o = get[g].obj,
           get[g].pc \in Holding \ {"waiting", "leaked"},
           NEW c \in GetCall, c.obj = o, c.pc \in Holding \ {"waiting", "leaked"},
           c.finals = get[g].finals, c.got = get[g].got, get' = [get EXCEPT ![g] = c],
           NEW x \in Object, x.refs = obj[o].refs, Alike(obj[o], x),
           \/ obj' = [obj EXCEPT ![o] = x]
           \/ obj' = Freed([obj EXCEPT ![o] = x]),
           UNCHANGED <<owner, global, hash, reader, errors>>,
           errors \/ Served(o, x, get', reader[o])
    PROVE  IInv'
  <1>1. o \in Objs /\ get[g] \in GetCall /\ CallOK(get[g]) /\ obj[o].refs \in Nat /\ obj[o].refs # 0
    BY Working, Zenon
  <1>2. CallOK(c)
    BY <1>1, Goes, Zenon DEF Holding, Ended
  <1>3. x.refs = obj[o].refs + One(c.obj, o) - One(get[g].obj, o) + One(hash', o) - One(hash, o)
    BY <1>1, OneNat
  <1>4. HashOK(o, hash, hash')
    BY Zenon DEF HashOK
  <1>. QED
    BY <1>1, <1>2, <1>3, <1>4, CallStep, Zenon

LEMMA CheckOK ==
    ASSUME IInv, NEW g \in Getters, Check(g)
    PROVE  IInv'
  <1>1. get[g].pc = "check" /\ get[g].pc \in Holding
    BY Zenon DEF Check, Holding
  <1>2. PICK o : o = get[g].obj
    BY Zenon
  <1>3. PICK pc \in {"use", "move"} : get' = [get EXCEPT ![g].pc = pc]
    BY <1>2, Zenon DEF Check, Goto
  <1>4. UNCHANGED <<owner, global, hash, obj, reader, errors>>
    BY Zenon DEF Check
  <1> DEFINE c == [get[g] EXCEPT !.pc = pc]
  <1>5. c \in GetCall /\ c.obj = o /\ c.pc \in {"use", "move"} /\ c.finals = get[g].finals /\ c.got = get[g].got
    BY <1>1, <1>2, Working DEF GetCall, PCs, Holding
  <1>6. get' = [get EXCEPT ![g] = c] /\ obj' = [obj EXCEPT ![o] = obj[o]]
    BY <1>1, <1>2, <1>3, <1>4, Working, Zenon
  <1> HIDE DEF c
  <1>7. Alike(obj[o], obj[o])
    BY Zenon DEF Alike
  <1>8. errors \/ Served(o, obj[o], get', reader[o])
    BY <1>1, <1>2, <1>5, <1>6, <1>7, Working, CallServed, Zenon
  <1>9. c.pc \in Holding \ {"waiting", "leaked"} /\ get[g].pc \in Holding \ {"waiting", "leaked"}
    BY <1>1, <1>5, Zenon DEF Holding
  <1>. QED
    BY <1>1, <1>2, <1>4, <1>5, <1>6, <1>7, <1>8, <1>9, Working, HoldingStep, Zenon

LEMMA MoveOK ==
    ASSUME IInv, NEW g \in Getters, Move(g)
    PROVE  IInv'
  <1>1. get[g].pc = "move" /\ get[g].pc \in Holding \ {"waiting", "leaked"}
    BY Zenon DEF Move, Holding
  <1>2. PICK o : o = get[g].obj
    BY Zenon
  <1>3. UNCHANGED <<owner, global, hash, reader, errors>>
    BY DEF Move
  <1>4. /\ get[g] \in GetCall /\ get \in [Getters -> GetCall] /\ o \in Objs
        /\ obj[o] \in Object /\ obj \in [Objs -> Object] /\ obj[o].refs # 0
        /\ reader[o] \in [Stages -> Nat] /\ (errors \/ Served(o, obj[o], get, reader[o]))
    BY <1>1, <1>2, Working, Zenon
  <1>5. CASE obj[o].listed
    <2> DEFINE c == [get[g] EXCEPT !.pc = "use"]
    <2>1. c \in GetCall /\ c.obj = o /\ c.pc = "use" /\ c.finals = get[g].finals /\ c.got = get[g].got
      BY <1>2, <1>4, Zenon DEF GetCall, PCs, Holding
    <2>2. get' = [get EXCEPT ![g] = c] /\ obj' = [obj EXCEPT ![o] = obj[o]]
      BY <1>2, <1>4, <1>5, Zenon DEF Move, Goto
    <2> HIDE DEF c
    <2>3. Alike(obj[o], obj[o])
      BY Zenon DEF Alike
    <2>4. errors \/ Settled(obj[o], reader[o])
      BY <1>4, <1>5, Zenon DEF Served
    <2>5. errors \/ Served(o, obj[o], get', reader[o])
      BY <1>4, <2>1, <2>2, <2>3, <2>4, CallServed, Zenon
    <2>6. c.pc \in Holding \ {"waiting", "leaked"}
      BY <2>1, Zenon DEF Holding
    <2>. QED
      BY <1>1, <1>2, <1>3, <1>4, <2>1, <2>2, <2>3, <2>5, <2>6, HoldingStep, Zenon
  <1>6. CASE ~ obj[o].listed
    <2> DEFINE c == [get[g] EXCEPT !.pc = "fetch"]
               x == [obj[o] EXCEPT !.locked = TRUE]
    <2>1. c \in GetCall /\ c.obj = o /\ c.pc = "fetch" /\ c.finals = get[g].finals /\ c.got = get[g].got
      BY <1>2, <1>4, Zenon DEF GetCall, PCs, Holding
    <2>2. x \in Object /\ Alike(obj[o], x) /\ x.refs = obj[o].refs /\ x.listed = obj[o].listed
      BY <1>4, Zenon DEF Object, Alike
    <2>3. get' = [get EXCEPT ![g] = c] /\ obj' = [obj EXCEPT ![o] = x]
      BY <1>2, <1>4, <1>6, Zenon DEF Move, Goto
    <2> HIDE DEF c, x
    <2>4. errors \/ Served(o, x, get', reader[o])
      BY <1>4, <2>1, <2>2, <2>3, CallServed, Zenon
    <2>5. c.pc \in Holding \ {"waiting", "leaked"}
      BY <2>1, Zenon DEF Holding
    <2>. QED
      BY <1>1, <1>2, <1>3, <1>4, <2>1, <2>2, <2>3, <2>4, <2>5, HoldingStep, Zenon
  <1>. QED
    BY <1>5, <1>6, Zenon

LEMMA OverType ==
    ASSUME NEW b \in GetCall, NEW pc \in PCs, NEW c, c = Over(b, pc)
    PROVE  c \in GetCall /\ c.pc = pc /\ c.obj = NoObj /\ c.finals = b.finals /\ c.got = b.got
  BY ZenonT(60) DEF Over, GetCall

LEMMA LinkOK ==
    ASSUME IInv, NEW g \in Getters, Link(g)
    PROVE  IInv'
  <1>1. get[g].pc = "link" /\ get[g].pc \in Holding \ {"waiting", "leaked"}
    BY Zenon DEF Link, Holding
  <1>2. PICK o : o = get[g].obj
    BY Zenon
  <1>3. UNCHANGED <<owner, global, reader, errors>>
    BY Zenon DEF Link
  <1>4. /\ get[g] \in GetCall /\ get \in [Getters -> GetCall] /\ CallOK(get[g]) /\ o \in Objs
        /\ obj[o] \in Object /\ obj \in [Objs -> Object] /\ obj[o].refs # 0 /\ obj[o].refs \in Nat
        /\ reader[o] \in [Stages -> Nat] /\ (errors \/ Served(o, obj[o], get, reader[o]))
    BY <1>1, <1>2, Working, Zenon
  <1>5. errors \/ Settled(obj[o], reader[o])
    BY <1>1, <1>2, <1>4, Zenon DEF Served
  <1>6. hash' = hash \/ (hash = o /\ hash' = NoObj)
    BY <1>2, Zenon DEF Link, HashDelete
  <1>7. HashOK(o, hash, hash')
    BY <1>6, Zenon DEF HashOK
  <1>8. CASE get[g].rc = 0
    <2> DEFINE c == [get[g] EXCEPT !.pc = "use", !.new = FALSE, !.rc = 0]
               x == [obj[o] EXCEPT !.listed = TRUE, !.locked = FALSE]
    <2>1. c \in GetCall /\ c.obj = o /\ c.pc = "use" /\ c.finals = get[g].finals /\ c.got = get[g].got
      BY <1>2, <1>4, Zenon DEF GetCall, PCs, Holding
    <2>2. x \in Object /\ Alike(obj[o], x) /\ x.refs = obj[o].refs
      BY <1>4, Zenon DEF Object, Alike
    <2>3. get' = [get EXCEPT ![g] = c] /\ obj' = [obj EXCEPT ![o] = x] /\ hash' = hash
      <3>2. get' = [get EXCEPT ![g] = c]
        BY <1>8 DEF Link
      <3>3. obj' = [obj EXCEPT ![o].listed = TRUE, ![o].locked = FALSE] /\ hash' = hash
        BY <1>2, <1>8, Zenon DEF Link
      <3>. QED
        BY <1>4, <3>2, <3>3, ZenonT(60)
    <2> HIDE DEF c, x
    <2>4. errors \/ Served(o, x, get', reader[o])
      BY <1>1, <1>4, <1>5, <2>1, <2>2, <2>3, CallServed, ZenonT(60)
    <2>5. c.pc \in Holding \ {"waiting", "leaked"}
      BY <2>1, Zenon DEF Holding
    <2>. QED
      BY <1>1, <1>2, <1>3, <1>4, <2>1, <2>2, <2>3, <2>4, <2>5, HoldingStep, Zenon
  <1>9. CASE get[g].rc # 0
    <2> DEFINE lost == IF get[g].rc = -1 /\ get[g].new THEN 1 ELSE 0
               x == [obj[o] EXCEPT !.refs = @ - Unhashed(o) - lost]
    <2>1. Unhashed(o) = One(hash', o) + One(hash, o) /\ One(hash', o) = 0 /\ lost \in {0, 1}
      BY <1>2, <1>4, <1>9, FetchNoObj DEF Unhashed, One, Link, HashDelete
    <2>2. /\ x \in Object /\ Alike(obj[o], x) /\ x.listed = obj[o].listed
          /\ x.refs = obj[o].refs - One(hash, o) - lost
      BY <1>4, <2>1, OneNat DEF Object, Alike
    <2>3. obj' = Freed([obj EXCEPT ![o] = x])
      BY <1>2, <1>4, <1>9, Zenon DEF Link
    <2> HIDE DEF x
    <2>4. ASSUME NEW c \in GetCall, CallOK(c), get' = [get EXCEPT ![g] = c],
                 c.pc \notin {"waiting", "link"}, c.obj \in {o, NoObj},
                 One(c.obj, o) = 1 - lost
          PROVE  IInv'
      <3>1. errors \/ Served(o, x, get', reader[o])
        BY <1>1, <1>4, <2>2, <2>4, CallServed, Zenon
      <3>2. x.refs = obj[o].refs + One(c.obj, o) - One(get[g].obj, o) + One(hash', o) - One(hash, o)
        BY <1>2, <1>4, <2>1, <2>2, <2>4, OneNat
      <3>. QED
        BY <1>1, <1>2, <1>3, <1>4, <1>7, <2>2, <2>3, <2>4, <3>1, <3>2, CallStep, Zenon
    <2>5. CASE get[g].rc # -1
      <3> DEFINE c == [get[g] EXCEPT !.pc = "use", !.new = FALSE, !.rc = 0]
      <3>1. c \in GetCall /\ c.obj = o /\ c.pc = "use" /\ c.finals = get[g].finals /\ c.got = get[g].got
        BY <1>2, <1>4, Zenon DEF GetCall, PCs, Holding
      <3>2. get' = [get EXCEPT ![g] = c] /\ lost = 0
        BY <1>4, <2>5, Zenon DEF Link
      <3> HIDE DEF c, lost
      <3>3. CallOK(c)
        BY <1>1, <1>4, <3>1, Goes, Zenon DEF Holding, Ended
      <3>4. One(c.obj, o) = 1 - lost
        BY <3>1, <3>2, OneNat
      <3>5. c.obj \in {o, NoObj} /\ c.pc \notin {"waiting", "link"}
        BY <3>1, Zenon
      <3>. QED
        BY <2>4, <3>1, <3>2, <3>3, <3>4, <3>5, Zenon
    <2>6. CASE get[g].rc = -1 /\ get[g].new
      <3> DEFINE c == Over(get[g], "failed")
      <3>1. c \in GetCall /\ c.obj = NoObj /\ c.pc = "failed" /\ c.finals = get[g].finals /\ c.got = get[g].got
        BY <1>4, OverType DEF PCs, Ended
      <3>2. get' = [get EXCEPT ![g] = c] /\ lost = 1
        BY <1>4, <2>6, Zenon DEF Link
      <3> HIDE DEF c, lost
      <3>3. CallOK(c)
        BY <1>1, <1>4, <3>1, Goes, FetchNoObj, Zenon DEF Holding, Ended
      <3>4. One(c.obj, o) = 1 - lost
        BY <1>4, <3>1, <3>2, FetchNoObj DEF One
      <3>5. c.obj \in {o, NoObj} /\ c.pc \notin {"waiting", "link"}
        BY <3>1, Zenon
      <3>. QED
        BY <2>4, <3>1, <3>2, <3>3, <3>4, <3>5, Zenon
    <2>7. CASE get[g].rc = -1 /\ ~ get[g].new
      <3> DEFINE b == Over(get[g], "leaked")
                 c == [b EXCEPT !.obj = o]
      <3>1. b \in GetCall /\ b.pc = "leaked" /\ b.finals = get[g].finals /\ b.got = get[g].got
        BY <1>4, OverType DEF PCs, Ended
      <3>2. get' = [get EXCEPT ![g] = c] /\ lost = 0
        BY <1>2, <1>4, <2>7, Zenon DEF Link
      <3> HIDE DEF b, lost
      <3>3. c \in GetCall /\ c.obj = o /\ c.pc = "leaked" /\ c.finals = get[g].finals /\ c.got = get[g].got
        BY <1>4, <3>1, Zenon DEF GetCall
      <3> HIDE DEF c
      <3>4. CallOK(c)
        BY <1>1, <1>4, <3>3, Goes, Zenon DEF Holding, Ended
      <3>5. One(c.obj, o) = 1 - lost
        BY <3>2, <3>3, OneNat
      <3>6. c.obj \in {o, NoObj} /\ c.pc \notin {"waiting", "link"}
        BY <3>3, Zenon
      <3>. QED
        BY <2>4, <3>2, <3>3, <3>4, <3>5, <3>6, Zenon
    <2>. QED
      BY <2>5, <2>6, <2>7, Zenon
  <1>. QED
    BY <1>8, <1>9, Zenon
-----------------------------------------------------------------------------
(* shardcache_get, with the object *)

LEMMA UseLeaves ==
    ASSUME IInv, NEW g \in Getters, get[g].pc = "use", NEW o, o = get[g].obj,
           NEW c \in GetCall, CallOK(c), c.obj = NoObj,
           get' = [get EXCEPT ![g] = c], obj' = Released(o),
           UNCHANGED <<owner, global, hash, reader, errors>>
    PROVE  IInv'
  <1> DEFINE x == [obj[o] EXCEPT !.refs = @ - 1]
  <1>1. /\ get[g] \in GetCall /\ get \in [Getters -> GetCall] /\ o \in Objs
        /\ obj[o] \in Object /\ obj \in [Objs -> Object] /\ obj[o].refs # 0 /\ obj[o].refs \in Nat
        /\ reader[o] \in [Stages -> Nat] /\ (errors \/ Served(o, obj[o], get, reader[o]))
    BY Working, Zenon DEF Holding
  <1>2. /\ x \in Object /\ Alike(obj[o], x) /\ x.listed = obj[o].listed
        /\ x.refs = obj[o].refs - 1
    BY <1>1 DEF Object, Alike
  <1>3. obj' = Freed([obj EXCEPT ![o] = x])
    BY <1>1, Zenon DEF Released
  <1> HIDE DEF x
  <1>4. c.pc \notin Holding
    BY <1>1, FetchNoObj, Zenon DEF CallOK
  <1>5. errors \/ Served(o, x, get', reader[o])
    BY <1>1, <1>2, <1>4, CallServed, FetchNoObj, Zenon
  <1>6. x.refs = obj[o].refs + One(c.obj, o) - One(get[g].obj, o) + One(hash', o) - One(hash, o)
    BY <1>1, <1>2, FetchNoObj DEF One
  <1>7. HashOK(o, hash, hash') /\ c.pc # "waiting" /\ get[g].pc # "waiting"
    BY <1>4, Zenon DEF HashOK, Holding
  <1>. QED
    BY <1>1, <1>2, <1>3, <1>5, <1>6, <1>7, CallStep, ZenonT(60)

LEMMA UseEvictedOK ==
    ASSUME IInv, NEW g \in Getters, UseEvicted(g)
    PROVE  IInv'
  <1>1. get[g].pc = "use" /\ get[g].pc \in Holding
    BY Zenon DEF UseEvicted, Holding
  <1>2. PICK o : o = get[g].obj
    BY Zenon
  <1>3. UNCHANGED <<owner, global, hash, reader, errors>> /\ obj' = Released(o)
    BY <1>2, Zenon DEF UseEvicted
  <1>4. get[g] \in GetCall /\ get \in [Getters -> GetCall] /\ CallOK(get[g])
    BY <1>1, <1>2, Working, Zenon
  <1>5. CASE get[g].tries = MaxTries
    <2> DEFINE c == Over(get[g], "failed")
    <2>1. /\ c \in GetCall /\ c.obj = NoObj /\ c.pc = "failed"
          /\ c.finals = get[g].finals /\ c.got = get[g].got
      BY <1>4, OverType DEF PCs, Ended
    <2>2. get' = [get EXCEPT ![g] = c]
      BY <1>5, Zenon DEF UseEvicted
    <2> HIDE DEF c
    <2>3. CallOK(c)
      BY <1>1, <1>4, <2>1, Goes, FetchNoObj, Zenon DEF Holding, Ended
    <2>. QED
      BY <1>1, <1>2, <1>3, <2>1, <2>2, <2>3, UseLeaves, Zenon
  <1>6. CASE get[g].tries # MaxTries
    <2> DEFINE c == [get[g] EXCEPT !.pc = "retry", !.obj = NoObj, !.tries = @ + 1]
    <2>1. /\ c \in GetCall /\ c.obj = NoObj /\ c.pc = "retry"
          /\ c.finals = get[g].finals /\ c.got = get[g].got
      <3>1. get[g].tries + 1 \in Nat
        BY <1>4 DEF GetCall
      <3>. QED
        BY <1>4, <3>1, Zenon DEF GetCall, PCs
    <2>2. get' = [get EXCEPT ![g] = c]
      BY <1>4, <1>6, Zenon DEF UseEvicted
    <2> HIDE DEF c
    <2>3. CallOK(c)
      BY <1>1, <1>4, <2>1, Goes, FetchNoObj, Zenon DEF Holding, Ended
    <2>. QED
      BY <1>1, <1>2, <1>3, <2>1, <2>2, <2>3, UseLeaves, Zenon
  <1>. QED
    BY <1>5, <1>6, Zenon

LEMMA UseCompleteOK ==
    ASSUME IInv, NEW g \in Getters, UseComplete(g)
    PROVE  IInv'
  <1>1. get[g].pc = "use" /\ get[g].pc \in Holding
    BY Zenon DEF UseComplete, Holding
  <1>2. PICK o : o = get[g].obj
    BY Zenon
  <1>3. UNCHANGED <<owner, global, hash, reader, errors>> /\ obj' = Released(o)
    BY <1>2, Zenon DEF UseComplete
  <1>4. /\ get[g] \in GetCall /\ get \in [Getters -> GetCall] /\ CallOK(get[g])
        /\ o \in Objs /\ obj[o] \in Object
    BY <1>1, <1>2, Working, Zenon
  <1> DEFINE b == Over(get[g], "ok")
             n == b.got + obj[o].data
             c == [b EXCEPT !.got = n, !.finals = 1]
  <1>5. b \in GetCall /\ b.obj = NoObj /\ b.pc = "ok" /\ b.finals = get[g].finals
    BY <1>4, OverType DEF PCs, Ended
  <1>6. obj[o].data \in Nat /\ get[g].finals = 0
    BY <1>1, <1>4, Zenon DEF Object, CallOK, Ended
  <1>7. get' = [get EXCEPT ![g] = c]
    <2>1. get[g].finals + 1 = 1 /\ n = get[g].got + obj[o].data
      BY <1>4, <1>6, OverType DEF PCs, Ended
    <2>. QED
      BY <1>2, <2>1, Zenon DEF UseComplete
  <1> HIDE DEF b
  <1>8. n \in Nat
    BY <1>5, <1>6 DEF GetCall
  <1> HIDE DEF n
  <1>9. c \in GetCall /\ c.obj = NoObj /\ c.pc = "ok" /\ c.finals = 1
    BY <1>5, <1>8, Zenon DEF GetCall
  <1> HIDE DEF c
  <1>10. CallOK(c)
    BY <1>9, FetchNoObj DEF CallOK, Holding, Ended
  <1>. QED
    BY <1>1, <1>2, <1>3, <1>7, <1>9, <1>10, UseLeaves, Zenon

LEMMA UseListenOK ==
    ASSUME IInv, NEW g \in Getters, UseListen(g)
    PROVE  IInv'
  <1>1. get[g].pc = "use" /\ get[g].pc \in Holding
    BY Zenon DEF UseListen, Holding
  <1>2. PICK o : o = get[g].obj
    BY Zenon
  <1>3. UNCHANGED <<owner, global, hash, reader, errors>> /\ ~ obj[o].evicted /\ ~ obj[o].complete
    BY <1>2, Zenon DEF UseListen
  <1>4. /\ get[g] \in GetCall /\ get \in [Getters -> GetCall] /\ CallOK(get[g])
        /\ o \in Objs /\ obj[o] \in Object /\ obj \in [Objs -> Object]
        /\ obj[o].refs # 0 /\ obj[o].refs \in Nat
        /\ reader[o] \in [Stages -> Nat] /\ (errors \/ Served(o, obj[o], get, reader[o]))
    BY <1>1, <1>2, Working, Zenon
  <1>5. obj[o].data \in Nat /\ get[g].got = 0 /\ get[g].finals = 0
    BY <1>1, <1>4, Zenon DEF Object, CallOK, Ended
  <1> DEFINE c == [get[g] EXCEPT !.pc = "waiting", !.got = obj[o].data]
             x == [obj[o] EXCEPT !.listeners = @ \cup {g}]
  <1>6. c \in GetCall /\ c.pc = "waiting" /\ c.obj = o /\ c.finals = 0 /\ c.got = obj[o].data
    BY <1>2, <1>4, <1>5, Zenon DEF GetCall, PCs, Holding
  <1>7. /\ x \in Object /\ x.listeners = obj[o].listeners \cup {g} /\ x.refs = obj[o].refs
        /\ x.fetching = obj[o].fetching /\ x.complete = obj[o].complete
        /\ x.evicted = obj[o].evicted /\ x.data = obj[o].data /\ x.listed = obj[o].listed
    BY <1>4, Zenon DEF Object
  <1>8. get' = [get EXCEPT ![g] = c] /\ obj' = [obj EXCEPT ![o] = x]
    <2>1. get[g].got + obj[o].data = obj[o].data
      BY <1>5
    <2>. QED
      BY <1>2, <1>4, <2>1, ZenonT(60) DEF UseListen
  <1> HIDE DEF c, x
  <1>9. CallOK(c)
    BY <1>4, <1>6 DEF CallOK, Holding, Ended
  <1>10. CallsOK(o, get, get')
    BY <1>2, <1>4, <1>6, <1>8, <1>9, OneCall, Zenon DEF IInv
  <1>11. /\ get'[g] = c /\ \A h \in Getters : h # g => get'[h] = get[h]
    BY <1>4, <1>8, Zenon
  <1>12. Balanced(o, x, hash', get', reader[o])
    <2>1. x.refs = obj[o].refs + One(c.obj, o) - One(get[g].obj, o) + One(hash', o) - One(hash, o)
      BY <1>2, <1>3, <1>4, <1>6, <1>7, OneNat
    <2>2. Balanced(o, obj[o], hash, get, reader[o])
      BY <1>4, Known, Zenon
    <2>. QED
      BY <1>4, <1>6, <1>7, <1>8, <2>1, <2>2, CallBalanced, Zenon
  <1>13. Listening(o, x, get')
    <2>1. Listening(o, obj[o], get)
      BY <1>4, Known, Zenon
    <2>2. \A h \in Getters : h # g =>
              /\ h \in x.listeners <=> h \in obj[o].listeners
              /\ get'[h] = get[h]
      BY <1>7, <1>11, Zenon
    <2>3. g \in x.listeners /\ get'[g].obj = o /\ get'[g].pc = "waiting" /\ get'[g].got = x.data
      BY <1>6, <1>7, <1>11, Zenon
    <2>. QED
      <3> SUFFICES ASSUME NEW h \in Getters
                   PROVE  /\ h \in x.listeners <=> get'[h].obj = o /\ get'[h].pc = "waiting"
                          /\ h \in x.listeners => get'[h].got = x.data
        BY Zenon DEF Listening
      <3>1. CASE h = g
        BY <2>3, <3>1, Zenon
      <3>2. CASE h # g
        BY <1>7, <2>1, <2>2, <3>2 DEF Listening
      <3>. QED
        BY <3>1, <3>2, Zenon
  <1>14. ASSUME Served(o, obj[o], get, reader[o])
         PROVE  Served(o, x, get', reader[o])
    <2>1. Settled(x, reader[o]) <=> Settled(obj[o], reader[o])
      BY <1>7, Zenon DEF Settled
    <2>2. get[g].pc \notin {"link", "move", "fetch"} /\ get'[g].pc \notin {"link", "move", "fetch"}
      BY <1>1, <1>6, <1>11, Zenon
    <2>. QED
      BY <1>3, <1>7, <1>11, <1>14, <2>1, <2>2, Zenon DEF Served
  <1>15. Counted(o, x, hash', get', reader[o], errors')
    BY <1>3, <1>4, <1>12, <1>13, <1>14 DEF Counted
  <1>16. reader' = [reader EXCEPT ![o] = reader[o]] /\ HashOK(o, hash, hash') /\ errors' \in BOOLEAN
    BY <1>3, <1>4, Zenon DEF IInv, Types, HashOK
  <1>. QED
    BY <1>3, <1>4, <1>7, <1>8, <1>10, <1>15, <1>16, OneObject, Zenon
-----------------------------------------------------------------------------
(* arc_ops_fetch *)

LEMMA FetchNothingOK ==
    ASSUME IInv, NEW g \in Getters, FetchNothing(g)
    PROVE  IInv'
  <1>1. get[g].pc = "fetch" /\ get[g].pc \in Holding \ {"waiting", "leaked"}
    BY Zenon DEF FetchNothing, Holding
  <1>2. PICK o : o = get[g].obj
    BY Zenon
  <1>3. PICK rc \in {0, 1} : Fetched(g, o, obj[o], get, rc)
    BY <1>2, Zenon DEF FetchNothing
  <1>4. obj[o].fetching \/ obj[o].data > 0
    BY <1>2, Zenon DEF FetchNothing
  <1>5. UNCHANGED <<owner, global, hash, reader, errors>>
    BY <1>3, Zenon DEF FetchNothing, Fetched
  <1>6. /\ get[g] \in GetCall /\ get \in [Getters -> GetCall] /\ o \in Objs
        /\ obj[o] \in Object /\ obj \in [Objs -> Object] /\ obj[o].refs # 0
        /\ reader[o] \in [Stages -> Nat] /\ (errors \/ Served(o, obj[o], get, reader[o]))
    BY <1>1, <1>2, Working, Zenon
  <1> DEFINE c == [get[g] EXCEPT !.pc = "link", !.rc = rc]
  <1>7. /\ c \in GetCall /\ c.obj = o /\ c.pc = "link"
        /\ c.finals = get[g].finals /\ c.got = get[g].got
    BY <1>2, <1>6, Zenon DEF GetCall, PCs, Holding
  <1>8. get' = [get EXCEPT ![g] = c] /\ obj' = Freed([obj EXCEPT ![o] = obj[o]])
    BY <1>3, <1>6, Zenon DEF Fetched
  <1> HIDE DEF c
  <1>9. errors \/ Settled(obj[o], reader[o])
    BY <1>4, <1>6, Zenon DEF Served
  <1>10. Alike(obj[o], obj[o])
    BY Zenon DEF Alike
  <1>11. errors \/ Served(o, obj[o], get', reader[o])
    BY <1>6, <1>7, <1>8, <1>9, <1>10, CallServed, Zenon
  <1>12. c.pc \in Holding \ {"waiting", "leaked"}
    BY <1>7, Zenon DEF Holding
  <1>. QED
    BY <1>1, <1>2, <1>5, <1>6, <1>7, <1>8, <1>10, <1>11, <1>12, HoldingStep, Zenon

LEMMA StartedType ==
    ASSUME NEW o \in Objs, obj[o] \in Object, NEW r, r = Started(o)
    PROVE  /\ r \in Object /\ r.refs = obj[o].refs /\ r.fetching = TRUE /\ r.evicted = FALSE
           /\ r.complete = obj[o].complete /\ r.data = obj[o].data /\ r.listeners = obj[o].listeners
  BY Zenon DEF Started, Object

LEMMA FetchFromPeerOK ==
    ASSUME IInv, NEW g \in Getters, FetchFromPeer(g)
    PROVE  IInv'
  <1>1. get[g].pc = "fetch" /\ get[g].pc \in Holding
    BY Zenon DEF FetchFromPeer, Holding
  <1>2. PICK o : o = get[g].obj
    BY Zenon
  <1>3. PICK drop \in BOOLEAN, rc \in {0, 1} :
            Fetched(g, o, [Started(o) EXCEPT !.refs = @ + 1, !.drop = drop], get, rc)
    BY <1>2, Zenon DEF FetchFromPeer
  <1>4. reader' = [reader EXCEPT ![o]["reading"] = @ + 1] /\ UNCHANGED errors
    BY <1>2, Zenon DEF FetchFromPeer
  <1>5. UNCHANGED <<owner, global, hash>>
    BY <1>3, Zenon DEF Fetched
  <1>6. /\ get[g] \in GetCall /\ get \in [Getters -> GetCall] /\ CallOK(get[g])
        /\ o \in Objs /\ obj[o] \in Object /\ obj \in [Objs -> Object] /\ obj[o].refs \in Nat
        /\ reader[o] \in [Stages -> Nat] /\ (errors \/ Served(o, obj[o], get, reader[o]))
        /\ reader \in [Objs -> [Stages -> Nat]] /\ errors \in BOOLEAN
        /\ \A h \in Getters : CallOK(get[h])
    BY <1>1, <1>2, Working, Zenon DEF IInv, Types
  <1> DEFINE c == [get[g] EXCEPT !.pc = "link", !.rc = rc]
             s == Started(o)
             x == [s EXCEPT !.refs = @ + 1, !.drop = drop]
             a == [reader[o] EXCEPT !["reading"] = @ + 1]
  <1>7. /\ c \in GetCall /\ c.obj = o /\ c.pc = "link"
        /\ c.finals = get[g].finals /\ c.got = get[g].got
    BY <1>2, <1>6, Zenon DEF GetCall, PCs, Holding
  <1>8. /\ s \in Object /\ s.refs = obj[o].refs /\ s.fetching = TRUE /\ s.evicted = FALSE
        /\ s.complete = obj[o].complete /\ s.data = obj[o].data /\ s.listeners = obj[o].listeners
    BY <1>6, StartedType, Zenon
  <1>9. get' = [get EXCEPT ![g] = c] /\ obj' = Freed([obj EXCEPT ![o] = x])
    BY <1>3, <1>6, Zenon DEF Fetched
  <1> HIDE DEF s
  <1>10. obj[o].refs + 1 \in Int
    BY <1>6
  <1>11. /\ x \in Object /\ x.refs = obj[o].refs + 1 /\ x.fetching = TRUE /\ x.evicted = FALSE
         /\ x.complete = obj[o].complete /\ x.data = obj[o].data /\ x.listeners = obj[o].listeners
    BY <1>8, <1>10, Zenon DEF Object
  <1>12. /\ a \in [Stages -> Nat] /\ a["reading"] = reader[o]["reading"] + 1
         /\ a["done"] = reader[o]["done"] /\ a["drop"] = reader[o]["drop"]
         /\ a["release"] = reader[o]["release"]
    BY <1>6 DEF Stages
  <1>13. reader' = [reader EXCEPT ![o] = a]
    BY <1>4, <1>6, Zenon
  <1> HIDE DEF c, x, a
  <1>14. CallsOK(o, get, get')
    <2>1. CallOK(c)
      BY <1>1, <1>2, <1>6, <1>7, Goes DEF Holding, Ended
    <2>. QED
      BY <1>2, <1>6, <1>7, <1>9, <2>1, OneCall, ZenonT(60)
  <1>15. Balanced(o, x, hash', get', a)
    <2>1. Answers(a) = Answers(reader[o]) + 1 /\ Answers(reader[o]) \in Nat
      <3>1. /\ reader[o]["reading"] \in Nat /\ reader[o]["done"] \in Nat
            /\ reader[o]["drop"] \in Nat /\ reader[o]["release"] \in Nat
        BY <1>6, AnswersNat, Zenon
      <3>. QED
        BY <1>12, <3>1 DEF Answers
    <2>2. Balanced(o, obj[o], hash, get, reader[o])
      BY <1>6, Known, Zenon
    <2>3. Users(o, get') = Users(o, get)
      BY <1>2, <1>6, <1>7, <1>9, UsersStay, ZenonT(60)
    <2>4. obj[o].refs = One(hash, o) + Cardinality(Users(o, get)) + Answers(reader[o])
      BY <2>2, Zenon DEF Balanced
    <2>5. x.refs = One(hash, o) + Cardinality(Users(o, get)) + Answers(a)
      BY <1>11, <2>1, <2>4, UsersFinite, OneNat
    <2>. QED
      BY <1>5, <2>3, <2>5, Zenon DEF Balanced
  <1>16. Listening(o, x, get')
    <2>1. Listening(o, obj[o], get)
      BY <1>6, Known, Zenon
    <2>. QED
      BY <1>1, <1>6, <1>7, <1>9, <1>11, <2>1, CallListening, Zenon
  <1>17. errors \/ Served(o, x, get', a)
    <2>1. a["reading"] > 0
      BY <1>6, <1>12, AnswersNat
    <2>2. errors \/ /\ x.complete => x.listeners = {}
                    /\ a["done"] > 0 \/ a["drop"] > 0 \/ a["release"] > 0 => x.complete
      BY <1>6, <1>11, <1>12, Zenon DEF Served
    <2>. QED
      BY <1>11, <2>1, <2>2, SettledServed, Zenon DEF Settled
  <1>18. Counted(o, x, hash', get', a, errors')
    BY <1>4, <1>15, <1>16, <1>17, Zenon DEF Counted
  <1>19. HashOK(o, hash, hash')
    BY <1>5, Zenon DEF HashOK
  <1>. QED
    BY <1>4, <1>5, <1>6, <1>9, <1>11, <1>12, <1>13, <1>14, <1>18, <1>19, OneObject, Zenon

(* The calls D have left o. *)
LeftBy(o, f, k, D) ==
    /\ CallsOK(o, f, k)
    /\ \A h \in Getters : h \notin D => k[h] = f[h]
    /\ \A h \in Getters : h \in D => k[h].obj = NoObj /\ k[h].pc # "waiting"
    /\ Cardinality(Users(o, k)) = Cardinality(Users(o, f)) - Cardinality(D)
    /\ Cardinality(D) \in Nat

(* All listeners of o are told the end. *)
LEMMA ToldAll ==
    ASSUME IInv, NEW o \in Objs, NEW chunks \in Nat, NEW deaf, NEW final \in {"ok", "error"},
           NEW k, k = Told(o, chunks, deaf, final)
    PROVE  LeftBy(o, get, k, obj[o].listeners)
  <1>1. /\ get \in [Getters -> GetCall] /\ Listening(o, obj[o], get) /\ obj[o] \in Object
        /\ \A h \in Getters : CallOK(get[h])
    BY Known, Zenon DEF IInv, Types
  <1>2. DOMAIN k = Getters /\ k = [h \in Getters |-> k[h]]
    BY Zenon DEF Told
  <1>3. \A h \in Getters : h \notin obj[o].listeners => k[h] = get[h]
    BY Zenon DEF Told
  <1>4. ASSUME NEW h \in Getters, h \in obj[o].listeners
        PROVE  /\ k[h] \in GetCall /\ CallOK(k[h])
               /\ k[h].obj = NoObj /\ k[h].pc # "waiting" /\ get[h].obj = o
    <2>1. /\ get[h] \in GetCall /\ get[h].pc = "waiting" /\ get[h].obj = o /\ get[h].finals = 0
          /\ get[h].got \in Nat
      BY <1>1, <1>4, Zenon DEF Listening, CallOK, Ended, GetCall
    <2>2. CASE h \in deaf
      <3>1. k[h] = Over(get[h], "gone")
        BY <1>4, <2>2, Zenon DEF Told
      <3>2. /\ k[h] \in GetCall /\ k[h].obj = NoObj /\ k[h].pc = "gone" /\ k[h].finals = 0
        BY <2>1, <3>1, OverType DEF PCs, Ended
      <3>. QED
        BY <2>1, <3>2, FetchNoObj DEF CallOK, Holding, Ended
    <2>3. CASE h \notin deaf
      <3> DEFINE b == [get[h] EXCEPT !.got = @ + chunks]
                 d == Over(b, final)
                 e == [d EXCEPT !.finals = @ + 1]
      <3>1. k[h] = e
        BY <1>4, <2>3, Zenon DEF Told
      <3>2. get[h].got + chunks \in Nat
        BY <2>1
      <3>3. b \in GetCall /\ b.finals = 0
        BY <2>1, <3>2, Zenon DEF GetCall
      <3> HIDE DEF b
      <3>4. d \in GetCall /\ d.obj = NoObj /\ d.pc = final /\ d.finals = 0
        BY <3>3, OverType DEF PCs, Ended
      <3> HIDE DEF d
      <3>5. d.finals + 1 = 1
        BY <3>4
      <3>6. e \in GetCall /\ e.obj = NoObj /\ e.pc = final /\ e.finals = 1
        BY <3>4, <3>5 DEF GetCall
      <3> HIDE DEF e
      <3>. QED
        BY <2>1, <3>1, <3>6, FetchNoObj DEF CallOK, Holding, Ended
    <2>. QED
      BY <2>2, <2>3, Zenon
  <1>5. CallsOK(o, get, k)
    <2>1. \A h \in Getters : k[h] \in GetCall /\ CallOK(k[h])
      BY <1>1, <1>3, <1>4, Zenon
    <2>2. Elsewhere(o, get, k)
      BY <1>3, <1>4, Zenon DEF Elsewhere
    <2>. QED
      BY <1>2, <2>1, <2>2, Zenon DEF CallsOK
  <1>6. obj[o].listeners \in SUBSET Users(o, get)
    BY <1>1, <1>4, Zenon DEF Users, Object
  <1>7. \A h \in Getters : k[h].obj = o <=> get[h].obj = o /\ h \notin obj[o].listeners
    BY <1>3, <1>4, FetchNoObj, Zenon
  <1>8. /\ Cardinality(Users(o, k)) = Cardinality(Users(o, get)) - Cardinality(obj[o].listeners)
        /\ Cardinality(obj[o].listeners) \in Nat
    <2>1. PICK f, D : f = get /\ D = obj[o].listeners
      BY Zenon
    <2>2. D \in SUBSET Users(o, f)
      BY <1>6, <2>1, Zenon
    <2>3. \A h \in Getters : k[h].obj = o <=> f[h].obj = o /\ h \notin D
      BY <1>7, <2>1, Zenon
    <2>4. Cardinality(Users(o, k)) = Cardinality(Users(o, f)) - Cardinality(D) /\ Cardinality(D) \in Nat
      BY <2>2, <2>3, UsersLeave
    <2>. QED
      BY <2>1, <2>4, Zenon
  <1>. QED
    BY <1>3, <1>4, <1>5, <1>8, Zenon DEF LeftBy

LEMMA LeftType ==
    ASSUME NEW o \in Objs, NEW r \in Object, Cardinality(obj[o].listeners) \in Nat,
           NEW x, x = Left(o, r)
    PROVE  /\ x \in Object /\ x.refs = r.refs - Cardinality(obj[o].listeners) /\ x.listeners = {}
           /\ x.fetching = r.fetching /\ x.evicted = r.evicted /\ x.complete = r.complete
  <1>1. r.refs - Cardinality(obj[o].listeners) \in Int
    BY DEF Object
  <1>. QED
    BY <1>1, Zenon DEF Left, Object

(* The thread that fetches the object tells the listeners how it ended. *)
LEMMA FetchEnds ==
    ASSUME IInv, NEW g \in Getters, NEW o, o = get[g].obj, NEW r \in Object, r.refs = obj[o].refs,
           NEW chunks \in Nat, NEW deaf, NEW final \in {"ok", "error"}, NEW rc \in {-1, 0, 1},
           Fetched(g, o, Left(o, r), Told(o, chunks, deaf, final), rc),
           r.complete = TRUE \/ r.complete = obj[o].complete,
           r.complete \/ (r.evicted /\ r.fetching) \/ errors',
           UNCHANGED reader, errors' \in BOOLEAN, errors => errors'
    PROVE  IInv'
  <1>1. get[g].pc = "fetch" /\ get[g].pc \in Holding
    BY Zenon DEF Fetched, Holding
  <1>2. /\ get[g] \in GetCall /\ get \in [Getters -> GetCall] /\ CallOK(get[g])
        /\ o \in Objs /\ obj[o] \in Object /\ obj \in [Objs -> Object] /\ obj[o].refs \in Nat
        /\ reader[o] \in [Stages -> Nat] /\ (errors \/ Served(o, obj[o], get, reader[o]))
        /\ reader \in [Objs -> [Stages -> Nat]] /\ Balanced(o, obj[o], hash, get, reader[o])
        /\ Listening(o, obj[o], get)
    BY <1>1, Working, Known, Zenon DEF IInv, Types
  <1> DEFINE k == Told(o, chunks, deaf, final)
             c == [get[g] EXCEPT !.pc = "link", !.rc = rc]
             x == Left(o, r)
  <1>3. /\ CallsOK(o, get, k)
        /\ \A h \in Getters : h \notin obj[o].listeners => k[h] = get[h]
        /\ \A h \in Getters : h \in obj[o].listeners => k[h].obj = NoObj /\ k[h].pc # "waiting"
        /\ Cardinality(Users(o, k)) = Cardinality(Users(o, get)) - Cardinality(obj[o].listeners)
        /\ Cardinality(obj[o].listeners) \in Nat
    <2>1. LeftBy(o, get, k, obj[o].listeners)
      BY <1>2, ToldAll, Zenon
    <2>. QED
      BY <2>1, Zenon DEF LeftBy
  <1>4. g \notin obj[o].listeners
    BY <1>1, <1>2, Zenon DEF Listening
  <1>5. /\ c \in GetCall /\ c.obj = o /\ c.pc = "link"
        /\ c.finals = get[g].finals /\ c.got = get[g].got
    BY <1>2, Zenon DEF GetCall, PCs, Holding
  <1>6. /\ x \in Object /\ x.refs = obj[o].refs - Cardinality(obj[o].listeners) /\ x.listeners = {}
        /\ x.fetching = r.fetching /\ x.evicted = r.evicted /\ x.complete = r.complete
    BY <1>2, <1>3, LeftType
  <1>7. k \in [Getters -> GetCall] /\ (\A h \in Getters : CallOK(k[h])) /\ k[g] = get[g]
    BY <1>3, <1>4, Zenon DEF CallsOK
  <1>8. obj' = Freed([obj EXCEPT ![o] = x]) /\ UNCHANGED <<owner, global, hash>>
    BY Zenon DEF Fetched
  <1>9. get' = [k EXCEPT ![g].pc = "link", ![g].rc = rc]
    BY Zenon DEF Fetched
  <1> HIDE DEF k, x
  <1>10. get' = [k EXCEPT ![g] = c]
    BY <1>7, <1>9, ZenonT(60)
  <1> HIDE DEF c
  <1>11. CallOK(c)
    BY <1>1, <1>2, <1>5, Goes, Zenon DEF Holding, Ended
  <1>12. /\ get' \in [Getters -> GetCall] /\ get'[g] = c /\ \A h \in Getters : h # g => get'[h] = k[h]
    BY <1>5, <1>7, <1>10, Zenon
  <1>13. CallsOK(o, get, get')
    <2>1. \A h \in Getters : CallOK(get'[h])
      BY <1>7, <1>11, <1>12, ZenonT(60)
    <2>2. Elsewhere(o, get, k)
      BY <1>3, Zenon DEF CallsOK
    <2>3. Elsewhere(o, get, get')
      <3>1. get[g].obj = o /\ get'[g].obj = o
        BY <1>5, <1>12, Zenon
      <3>. QED
        BY <1>12, <2>2, <3>1, Zenon DEF Elsewhere
    <2>. QED
      BY <1>12, <2>1, <2>3, Zenon DEF CallsOK
  <1>14. Balanced(o, x, hash', get', reader[o])
    <2>1. Users(o, get') = Users(o, k)
      BY <1>5, <1>7, <1>12, UsersStay, SMTT(60)
    <2>2. Balanced(o, x, hash, k, reader[o])
      <3>1. reader[o] \in [Stages -> Nat] /\ Balanced(o, obj[o], hash, get, reader[o])
        BY <1>2, Zenon
      <3>2. /\ Cardinality(obj[o].listeners) \in Nat /\ x.refs = obj[o].refs - Cardinality(obj[o].listeners)
            /\ Cardinality(Users(o, k)) = Cardinality(Users(o, get)) - Cardinality(obj[o].listeners)
        BY <1>3, <1>6, Zenon
      <3>. QED
        BY <3>1, <3>2, LeaveBalanced
    <2>. QED
      BY <1>8, <2>1, <2>2, ZenonT(60) DEF Balanced
  <1>15. Listening(o, x, get')
    <2>1. ASSUME NEW h \in Getters PROVE ~ (get'[h].obj = o /\ get'[h].pc = "waiting")
      <3>1. CASE h = g
        BY <1>5, <1>12, <3>1, Zenon
      <3>2. CASE h # g
        <4>1. get'[h] = k[h]
          BY <1>12, <3>2, Zenon
        <4>2. CASE h \in obj[o].listeners
          BY <1>3, <4>1, <4>2, Zenon
        <4>3. CASE h \notin obj[o].listeners
          BY <1>2, <1>3, <4>1, <4>3, ZenonT(60) DEF Listening
        <4>. QED
          BY <4>2, <4>3, Zenon
      <3>. QED
        BY <3>1, <3>2, Zenon
    <2>. QED
      BY <1>6, <2>1, Zenon DEF Listening
  <1>16. errors' \/ Served(o, x, get', reader[o])
    <2>1. errors \/ /\ reader[o]["done"] > 0 \/ reader[o]["drop"] > 0 \/ reader[o]["release"] > 0
                       => x.complete
      BY <1>2, <1>6, ZenonT(60) DEF Served
    <2>2. errors' \/ (x.complete \/ (x.evicted /\ x.fetching))
      BY <1>6, Zenon
    <2>3. errors' \/ Settled(x, reader[o])
      BY <2>2, Zenon DEF Settled
    <2>. QED
      BY <1>6, <2>1, <2>2, <2>3, SettledServed, Zenon
  <1>17. Counted(o, x, hash', get', reader[o], errors')
    BY <1>14, <1>15, <1>16, Zenon DEF Counted
  <1>18. HashOK(o, hash, hash') /\ reader' = [reader EXCEPT ![o] = reader[o]]
    BY <1>2, <1>8, Zenon DEF HashOK
  <1>. QED
    BY <1>2, <1>6, <1>8, <1>13, <1>17, <1>18, OneObject, Zenon

LEMMA FetchRefusedOK ==
    ASSUME IInv, NEW g \in Getters, FetchRefused(g)
    PROVE  IInv'
  <1>1. PICK o : o = get[g].obj
    BY Zenon
  <1>2. /\ get[g].pc = "fetch" /\ UNCHANGED <<reader, errors>>
        /\ Fetched(g, o, Left(o, [Started(o) EXCEPT !.evicted = TRUE]), Told(o, 0, {}, "error"), -1)
    BY <1>1, Zenon DEF FetchRefused
  <1>3. o \in Objs /\ obj[o] \in Object /\ errors \in BOOLEAN
    BY <1>1, <1>2, Working, Zenon DEF Holding, IInv, Types
  <1> DEFINE s == Started(o)
             r == [s EXCEPT !.evicted = TRUE]
  <1>4. s \in Object /\ s.refs = obj[o].refs /\ s.fetching = TRUE /\ s.complete = obj[o].complete
    BY <1>3, StartedType, Zenon
  <1>5. Fetched(g, o, Left(o, r), Told(o, 0, {}, "error"), -1)
    BY <1>2, Zenon
  <1> HIDE DEF s
  <1>6. /\ r \in Object /\ r.refs = obj[o].refs /\ r.fetching = TRUE /\ r.evicted = TRUE
        /\ r.complete = obj[o].complete
    BY <1>4, Zenon DEF Object
  <1> HIDE DEF r
  <1>. QED
    BY <1>1, <1>2, <1>3, <1>5, <1>6, FetchEnds, Zenon

LEMMA FetchLocalOK ==
    ASSUME IInv, NEW g \in Getters, FetchLocal(g)
    PROVE  IInv'
  <1>1. PICK o : o = get[g].obj
    BY Zenon
  <1> DEFINE s == Started(o)
             r == [s EXCEPT !.complete = TRUE, !.fetching = FALSE, !.data = 1]
  <1>2. get[g].pc = "fetch" /\ UNCHANGED <<reader, errors>>
    BY Zenon DEF FetchLocal
  <1>3. PICK deaf \in Deaf(o), big \in {0, 1} :
            Fetched(g, o, Left(o, r), Told(o, 1, deaf, "ok"), big)
    BY <1>1, Zenon DEF FetchLocal
  <1>4. o \in Objs /\ obj[o] \in Object /\ errors \in BOOLEAN
    BY <1>1, <1>2, Working, Zenon DEF Holding, IInv, Types
  <1>5. s \in Object /\ s.refs = obj[o].refs
    BY <1>4, StartedType, Zenon
  <1> HIDE DEF s
  <1>6. r \in Object /\ r.refs = obj[o].refs /\ r.complete = TRUE
    BY <1>5, Zenon DEF Object
  <1> HIDE DEF r
  <1>. QED
    BY <1>1, <1>2, <1>3, <1>4, <1>6, FetchEnds, Zenon

LEMMA FetchNotFoundOK ==
    ASSUME IInv, NEW g \in Getters, FetchNotFound(g)
    PROVE  IInv'
  <1>1. PICK o : o = get[g].obj
    BY Zenon
  <1> DEFINE s == Started(o)
             r == [s EXCEPT !.complete = TRUE, !.fetching = FALSE]
  <1>2. /\ get[g].pc = "fetch" /\ UNCHANGED <<reader, errors>>
        /\ Fetched(g, o, Left(o, r), Told(o, 0, {}, "ok"), 1)
    BY <1>1, Zenon DEF FetchNotFound
  <1>3. o \in Objs /\ obj[o] \in Object /\ errors \in BOOLEAN
    BY <1>1, <1>2, Working, Zenon DEF Holding, IInv, Types
  <1>4. s \in Object /\ s.refs = obj[o].refs
    BY <1>3, StartedType, Zenon
  <1> HIDE DEF s
  <1>5. r \in Object /\ r.refs = obj[o].refs /\ r.complete = TRUE
    BY <1>4, Zenon DEF Object
  <1> HIDE DEF r
  <1>. QED
    BY <1>1, <1>2, <1>3, <1>5, FetchEnds, Zenon

LEMMA FetchStorageErrorOK ==
    ASSUME IInv, NEW g \in Getters, FetchStorageError(g)
    PROVE  IInv'
  <1>1. PICK o : o = get[g].obj
    BY Zenon
  <1> DEFINE s == Started(o)
             r == [s EXCEPT !.fetching = FALSE, !.drop = TRUE]
  <1>2. /\ get[g].pc = "fetch" /\ UNCHANGED reader /\ errors' = TRUE
        /\ Fetched(g, o, Left(o, r), Told(o, 0, {}, "error"), -1)
    BY <1>1, Zenon DEF FetchStorageError
  <1>3. o \in Objs /\ obj[o] \in Object
    BY <1>1, <1>2, Working, Zenon DEF Holding
  <1>4. s \in Object /\ s.refs = obj[o].refs /\ s.complete = obj[o].complete
    BY <1>3, StartedType, Zenon
  <1> HIDE DEF s
  <1>5. r \in Object /\ r.refs = obj[o].refs /\ r.complete = obj[o].complete
    BY <1>4, Zenon DEF Object
  <1> HIDE DEF r
  <1>. QED
    BY <1>1, <1>2, <1>5, FetchEnds, Zenon
-----------------------------------------------------------------------------
(* The async reader, and arc_remove *)

(* No call changes. *)
LEMMA ObjectStep ==
    ASSUME IInv, NEW o \in Objs, NEW x \in Object, NEW a \in [Stages -> Nat],
           \/ obj' = Freed([obj EXCEPT ![o] = x])
           \/ x.refs # 0 /\ obj' = [obj EXCEPT ![o] = x],
           reader' = [reader EXCEPT ![o] = a], HashOK(o, hash, hash'),
           UNCHANGED <<owner, global, get, errors>>,
           x.listeners = obj[o].listeners, x.data = obj[o].data,
           x.refs = obj[o].refs + Answers(a) - Answers(reader[o]) + One(hash', o) - One(hash, o),
           errors \/ Served(o, x, get, a)
    PROVE  IInv'
  <1>1. /\ obj[o] \in Object /\ reader[o] \in [Stages -> Nat] /\ errors \in BOOLEAN
        /\ Balanced(o, obj[o], hash, get, reader[o]) /\ Listening(o, obj[o], get)
        /\ get \in [Getters -> GetCall] /\ \A h \in Getters : CallOK(get[h])
    BY Known, Zenon DEF IInv, Types
  <1>2. Balanced(o, x, hash', get, a)
    <2>1. obj[o].refs = One(hash, o) + Cardinality(Users(o, get)) + Answers(reader[o])
      BY <1>1, Zenon DEF Balanced
    <2>2. One(hash, o) \in Int /\ One(hash', o) \in Int
      BY OneNat, SMTT(60)
    <2>3. Answers(reader[o]) \in Int /\ Answers(a) \in Int
      BY <1>1, AnswersNat
    <2>4. Cardinality(Users(o, get)) \in Int
      BY UsersFinite
    <2>5. x.refs = One(hash', o) + Cardinality(Users(o, get)) + Answers(a)
      BY <2>1, <2>2, <2>3, <2>4
    <2>. QED
      BY <2>5, Zenon DEF Balanced
  <1>3. Listening(o, x, get)
    BY <1>1, Zenon DEF Listening
  <1>4. CallsOK(o, get, get')
    BY <1>1, Zenon DEF CallsOK, Elsewhere
  <1>5. Counted(o, x, hash', get', a, errors')
    BY <1>2, <1>3, Zenon DEF Counted
  <1>. QED
    BY <1>1, <1>4, <1>5, OneObject, Zenon

(* An answer goes from one stage to the next. *)
LEMMA AnswersShift ==
    ASSUME NEW a \in [Stages -> Nat], NEW b \in [Stages -> Nat],
           NEW s \in {"reading", "done"}, NEW t \in {"done", "drop", "release"}, s # t,
           a[s] = b[s] - 1, a[t] = b[t] + 1, \A u \in Stages : u \notin {s, t} => a[u] = b[u]
    PROVE  Answers(a) = Answers(b)
  <1>1. /\ \A u \in Stages : b[u] \in Nat /\ a[u] \in Nat
        /\ "reading" \in Stages /\ "done" \in Stages /\ "drop" \in Stages /\ "release" \in Stages
    BY Zenon DEF Stages
  <1>2. CASE s = "reading" /\ t = "done"
    BY <1>1, <1>2 DEF Answers
  <1>3. CASE s = "reading" /\ t = "drop"
    BY <1>1, <1>3 DEF Answers
  <1>4. CASE s = "reading" /\ t = "release"
    BY <1>1, <1>4 DEF Answers
  <1>5. CASE s = "done" /\ t = "drop"
    BY <1>1, <1>5 DEF Answers
  <1>6. CASE s = "done" /\ t = "release"
    BY <1>1, <1>6 DEF Answers
  <1>. QED
    BY <1>2, <1>3, <1>4, <1>5, <1>6, Zenon

LEMMA StageType ==
    ASSUME reader \in [Objs -> [Stages -> Nat]], NEW o \in Objs,
           NEW s \in {"reading", "done"}, NEW t \in {"done", "drop", "release"}, s # t,
           At(o, s), Stage(o, s, t)
    PROVE  \E a \in [Stages -> Nat] : /\ reader' = [reader EXCEPT ![o] = a]
                                      /\ Answers(a) = Answers(reader[o])
  <1> DEFINE a == [reader[o] EXCEPT ![s] = @ - 1, ![t] = @ + 1]
  <1>1. reader[o] \in [Stages -> Nat] /\ reader[o][s] \in Nat /\ reader[o][s] > 0
    BY Zenon DEF At, Stages
  <1>2. s \in Stages /\ t \in Stages /\ reader[o][s] - 1 \in Nat /\ reader[o][t] + 1 \in Nat
    BY <1>1 DEF Stages
  <1>3. a \in [Stages -> Nat] /\ a[s] = reader[o][s] - 1 /\ a[t] = reader[o][t] + 1
        /\ \A u \in Stages : u \notin {s, t} => a[u] = reader[o][u]
    BY <1>1, <1>2, Zenon
  <1>4. reader' = [reader EXCEPT ![o] = a]
    BY <1>1, <1>2, Zenon DEF Stage
  <1> HIDE DEF a
  <1>5. Answers(a) = Answers(reader[o])
    BY <1>1, <1>3, AnswersShift
  <1>. QED
    BY <1>3, <1>4, <1>5, Zenon

(* An answer is over. *)
LEMMA EndsType ==
    ASSUME reader \in [Objs -> [Stages -> Nat]], NEW o \in Objs, NEW s \in {"drop", "release"},
           At(o, s), ReaderEnds(o, s), NEW a, a = [reader[o] EXCEPT ![s] = @ - 1]
    PROVE  /\ a \in [Stages -> Nat] /\ reader' = [reader EXCEPT ![o] = a]
           /\ Answers(a) = Answers(reader[o]) - 1
           /\ a["reading"] = reader[o]["reading"]
  <1>1. reader[o] \in [Stages -> Nat] /\ reader[o][s] \in Nat /\ reader[o][s] > 0
    BY Zenon DEF At, Stages
  <1>2. s \in Stages /\ reader[o][s] - 1 \in Nat
    BY <1>1 DEF Stages
  <1>3. a \in [Stages -> Nat] /\ a[s] = reader[o][s] - 1
        /\ \A u \in Stages : u # s => a[u] = reader[o][u]
    BY <1>1, <1>2, Zenon
  <1>4. reader' = [reader EXCEPT ![o] = a]
    BY <1>1, <1>2, Zenon DEF ReaderEnds
  <1>5. Answers(a) = Answers(reader[o]) - 1 /\ a["reading"] = reader[o]["reading"]
    BY <1>1, <1>3, AnswersNat DEF Answers, Stages
  <1>. QED
    BY <1>3, <1>4, <1>5, Zenon

(* Until an answer has ended the reader keeps the object. *)
LEMMA ReaderKeeps ==
    ASSUME IInv, NEW o \in Objs, NEW s \in Stages, At(o, s)
    PROVE  /\ obj[o] \in Object /\ obj \in [Objs -> Object] /\ reader \in [Objs -> [Stages -> Nat]]
           /\ obj[o].refs \in Nat /\ obj[o].refs # 0 /\ errors \in BOOLEAN
           /\ errors \/ Served(o, obj[o], get, reader[o])
  <1>1. Answers(reader[o]) > 0
    <2>1. reader[o] \in [Stages -> Nat] /\ reader[o][s] > 0
      BY Known, Zenon DEF At
    <2>. QED
      BY <2>1, AnswersNat DEF Answers, Stages
  <1>. QED
    BY <1>1, Known, Zenon DEF IInv, Types

LEMMA CompleteServed ==
    ASSUME NEW o, NEW x, NEW f, NEW a, x.complete, x.listeners = {}
    PROVE  Served(o, x, f, a)
  BY SettledServed, Zenon DEF Settled

LEMMA ReadCloseOK ==
    ASSUME IInv, NEW o \in Objs, ReadClose(o)
    PROVE  IInv'
  <1>1. At(o, "done") /\ UNCHANGED <<owner, global, hash, get, errors>>
    BY Zenon DEF ReadClose
  <1>2. PICK t \in {"drop", "release"} : Stage(o, "done", t)
    BY Zenon DEF ReadClose
  <1>3. /\ obj[o] \in Object /\ obj \in [Objs -> Object] /\ reader \in [Objs -> [Stages -> Nat]]
        /\ obj[o].refs \in Nat /\ obj[o].refs # 0 /\ (errors \/ Served(o, obj[o], get, reader[o]))
    BY <1>1, ReaderKeeps, Zenon DEF Stages
  <1>4. PICK a \in [Stages -> Nat] : /\ reader' = [reader EXCEPT ![o] = a]
                                     /\ Answers(a) = Answers(reader[o])
    BY <1>1, <1>2, <1>3, StageType, Zenon
  <1> DEFINE x == [obj[o] EXCEPT !.fetching = FALSE]
  <1>5. /\ x \in Object /\ x.refs = obj[o].refs /\ x.complete = obj[o].complete
        /\ x.listeners = obj[o].listeners /\ x.data = obj[o].data
    BY <1>3, Zenon DEF Object
  <1>6. obj' = [obj EXCEPT ![o] = x]
    BY <1>3, Zenon DEF ReadClose
  <1> HIDE DEF x
  <1>7. errors \/ (x.complete /\ x.listeners = {})
    BY <1>1, <1>3, <1>5, Zenon DEF Served, At
  <1>8. errors \/ Served(o, x, get, a)
    BY <1>7, CompleteServed, Zenon
  <1>9. x.refs = obj[o].refs + Answers(a) - Answers(reader[o]) + One(hash', o) - One(hash, o)
    <2>1. Answers(a) \in Nat
      BY <1>4, AnswersNat, Zenon
    <2>. QED
      BY <1>1, <1>3, <1>4, <1>5, <2>1, OneNat
  <1>10. HashOK(o, hash, hash') /\ x.refs # 0
    BY <1>1, <1>3, <1>5, Zenon DEF HashOK
  <1>. QED
    BY <1>1, <1>4, <1>5, <1>6, <1>8, <1>9, <1>10, ObjectStep, Zenon

LEMMA ReadReleaseOK ==
    ASSUME IInv, NEW o \in Objs, ReadRelease(o)
    PROVE  IInv'
  <1>1. At(o, "release") /\ UNCHANGED <<owner, global, hash, get, errors>> /\ ReaderEnds(o, "release")
    BY Zenon DEF ReadRelease
  <1>2. /\ obj[o] \in Object /\ obj \in [Objs -> Object] /\ reader \in [Objs -> [Stages -> Nat]]
        /\ obj[o].refs \in Nat /\ obj[o].refs # 0 /\ (errors \/ Served(o, obj[o], get, reader[o]))
    BY <1>1, ReaderKeeps, Zenon DEF Stages
  <1> DEFINE a == [reader[o] EXCEPT !["release"] = @ - 1]
             x == [obj[o] EXCEPT !.refs = @ - 1]
  <1>3. /\ a \in [Stages -> Nat] /\ reader' = [reader EXCEPT ![o] = a]
        /\ Answers(a) = Answers(reader[o]) - 1
    BY <1>1, <1>2, EndsType, Zenon
  <1>4. /\ x \in Object /\ x.refs = obj[o].refs - 1 /\ x.complete = obj[o].complete
        /\ x.listeners = obj[o].listeners /\ x.data = obj[o].data
    <2>1. obj[o].refs - 1 \in Int
      BY <1>2
    <2>. QED
      BY <1>2, <2>1, Zenon DEF Object
  <1>5. obj' = Freed([obj EXCEPT ![o] = x])
    BY <1>2, Zenon DEF ReadRelease, Released
  <1> HIDE DEF a, x
  <1>6. errors \/ (x.complete /\ x.listeners = {})
    BY <1>1, <1>2, <1>4, Zenon DEF Served, At
  <1>7. errors \/ Served(o, x, get, a)
    BY <1>6, CompleteServed, Zenon
  <1>8. x.refs = obj[o].refs + Answers(a) - Answers(reader[o]) + One(hash', o) - One(hash, o)
    <2>1. Answers(reader[o]) \in Nat
      BY <1>2, AnswersNat, Zenon
    <2>. QED
      BY <1>1, <1>2, <1>3, <1>4, <2>1, OneNat
  <1>9. HashOK(o, hash, hash')
    BY <1>1, Zenon DEF HashOK
  <1>. QED
    BY <1>1, <1>3, <1>4, <1>5, <1>7, <1>8, <1>9, ObjectStep, ZenonT(60)

LEMMA ReadDropOK ==
    ASSUME IInv, NEW o \in Objs, ReadDrop(o)
    PROVE  IInv'
  <1>1. At(o, "drop") /\ UNCHANGED <<owner, global, get, errors>> /\ ReaderEnds(o, "drop")
    BY Zenon DEF ReadDrop
  <1>2. /\ obj[o] \in Object /\ obj \in [Objs -> Object] /\ reader \in [Objs -> [Stages -> Nat]]
        /\ obj[o].refs \in Nat /\ obj[o].refs # 0 /\ (errors \/ Served(o, obj[o], get, reader[o]))
    BY <1>1, ReaderKeeps, Zenon DEF Stages
  <1> DEFINE a == [reader[o] EXCEPT !["drop"] = @ - 1]
             x == Dropped(o, obj[o])
  <1>3. /\ a \in [Stages -> Nat] /\ reader' = [reader EXCEPT ![o] = a]
        /\ Answers(a) = Answers(reader[o]) - 1
    BY <1>1, <1>2, EndsType, ZenonT(60)
  <1>4. /\ x \in Object /\ x.refs = obj[o].refs - 1 + One(hash', o) - One(hash, o)
        /\ x.complete = obj[o].complete /\ x.listeners = obj[o].listeners /\ x.data = obj[o].data
    <2>1. CASE obj[o].locked
      <3>1. obj[o].refs - 1 \in Int /\ hash' = hash
        BY <1>2, <2>1 DEF ReadDrop, DropHash
      <3>2. x = [obj[o] EXCEPT !.refs = obj[o].refs - 1]
        BY <2>1, Zenon DEF Dropped
      <3> HIDE DEF x
      <3>3. /\ x \in Object /\ x.refs = obj[o].refs - 1
            /\ x.complete = obj[o].complete /\ x.listeners = obj[o].listeners /\ x.data = obj[o].data
        BY <1>2, <3>1, <3>2, Zenon DEF Object
      <3>. QED
        BY <1>2, <3>1, <3>3, OneNat
    <2>2. CASE ~ obj[o].locked
      <3>1. obj[o].refs - 1 - Unhashed(o) \in Int /\ Unhashed(o) = One(hash, o)
        BY <1>2 DEF Unhashed, One
      <3>2. x = [obj[o] EXCEPT !.refs = obj[o].refs - 1 - Unhashed(o), !.listed = FALSE]
        BY <2>2, Zenon DEF Dropped
      <3> HIDE DEF x
      <3>3. /\ x \in Object /\ x.refs = obj[o].refs - 1 - Unhashed(o)
            /\ x.complete = obj[o].complete /\ x.listeners = obj[o].listeners /\ x.data = obj[o].data
        BY <1>2, <3>1, <3>2, ZenonT(60) DEF Object
      <3>4. One(hash', o) = 0
        BY <2>2, FetchNoObj, Zenon DEF ReadDrop, DropHash, HashDelete, One
      <3>. QED
        BY <1>2, <3>1, <3>3, <3>4, OneNat
    <2>. QED
      BY <2>1, <2>2, Zenon
  <1>5. obj' = Freed([obj EXCEPT ![o] = x])
    BY Zenon DEF ReadDrop
  <1> HIDE DEF a, x
  <1>6. errors \/ (x.complete /\ x.listeners = {})
    BY <1>1, <1>2, <1>4, Zenon DEF Served, At
  <1>7. errors \/ Served(o, x, get, a)
    BY <1>6, CompleteServed, Zenon
  <1>8. x.refs = obj[o].refs + Answers(a) - Answers(reader[o]) + One(hash', o) - One(hash, o)
    <2>1. Answers(reader[o]) \in Nat
      BY <1>2, AnswersNat, Zenon
    <2>. QED
      BY <1>2, <1>3, <1>4, <2>1, OneNat
  <1>9. HashOK(o, hash, hash')
    BY Zenon DEF HashOK, ReadDrop, DropHash, HashDelete
  <1>. QED
    BY <1>1, <1>3, <1>4, <1>5, <1>7, <1>8, <1>9, ObjectStep, Zenon

LEMMA RemoveOK ==
    ASSUME IInv, Remove
    PROVE  IInv'
  <1>1. PICK o \in Objs : o = hash
    BY Zenon DEF Remove, IInv, Types
  <1>2. hash' = NoObj /\ UNCHANGED <<owner, global, reader, get, errors>>
    BY Zenon DEF Remove
  <1>3. /\ obj[o] \in Object /\ obj \in [Objs -> Object] /\ reader[o] \in [Stages -> Nat]
        /\ reader \in [Objs -> [Stages -> Nat]] /\ obj[o].refs \in Nat /\ obj[o].refs # 0
        /\ (errors \/ Served(o, obj[o], get, reader[o]))
    BY <1>1, Known, Zenon DEF IInv, Types
  <1> DEFINE x == [obj[o] EXCEPT !.refs = @ - 1, !.listed = FALSE]
  <1>4. /\ x \in Object /\ x.refs = obj[o].refs - 1 /\ Alike(obj[o], x) /\ x.listed = FALSE
    <2>1. obj[o].refs - 1 \in Int
      BY <1>3
    <2>. QED
      BY <1>3, <2>1, Zenon DEF Object, Alike
  <1>5. obj' = Freed([obj EXCEPT ![o] = x])
    BY <1>1, <1>3, ZenonT(60) DEF Remove
  <1> HIDE DEF x
  <1>6. errors \/ Served(o, x, get, reader[o])
    <2>1. Settled(x, reader[o]) <=> Settled(obj[o], reader[o])
      BY <1>4, Zenon DEF Settled, Alike
    <2>. QED
      BY <1>3, <1>4, <2>1, Zenon DEF Served, Alike
  <1>7. x.refs = obj[o].refs + Answers(reader[o]) - Answers(reader[o]) + One(hash', o) - One(hash, o)
    <2>1. Answers(reader[o]) \in Nat
      BY <1>3, AnswersNat, Zenon
    <2>. QED
      BY <1>1, <1>2, <1>3, <1>4, <2>1, FetchNoObj DEF One
  <1>8. HashOK(o, hash, hash') /\ reader' = [reader EXCEPT ![o] = reader[o]]
    BY <1>1, <1>2, <1>3, Zenon DEF HashOK
  <1>9. x.listeners = obj[o].listeners /\ x.data = obj[o].data
    BY <1>4, Zenon DEF Alike
  <1>. QED
    BY <1>2, <1>3, <1>4, <1>5, <1>6, <1>7, <1>8, <1>9, ObjectStep, Zenon

(* An answer ends, and the listeners are told. *)
LEMMA ReadEnds ==
    ASSUME IInv, NEW o \in Objs, At(o, "reading"), NEW t \in {"done", "drop"},
           Stage(o, "reading", t), NEW r \in Object, r.refs = obj[o].refs,
           NEW final \in {"ok", "error"}, get' = Told(o, 0, {}, final),
           obj' = Freed([obj EXCEPT ![o] = Left(o, r)]),
           r.complete \/ errors', errors' \in BOOLEAN, errors => errors',
           UNCHANGED <<owner, global, hash>>
    PROVE  IInv'
  <1>1. /\ obj[o] \in Object /\ reader \in [Objs -> [Stages -> Nat]] /\ obj[o].refs \in Nat
        /\ reader[o] \in [Stages -> Nat] /\ get \in [Getters -> GetCall]
        /\ Balanced(o, obj[o], hash, get, reader[o]) /\ Listening(o, obj[o], get)
    BY Known, Zenon DEF IInv, Types
  <1>2. PICK a \in [Stages -> Nat] : /\ reader' = [reader EXCEPT ![o] = a]
                                     /\ Answers(a) = Answers(reader[o])
    BY <1>1, StageType, Zenon
  <1>3. LeftBy(o, get, get', obj[o].listeners)
    BY ToldAll, Zenon
  <1>4. PICK x : x = Left(o, r)
    BY Zenon
  <1>5. Cardinality(obj[o].listeners) \in Nat
    BY <1>3, Zenon DEF LeftBy
  <1>6. /\ x \in Object /\ x.refs = obj[o].refs - Cardinality(obj[o].listeners) /\ x.listeners = {}
        /\ x.complete = r.complete
    BY <1>4, <1>5, LeftType
  <1>7. Balanced(o, x, hash', get', a)
    <2>1. Cardinality(Users(o, get')) = Cardinality(Users(o, get)) - Cardinality(obj[o].listeners)
      BY <1>3, Zenon DEF LeftBy
    <2>2. reader[o] \in [Stages -> Nat] /\ Balanced(o, obj[o], hash, get, reader[o])
      BY <1>1, Zenon
    <2>3. x.refs = obj[o].refs - Cardinality(obj[o].listeners)
      BY <1>6, Zenon
    <2>4. Balanced(o, x, hash, get', a)
      BY <1>2, <1>5, <2>1, <2>2, <2>3, LeaveBalanced, SMTT(60)
    <2>. QED
      BY <2>4, ZenonT(60) DEF Balanced
  <1>8. Listening(o, x, get')
    <2>1. ASSUME NEW h \in Getters PROVE ~ (get'[h].obj = o /\ get'[h].pc = "waiting")
      BY <1>1, <1>3, FetchNoObj, Zenon DEF Listening, LeftBy
    <2>. QED
      BY <1>6, <2>1, Zenon DEF Listening
  <1>9. errors' \/ Served(o, x, get', a)
    BY <1>6, CompleteServed, Zenon
  <1>10. Counted(o, x, hash', get', a, errors')
    BY <1>7, <1>8, <1>9 DEF Counted
  <1>11. HashOK(o, hash, hash') /\ CallsOK(o, get, get') /\ obj' = Freed([obj EXCEPT ![o] = x])
    BY <1>3, <1>4, Zenon DEF HashOK, LeftBy
  <1>. QED
    BY <1>2, <1>6, <1>10, <1>11, OneObject, ZenonT(60)

LEMMA ReadDoneOK ==
    ASSUME IInv, NEW o \in Objs, ReadDone(o)
    PROVE  IInv'
  <1> DEFINE r == [obj[o] EXCEPT !.complete = TRUE, !.fetching = FALSE,
                                 !.drop = obj[o].drop \/ obj[o].data = 0]
  <1>1. /\ At(o, "reading") /\ get' = Told(o, 0, {}, "ok") /\ Stage(o, "reading", "done")
        /\ obj' = Freed([obj EXCEPT ![o] = Left(o, r)]) /\ UNCHANGED <<owner, global, hash, errors>>
    BY Zenon DEF ReadDone
  <1>2. obj[o] \in Object /\ errors \in BOOLEAN
    BY Known, Zenon DEF IInv, Types
  <1>3. (obj[o].drop \/ obj[o].data = 0) \in BOOLEAN
    BY Zenon
  <1>4. r \in Object /\ r.refs = obj[o].refs /\ r.complete = TRUE
    BY <1>2, <1>3, Zenon DEF Object
  <1> HIDE DEF r
  <1>. QED
    BY <1>1, <1>2, <1>4, ReadEnds, Zenon

LEMMA ReadErrorOK ==
    ASSUME IInv, NEW o \in Objs, ReadError(o)
    PROVE  IInv'
  <1> DEFINE r == [obj[o] EXCEPT !.fetching = FALSE]
  <1>1. /\ At(o, "reading") /\ get' = Told(o, 0, {}, "error") /\ Stage(o, "reading", "drop")
        /\ obj' = Freed([obj EXCEPT ![o] = Left(o, r)]) /\ UNCHANGED <<owner, global, hash>>
        /\ errors' = TRUE
    BY Zenon DEF ReadError
  <1>2. r \in Object /\ r.refs = obj[o].refs
    BY Known, ZenonT(60) DEF Object
  <1> HIDE DEF r
  <1>. QED
    BY <1>1, <1>2, ReadEnds, Zenon

(* The listeners that are not deaf are told a chunk. *)
LEMMA ToldChunk ==
    ASSUME IInv, NEW o \in Objs, NEW deaf \in SUBSET obj[o].listeners,
           NEW k, k = Told(o, 1, deaf, "none")
    PROVE  /\ CallsOK(o, get, k)
           /\ \A h \in Getters : h \notin obj[o].listeners => k[h] = get[h]
           /\ \A h \in Getters : h \in obj[o].listeners /\ h \notin deaf =>
                  k[h].pc = "waiting" /\ k[h].obj = o /\ k[h].got = get[h].got + 1
           /\ \A h \in Getters : h \in deaf => k[h].obj = NoObj
  <1>1. /\ get \in [Getters -> GetCall] /\ Listening(o, obj[o], get) /\ obj[o] \in Object
        /\ \A h \in Getters : CallOK(get[h])
    BY Known, Zenon DEF IInv, Types
  <1>2. DOMAIN k = Getters /\ k = [h \in Getters |-> k[h]]
    BY Zenon DEF Told
  <1>3. \A h \in Getters : h \notin obj[o].listeners => k[h] = get[h]
    BY Zenon DEF Told
  <1>4. ASSUME NEW h \in Getters, h \in obj[o].listeners
        PROVE  /\ get[h] \in GetCall /\ get[h].pc = "waiting" /\ get[h].obj = o /\ get[h].finals = 0
               /\ get[h].got \in Nat
    BY <1>1, <1>4, Zenon DEF Listening, CallOK, Ended, GetCall
  <1>5. ASSUME NEW h \in Getters, h \in deaf
        PROVE  k[h] \in GetCall /\ CallOK(k[h]) /\ k[h].obj = NoObj
    <2>1. k[h] = Over(get[h], "gone")
      BY <1>5, Zenon DEF Told
    <2>2. k[h] \in GetCall /\ k[h].obj = NoObj /\ k[h].pc = "gone" /\ k[h].finals = 0
      BY <1>4, <1>5, <2>1, OverType, SMTT(60) DEF PCs, Ended
    <2>. QED
      BY <2>2, FetchNoObj DEF CallOK, Holding, Ended
  <1>6. ASSUME NEW h \in Getters, h \in obj[o].listeners, h \notin deaf
        PROVE  /\ k[h] \in GetCall /\ CallOK(k[h]) /\ k[h].obj = o /\ k[h].pc = "waiting"
               /\ k[h].got = get[h].got + 1
    <2>1. k[h] = [get[h] EXCEPT !.got = get[h].got + 1]
      BY <1>6, Zenon DEF Told
    <2>2. get[h].got + 1 \in Nat
      BY <1>4, <1>6
    <2>3. /\ k[h] \in GetCall /\ k[h].obj = o /\ k[h].pc = "waiting" /\ k[h].finals = 0
          /\ k[h].got = get[h].got + 1
      BY <1>4, <1>6, <2>1, <2>2, Zenon DEF GetCall
    <2>. QED
      BY <2>3 DEF CallOK, Holding, Ended
  <1>7. \A h \in Getters : k[h] \in GetCall /\ CallOK(k[h])
    BY <1>1, <1>3, <1>5, <1>6, Zenon
  <1>8. Elsewhere(o, get, k)
    BY <1>3, <1>4, <1>5, <1>6, Zenon DEF Elsewhere
  <1>9. CallsOK(o, get, k)
    BY <1>2, <1>7, <1>8, Zenon DEF CallsOK
  <1>. QED
    BY <1>3, <1>5, <1>6, <1>9, Zenon

LEMMA ReadChunkOK ==
    ASSUME IInv, NEW o \in Objs, ReadChunk(o)
    PROVE  IInv'
  <1>1. PICK deaf \in SUBSET obj[o].listeners :
            /\ get' = Told(o, 1, deaf, "none")
            /\ obj' = Freed([obj EXCEPT ![o].data = @ + 1, ![o].listeners = @ \ deaf,
                                        ![o].refs = @ - Cardinality(deaf)])
    BY Zenon DEF ReadChunk, Deaf
  <1>2. At(o, "reading") /\ UNCHANGED <<owner, global, hash, reader, errors>>
    BY Zenon DEF ReadChunk
  <1>3. /\ obj[o] \in Object /\ reader \in [Objs -> [Stages -> Nat]] /\ obj[o].refs \in Nat
        /\ reader[o] \in [Stages -> Nat] /\ get \in [Getters -> GetCall] /\ obj \in [Objs -> Object]
        /\ Balanced(o, obj[o], hash, get, reader[o]) /\ Listening(o, obj[o], get)
        /\ errors \in BOOLEAN /\ (errors \/ Served(o, obj[o], get, reader[o]))
    BY Known, Zenon DEF IInv, Types
  <1>4. /\ CallsOK(o, get, get')
        /\ \A h \in Getters : h \notin obj[o].listeners => get'[h] = get[h]
        /\ \A h \in Getters : h \in obj[o].listeners /\ h \notin deaf =>
               get'[h].pc = "waiting" /\ get'[h].obj = o /\ get'[h].got = get[h].got + 1
        /\ \A h \in Getters : h \in deaf => get'[h].obj = NoObj
    BY <1>1, ToldChunk
  <1>5. /\ Cardinality(Users(o, get')) = Cardinality(Users(o, get)) - Cardinality(deaf)
        /\ Cardinality(deaf) \in Nat
    <2>1. PICK f, k : f = get /\ k = get'
      BY Zenon
    <2>2. deaf \in SUBSET Users(o, f)
      BY <1>3, <2>1, Zenon DEF Users, Listening, Object
    <2>3. \A h \in Getters : k[h].obj = o <=> f[h].obj = o /\ h \notin deaf
      BY <1>3, <1>4, <2>1, FetchNoObj, Zenon DEF Listening
    <2>4. Cardinality(Users(o, k)) = Cardinality(Users(o, f)) - Cardinality(deaf) /\ Cardinality(deaf) \in Nat
      BY <2>2, <2>3, UsersLeave
    <2>. QED
      BY <2>1, <2>4, Zenon
  <1> DEFINE x == [obj[o] EXCEPT !.data = @ + 1, !.listeners = @ \ deaf, !.refs = @ - Cardinality(deaf)]
  <1>6. /\ x \in Object /\ x.data = obj[o].data + 1 /\ x.listeners = obj[o].listeners \ deaf
        /\ x.refs = obj[o].refs - Cardinality(deaf) /\ x.fetching = obj[o].fetching
        /\ x.evicted = obj[o].evicted /\ x.complete = obj[o].complete /\ x.listed = obj[o].listed
    <2>1. /\ obj[o].data + 1 \in Nat /\ obj[o].listeners \ deaf \in SUBSET Getters
          /\ obj[o].refs - Cardinality(deaf) \in Int
      BY <1>3, <1>5 DEF Object
    <2>. QED
      BY <1>3, <2>1, Zenon DEF Object
  <1>7. obj' = Freed([obj EXCEPT ![o] = x])
    BY <1>1, <1>3, Zenon
  <1> HIDE DEF x
  <1>8. Balanced(o, x, hash', get', reader[o])
    <2>1. reader[o] \in [Stages -> Nat] /\ Balanced(o, obj[o], hash, get, reader[o])
      BY <1>3, Zenon
    <2>2. x.refs = obj[o].refs - Cardinality(deaf)
      BY <1>6, Zenon
    <2>3. Balanced(o, x, hash, get', reader[o])
      BY <1>5, <2>1, <2>2, LeaveBalanced, Zenon
    <2>. QED
      BY <1>2, <2>3, Zenon DEF Balanced
  <1>9. Listening(o, x, get')
    BY <1>3, <1>4, <1>6, FetchNoObj, ZenonT(60) DEF Listening
  <1>10. errors \/ Served(o, x, get', reader[o])
    <2>1. Settled(x, reader[o])
      BY <1>2, Zenon DEF Settled, At
    <2>2. errors \/ /\ x.complete \/ x.evicted => x.listeners = {}
                    /\ reader[o]["reading"] > 0 /\ ~ x.complete => x.fetching
                    /\ reader[o]["done"] > 0 \/ reader[o]["drop"] > 0 \/ reader[o]["release"] > 0
                       => x.complete
      BY <1>3, <1>6, ZenonT(60) DEF Served
    <2>. QED
      BY <2>1, <2>2, SettledServed, Zenon
  <1>11. Counted(o, x, hash', get', reader[o], errors')
    BY <1>2, <1>8, <1>9, <1>10, ZenonT(60) DEF Counted
  <1>12. HashOK(o, hash, hash') /\ reader' = [reader EXCEPT ![o] = reader[o]] /\ errors' \in BOOLEAN
    BY <1>2, <1>3, Zenon DEF HashOK
  <1>. QED
    BY <1>2, <1>3, <1>4, <1>6, <1>7, <1>11, <1>12, OneObject, ZenonT(60)
-----------------------------------------------------------------------------
(* The theorems *)

LEMMA InitOK == Init => IInv
  <1> SUFFICES ASSUME Init PROVE IInv
    BY Zenon
  <1>1. Call \in GetCall /\ Call.obj = NoObj /\ Call.pc = "idle" /\ Call.finals = 0 /\ Call.got = 0
    BY Zenon DEF Call, GetCall, PCs
  <1>2. get = [g \in Getters |-> Call] /\ obj = [o \in Objs |-> New]
    BY Zenon DEF Init
  <1>3. Types
    <2>1. [s \in Stages |-> 0] \in [Stages -> Nat]
      BY Zenon
    <2>. QED
      BY <1>1, <1>2, <2>1, NewType, Zenon DEF Init, Types
  <1>4. \A g \in Getters : get[g] = Call
    BY <1>2, Zenon
  <1>5. CallOK(Call)
    BY <1>1, FetchNoObj DEF CallOK, Holding, Ended
  <1>6. ASSUME NEW o \in Objs PROVE ObjOK(o, obj[o], hash, get, reader[o], errors)
    <2> DEFINE a == [s \in Stages |-> 0]
    <2>1. obj[o] = New /\ reader[o] = a /\ hash # o
      BY FetchNoObj, Zenon DEF Init
    <2>2. a["reading"] = 0 /\ a["done"] = 0 /\ a["drop"] = 0 /\ a["release"] = 0
      BY Zenon DEF Stages
    <2> HIDE DEF a
    <2>3. \A g \in Getters : get[g].obj # o
      BY <1>1, <1>4, FetchNoObj, Zenon
    <2>4. Users(o, get) = {}
      BY <2>3, Zenon DEF Users
    <2>5. /\ New.refs = 0 /\ New.listeners = {} /\ New.complete = FALSE /\ New.evicted = FALSE
          /\ New.fetching = FALSE /\ New.listed = FALSE /\ New.data = 0
      BY Zenon DEF New
    <2>6. Balanced(o, New, hash, get, a)
      <3>1. One(hash, o) = 0 /\ Answers(a) = 0 /\ Cardinality({}) = 0
        BY <2>1, <2>2, FS_EmptySet DEF One, Answers
      <3>. QED
        BY <2>4, <2>5, <3>1 DEF Balanced
    <2>7. Listening(o, New, get)
      BY <2>3, <2>5, Zenon DEF Listening
    <2>8. Served(o, New, get, a)
      <3>1. /\ ~ (a["reading"] > 0) /\ ~ (a["done"] > 0) /\ ~ (a["drop"] > 0)
            /\ ~ (a["release"] > 0) /\ ~ (New.data > 0)
        BY <2>2, <2>5
      <3>. QED
        BY <2>3, <2>5, <3>1, ZenonT(60) DEF Served
    <2>. QED
      BY <2>1, <2>6, <2>7, <2>8, Zenon DEF ObjOK, Counted
  <1>. QED
    BY <1>3, <1>4, <1>5, <1>6, Zenon DEF IInv

LEMMA StepOK == IInv /\ [Next]_vars => IInv'
  <1> SUFFICES ASSUME IInv, [Next]_vars PROVE IInv'
    BY Zenon
  <1>1. CASE UNCHANGED vars
    BY <1>1, Zenon DEF vars, IInv, Types
  <1>2. ASSUME NEW g \in Getters, Getter(g) PROVE IInv'
    <2>1. CASE Lookup(g)
      BY <2>1, LookupFoundOK, LookupNewOK, Zenon DEF Lookup
    <2>2. CASE Check(g) \/ Move(g) \/ Link(g)
      BY <2>2, CheckOK, MoveOK, LinkOK, Zenon
    <2>3. CASE DoFetch(g)
      BY <2>3, FetchNothingOK, FetchFromPeerOK, FetchRefusedOK, FetchLocalOK, FetchNotFoundOK,
         FetchStorageErrorOK, Zenon DEF DoFetch
    <2>4. CASE Use(g)
      BY <2>4, UseEvictedOK, UseCompleteOK, UseListenOK, Zenon DEF Use
    <2>. QED
      BY <1>2, <2>1, <2>2, <2>3, <2>4, Zenon DEF Getter
  <1>3. ASSUME NEW o \in Objs, Reader(o) PROVE IInv'
    BY <1>3, ReadChunkOK, ReadDoneOK, ReadErrorOK, ReadCloseOK, ReadDropOK, ReadReleaseOK, Zenon
       DEF Reader, ReadEnd
  <1>. QED
    BY <1>1, <1>2, <1>3, RemoveOK, Zenon DEF Next

(* The inductive invariant holds in every reachable state. *)
THEOREM Invariant == Spec => []IInv
  BY InitOK, StepOK, PTL DEF Spec

(* The references of a cached object are those of the hash table, of the calls that
   work with it or listen to it, and of the async reader: retain_ref and release_ref
   are balanced on every path of arc_ops.c and of shardcache_get, whoever comes last,
   so an object that somebody has is never freed. *)
THEOREM ReferencesBalanced == Spec => []RefsBalanced
  <1>1. IInv => RefsBalanced
    <2> SUFFICES ASSUME IInv, NEW o \in Objs PROVE obj[o].refs = Holders(o)
      BY Zenon DEF RefsBalanced
    <2>1. Balanced(o, obj[o], hash, get, reader[o]) /\ reader[o] \in [Stages -> Nat]
      BY Known, Zenon
    <2>2. Unhashed(o) = One(hash, o)
      BY Zenon DEF Unhashed, One
    <2>3. Cardinality({g \in Getters : get[g].obj = o}) = Cardinality(Users(o, get))
      BY Zenon DEF Users
    <2>4. obj[o].refs = Unhashed(o) + Cardinality({g \in Getters : get[g].obj = o}) + Answers(reader[o])
      BY <2>1, <2>2, <2>3, Zenon DEF Balanced
    <2>5. PICK u, m \in Nat : u = Unhashed(o) /\ m = Cardinality({g \in Getters : get[g].obj = o})
      BY <2>2, <2>3, UsersFinite, OneNat, Zenon
    <2>6. obj[o].refs = u + m + reader[o]["reading"] + reader[o]["done"] + reader[o]["drop"]
                            + reader[o]["release"]
      BY <2>1, <2>4, <2>5, AnswersNat DEF Answers
    <2>. QED
      BY <2>5, <2>6, Zenon DEF Holders
  <1>. QED
    BY <1>1, Invariant, PTL

(* A caller that listens has got every chunk that has arrived, once: what
   shardcache_get hands over before it registers the listener and what the callback
   hands over afterwards join without a gap, whenever the caller came. *)
THEOREM NoGap == Spec => []WholeValue
  <1>1. IInv => WholeValue
    <2> SUFFICES ASSUME IInv, NEW g \in Getters, get[g].pc = "waiting"
                 PROVE  get[g].got = obj[get[g].obj].data
      BY Zenon DEF WholeValue
    <2>1. get[g].obj \in Objs
      BY Caller, Zenon DEF Holding
    <2>2. Listening(get[g].obj, obj[get[g].obj], get)
      BY <2>1, Known, Zenon
    <2>. QED
      BY <2>2, Zenon DEF Listening
  <1>. QED
    BY <1>1, Invariant, PTL

(* A caller is told at most once that its value is complete or that it failed. *)
THEOREM ToldOnce == Spec => []OneFinal
  <1>1. IInv => OneFinal
    BY Zenon DEF IInv, CallOK, OneFinal
  <1>. QED
    BY <1>1, Invariant, PTL

(* As long as no fetch failed half way, whoever listens has somebody who will call:
   the async reader, or a thread on its way to arc_ops_fetch. *)
THEOREM ListenersHaveServer == Spec => []ListenersServed
  <1>1. IInv => ListenersServed
    <2> SUFFICES ASSUME IInv, ~ errors, NEW o \in Objs, obj[o].listeners # {}
                 PROVE  \/ At(o, "reading")
                        \/ \E g \in Getters : get[g].obj = o /\ get[g].pc \in {"move", "fetch"}
      BY Zenon DEF ListenersServed
    <2>1. Served(o, obj[o], get, reader[o]) /\ Listening(o, obj[o], get) /\ obj[o] \in Object
      BY Known, Zenon
    <2>2. PICK g \in Getters : get[g].obj = o /\ get[g].pc = "waiting"
      BY <2>1, Zenon DEF Listening, Object
    <2>3. obj[o].refs # 0
      BY <2>2, Caller, Zenon DEF Holding
    <2>. QED
      BY <2>1, <2>3, Zenon DEF Served, Settled, At
  <1>. QED
    BY <1>1, Invariant, PTL
=============================================================================
