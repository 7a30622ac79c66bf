---------------------------- MODULE ItemsProofs ----------------------------
(* Proofs about Items: what a thread has left to do, why an old copy is still
   going to be dropped, and why an item that is to expire has its timer.

   Both arguments need to know what a thread may forget.  Its list is of one of
   three shapes: steps that come before a change (Early), one step that changes
   the value and the two that tell of it, or steps that come after a change
   (Late).  Only a list of the first shape is ever thrown away. *)
EXTENDS Items, SequenceTheorems, TLAPS

Early == {"drop", "exists", "insert", "increment", "again"}
Changes == {"store", "store_increment", "erase", "unschedule", "delete"}
Late == {"uncache", "evict", "schedule"}

Has(q, s) == \E i \in 1..Len(q) : q[i] = s
All(q, S) == \A i \in 1..Len(q) : q[i] \in S

(* Who drops the owner's copy tells the other nodes afterwards. *)
Followed(q) == \A i \in 1..Len(q) : q[i] = "uncache" => \E j \in 1..Len(q) : j > i /\ q[j] = "evict"

LatePlan(q) == All(q, Late) /\ Followed(q)

Plan(q) ==
    /\ q \in Seq(Steps)
    /\ \/ All(q, Early)
       \/ LatePlan(q)
       \/ q # << >> /\ Head(q) \in Changes /\ Tail(q) = <<"uncache", "evict">>

Item == [ver : Nat, expire : BOOLEAN]
Kinds == {"none", "set", "add", "increment", "delete"}
CallType == [todo : Seq(Steps), kind : Kinds, item : Item]

CallOK(c) ==
    /\ c \in CallType
    /\ Plan(c.todo)
    /\ c.todo # << >> /\ Head(c.todo) \in {"delete", "unschedule"} => c.kind = "delete"

(* What every thread has left to do. *)
PlanInv == calls \in Nat /\ thr \in [Threads -> CallType] /\ \A t \in Threads : CallOK(thr[t])

Copy == [st : {"none", "locked", "looked", "linked"}, ver : Nat]

(* The copy of node n is the current value, or about to be dropped: linked or not. *)
CopyOK(n) ==
    /\ cache[n].st = "none" => cache[n].ver = 0
    /\ cache[n].ver # 0 /\ cache[n].ver # Current /\ n \notin excused => Pending(n)

(* Who did not find an item at the owner will read the storage, even if there is
   an item by then. *)
LookedOK == cache[Owner].st = "looked" /\ cache[Owner].ver = 0 /\ vol # NoItem => Owner \in excused

CopyTypes ==
    /\ cache \in [Nodes -> Copy] /\ vol \in Item /\ stored \in Nat /\ evictor \in 0..NPeers
    /\ jobs \in BOOLEAN

CopyInv == CopyTypes /\ LookedOK /\ \A n \in Nodes : CopyOK(n)

(* A DELETE that runs alone: its unschedule finds no item. *)
Alone ==
    /\ \A t, u \in Threads : Busy(t) /\ thr[t].kind = "delete" /\ Busy(u) => t = u
    /\ \A t \in Threads : At(t, "unschedule") => vol = NoItem

TimerTypes == queue \in Seq({"schedule", "unschedule"}) /\ vol \in Item

TimerInv == TimerTypes /\ Alone /\ TimerCovers
-----------------------------------------------------------------------------
(* Lists of steps. *)

LEMMA StepSets == Early \subseteq Steps /\ Changes \subseteq Steps /\ Late \subseteq Steps
  BY Zenon DEF Early, Changes, Late, Steps

(* Doing, as a property of the list. *)
LEMMA DoingIsHas ==
  ASSUME NEW t \in Threads, thr \in [Threads -> CallType], NEW s
  PROVE  Doing(t, s) <=> Has(thr[t].todo, s)
  <1>1. thr[t].todo \in Seq(Steps)
    BY Zenon DEF CallType
  <1>2. DOMAIN thr[t].todo = 1..Len(thr[t].todo)
    BY <1>1, LenProperties, Zenon
  <1> QED BY <1>2, Zenon DEF Doing, Has

(* What the head of a list is not stays in the list when the head goes. *)
LEMMA HasTail ==
  ASSUME NEW q \in Seq(Steps), q # << >>, NEW s, Has(q, s), s # Head(q)
  PROVE  Has(Tail(q), s)
  <1>1. PICK i \in 1..Len(q) : q[i] = s
    BY Zenon DEF Has
  <1>2. Len(q) \in Nat /\ Len(q) # 0 /\ Head(q) = q[1]
    BY EmptySeq, LenProperties
  <1>3. Len(Tail(q)) = Len(q) - 1 /\ \A k \in 1..Len(Tail(q)) : Tail(q)[k] = q[k + 1]
    BY HeadTailProperties, Zenon
  <1>4. i - 1 \in 1..Len(Tail(q)) /\ (i - 1) + 1 = i
    BY <1>1, <1>2, <1>3
  <1> QED BY <1>1, <1>3, <1>4, Zenon DEF Has

(* The tail of a list has nothing that the list has not. *)
LEMMA AllTail ==
  ASSUME NEW q \in Seq(Steps), q # << >>, NEW S, All(q, S)
  PROVE  All(Tail(q), S)
  <1>1. Len(q) \in Nat
    BY LenProperties, Zenon
  <1>2. Len(Tail(q)) = Len(q) - 1 /\ \A k \in 1..Len(Tail(q)) : Tail(q)[k] = q[k + 1]
    BY HeadTailProperties, Zenon
  <1> QED BY <1>1, <1>2 DEF All

(* An EVICT that follows in a list follows in its tail. *)
LEMMA FollowedTail ==
  ASSUME NEW q \in Seq(Steps), q # << >>, Followed(q)
  PROVE  Followed(Tail(q))
  <1>1. Len(q) \in Nat
    BY LenProperties, Zenon
  <1>2. Len(Tail(q)) = Len(q) - 1 /\ \A k \in 1..Len(Tail(q)) : Tail(q)[k] = q[k + 1]
    BY HeadTailProperties, Zenon
  <1> SUFFICES ASSUME NEW i \in 1..Len(Tail(q)), Tail(q)[i] = "uncache"
               PROVE  \E j \in 1..Len(Tail(q)) : j > i /\ Tail(q)[j] = "evict"
    BY Zenon DEF Followed
  <1>3. i + 1 \in 1..Len(q) /\ q[i + 1] = "uncache"
    BY <1>1, <1>2
  <1>4. PICK j \in 1..Len(q) : j > i + 1 /\ q[j] = "evict"
    BY <1>3, Zenon DEF Followed
  <1>5. j - 1 \in 1..Len(Tail(q)) /\ j - 1 > i /\ (j - 1) + 1 = j
    BY <1>1, <1>2, <1>4
  <1> QED BY <1>2, <1>4, <1>5, Zenon

(* The lists that tell of a change. *)
LEMMA LateLists ==
  /\ << >> \in Seq(Steps) /\ LatePlan(<< >>)
  /\ <<"uncache", "evict">> \in Seq(Steps) /\ LatePlan(<<"uncache", "evict">>)
  /\ Has(<<"uncache", "evict">>, "uncache") /\ Has(<<"uncache", "evict">>, "evict")
  /\ <<"schedule">> \in Seq(Steps) /\ LatePlan(<<"schedule">>) /\ Has(<<"schedule">>, "schedule")
  <1> DEFINE a == <<"uncache", "evict">>
             b == <<"schedule">>
  <1>1. Len(a) = 2 /\ a[1] = "uncache" /\ a[2] = "evict" /\ Len(b) = 1 /\ b[1] = "schedule"
    BY Zenon
  <1>2. << >> \in Seq(Steps) /\ Len(<< >>) = 0
    BY EmptySeq, Zenon
  <1>3. LatePlan(<< >>)
    BY <1>2 DEF LatePlan, All, Followed
  <1>4. a \in Seq(Steps) /\ b \in Seq(Steps)
    BY DEF Steps
  <1> HIDE DEF a, b
  <1>5. LatePlan(a) /\ Has(a, "uncache") /\ Has(a, "evict")
    BY <1>1 DEF LatePlan, All, Followed, Has, Late
  <1>6. LatePlan(b) /\ Has(b, "schedule")
    BY <1>1 DEF LatePlan, All, Followed, Has, Late
  <1> QED BY <1>2, <1>3, <1>4, <1>5, <1>6, Zenon DEF a, b

(* Two such lists, one after the other. *)
LEMMA LateConcat ==
  ASSUME NEW p \in Seq(Steps), NEW q \in Seq(Steps), LatePlan(p), LatePlan(q)
  PROVE  /\ p \o q \in Seq(Steps) /\ LatePlan(p \o q)
         /\ \A s : Has(p, s) \/ Has(q, s) => Has(p \o q, s)
  <1>1. Len(p) \in Nat /\ Len(q) \in Nat
    BY LenProperties, Zenon
  <1>2. PICK r : r = p \o q
    BY Zenon
  <1>3. /\ r \in Seq(Steps) /\ Len(r) = Len(p) + Len(q)
        /\ \A i \in 1..Len(p) + Len(q) : r[i] = IF i <= Len(p) THEN p[i] ELSE q[i - Len(p)]
    BY <1>2, ConcatProperties, Zenon
  <1>4. \A i \in 1..Len(p) : i \in 1..Len(r) /\ r[i] = p[i]
    BY <1>1, <1>3
  <1>5. \A i \in 1..Len(q) : i + Len(p) \in 1..Len(r) /\ r[i + Len(p)] = q[i]
    <2> TAKE i \in 1..Len(q)
    <2>1. /\ i + Len(p) \in 1..Len(p) + Len(q) /\ ~ i + Len(p) <= Len(p)
          /\ (i + Len(p)) - Len(p) = i
      BY <1>1
    <2> QED BY <2>1, <1>3, Zenon
  <1>6. \A i \in 1..Len(r) : i \in 1..Len(p) \/ (i - Len(p) \in 1..Len(q) /\ r[i] = q[i - Len(p)])
    BY <1>1, <1>3
  <1>7. All(r, Late)
    BY <1>4, <1>6, Zenon DEF All, LatePlan
  <1>8. Followed(r)
    <2> SUFFICES ASSUME NEW i \in 1..Len(r), r[i] = "uncache"
                 PROVE  \E j \in 1..Len(r) : j > i /\ r[j] = "evict"
      BY Zenon DEF Followed
    <2>1. CASE i \in 1..Len(p)
      BY <2>1, <1>4, Zenon DEF LatePlan, Followed
    <2>2. CASE i - Len(p) \in 1..Len(q) /\ r[i] = q[i - Len(p)]
      <3>1. PICK j \in 1..Len(q) : j > i - Len(p) /\ q[j] = "evict"
        BY <2>2, Zenon DEF LatePlan, Followed
      <3>2. j + Len(p) > i
        BY <3>1, <1>1, <1>3
      <3> QED BY <3>1, <3>2, <1>5, Zenon
    <2> QED BY <2>1, <2>2, <1>6, Zenon
  <1>9. \A s : Has(p, s) \/ Has(q, s) => Has(r, s)
    BY <1>4, <1>5, Zenon DEF Has
  <1> QED BY <1>2, <1>3, <1>7, <1>8, <1>9, Zenon DEF LatePlan

(* The lists that a call begins or goes on with, before it changes anything. *)
LEMMA EarlyLists ==
  /\ Plan(<<"drop", "insert">>) /\ Head(<<"drop", "insert">>) = "drop"
  /\ Plan(<<"drop", "exists", "insert">>) /\ Head(<<"drop", "exists", "insert">>) = "drop"
  /\ Plan(<<"increment">>) /\ Head(<<"increment">>) = "increment"
  /\ Plan(<<"again">>) /\ Head(<<"again">>) = "again"
  <1> DEFINE a == <<"drop", "insert">>
             b == <<"drop", "exists", "insert">>
             c == <<"increment">>
             d == <<"again">>
  <1>1. Len(a) = 2 /\ a[1] = "drop" /\ a[2] = "insert" /\ Head(a) = "drop"
    OBVIOUS
  <1>2. Len(b) = 3 /\ b[1] = "drop" /\ b[2] = "exists" /\ b[3] = "insert" /\ Head(b) = "drop"
    OBVIOUS
  <1>3. Len(c) = 1 /\ c[1] = "increment" /\ Head(c) = "increment"
    OBVIOUS
  <1>4. Len(d) = 1 /\ d[1] = "again" /\ Head(d) = "again"
    OBVIOUS
  <1>5. a \in Seq(Steps) /\ b \in Seq(Steps) /\ c \in Seq(Steps) /\ d \in Seq(Steps)
    BY DEF Steps
  <1> HIDE DEF a, b, c, d
  <1>6. All(a, Early) /\ All(b, Early) /\ All(c, Early) /\ All(d, Early)
    BY <1>1, <1>2, <1>3, <1>4 DEF All, Early
  <1>7. Plan(a) /\ Plan(b) /\ Plan(c) /\ Plan(d)
    BY <1>5, <1>6, Zenon DEF Plan
  <1> QED BY <1>1, <1>2, <1>3, <1>4, <1>7, Zenon DEF a, b, c, d

(* The lists that begin with a change. *)
LEMMA ChangeLists ==
  ASSUME NEW s \in Changes
  PROVE  /\ Plan(<<s, "uncache", "evict">>) /\ Head(<<s, "uncache", "evict">>) = s
         /\ <<s, "uncache", "evict">> # << >>
         /\ <<s>> \o <<"uncache", "evict">> = <<s, "uncache", "evict">>
         /\ Has(<<s, "uncache", "evict">>, "uncache") /\ Has(<<s, "uncache", "evict">>, "evict")
  <1> DEFINE a == <<s, "uncache", "evict">>
  <1>1. s \in Steps
    BY StepSets, Zenon
  <1>2. a \in Seq(Steps) /\ a # << >> /\ Head(a) = s
    BY <1>1 DEF Steps
  <1>3. Tail(a) = <<"uncache", "evict">>
    OBVIOUS
  <1>4. <<s>> \o <<"uncache", "evict">> = a
    <2> DEFINE b == <<s>>
               c == <<"uncache", "evict">>
    <2>1. b \in Seq(Steps) /\ Len(b) = 1 /\ b[1] = s
      BY <1>1
    <2>2. c \in Seq(Steps) /\ Len(c) = 2 /\ c[1] = "uncache" /\ c[2] = "evict"
      BY DEF Steps
    <2>3. Len(a) = 3 /\ a[1] = s /\ a[2] = "uncache" /\ a[3] = "evict"
      BY Zenon
    <2> HIDE DEF a, b, c
    <2>4. /\ b \o c \in Seq(Steps) /\ Len(b \o c) = Len(b) + Len(c)
          /\ \A i \in 1..Len(b) + Len(c) : (b \o c)[i] = IF i <= Len(b) THEN b[i] ELSE c[i - Len(b)]
      BY <2>1, <2>2, ConcatProperties, Zenon
    <2>5. PICK d : d = b \o c
      BY Zenon
    <2>6. d \in Seq(Steps) /\ Len(d) = 3 /\ d[1] = s /\ d[2] = "uncache" /\ d[3] = "evict"
      BY <2>1, <2>2, <2>4, <2>5
    <2>7. \A i \in 1..3 : d[i] = a[i]
      BY <2>3, <2>6
    <2>8. d = a
      BY <1>2, <2>3, <2>6, <2>7, SeqEqual, Zenon
    <2> QED BY <2>5, <2>8, Zenon DEF b, c
  <1>5. Len(a) = 3 /\ a[2] = "uncache" /\ a[3] = "evict"
    BY Zenon
  <1> HIDE DEF a
  <1>6. Plan(a)
    BY <1>2, <1>3, Zenon DEF Plan
  <1>7. Has(a, "uncache") /\ Has(a, "evict")
    BY <1>5 DEF Has
  <1> QED BY <1>2, <1>4, <1>6, <1>7, Zenon DEF a

(* The head of a list tells what else is in it. *)
LEMMA PlanByHead ==
  ASSUME NEW q, Plan(q), q # << >>
  PROVE  /\ q \in Seq(Steps)
         /\ Head(q) \in Early => All(q, Early) /\ \A s \in Late : ~ Has(q, s)
         /\ Head(q) \in Late => LatePlan(q)
         /\ Head(q) \in Changes => Tail(q) = <<"uncache", "evict">>
  <1>1. q \in Seq(Steps)
    BY Zenon DEF Plan
  <1>2. 1 \in 1..Len(q) /\ Head(q) = q[1]
    BY <1>1, EmptySeq, LenProperties
  <1>3. \A s \in Early : s \notin Late /\ s \notin Changes
    BY Zenon DEF Early, Late, Changes
  <1>4. \A s \in Late : s \notin Early /\ s \notin Changes
    BY Zenon DEF Early, Late, Changes
  <1>5. All(q, Early) => Head(q) \in Early
    BY <1>2, Zenon DEF All
  <1>6. LatePlan(q) => Head(q) \in Late
    BY <1>2, Zenon DEF All, LatePlan
  <1>7. All(q, Early) => \A s \in Late : ~ Has(q, s)
    BY <1>4, Zenon DEF All, Has
  <1> QED BY <1>1, <1>3, <1>4, <1>5, <1>6, <1>7, Zenon DEF Plan

(* A list that begins early or late does not begin with a change. *)
LEMMA NotAChange ==
  ASSUME NEW q \in Seq(Steps), q # << >>, All(q, Early) \/ LatePlan(q)
  PROVE  Head(q) \notin Changes
  <1>1. 1 \in 1..Len(q) /\ Head(q) = q[1]
    BY EmptySeq, LenProperties
  <1>2. Head(q) \in Early \cup Late
    BY <1>1, Zenon DEF All, LatePlan
  <1> QED BY <1>2, Zenon DEF Early, Late, Changes

(* A thread that has done a step goes on with a list of one of the shapes. *)
LEMMA PlanTail ==
  ASSUME NEW q, Plan(q), q # << >>
  PROVE  /\ Plan(Tail(q))
         /\ \A s \in Late : Has(q, s) => Has(Tail(q), s) \/ s = Head(q)
         /\ Tail(q) # << >> => Head(Tail(q)) \notin Changes
  <1>1. q \in Seq(Steps)
    BY Zenon DEF Plan
  <1>2. Tail(q) \in Seq(Steps)
    BY <1>1, HeadTailProperties, Zenon
  <1>3. \A s \in Late : Has(q, s) => Has(Tail(q), s) \/ s = Head(q)
    BY <1>1, HasTail, Zenon
  <1>4. CASE All(q, Early)
    <2>1. All(Tail(q), Early)
      BY <1>4, <1>1, AllTail, Zenon
    <2> QED BY <2>1, <1>2, <1>3, NotAChange, Zenon DEF Plan
  <1>5. CASE LatePlan(q)
    <2>1. LatePlan(Tail(q))
      BY <1>5, <1>1, AllTail, FollowedTail, Zenon DEF LatePlan
    <2> QED BY <2>1, <1>2, <1>3, NotAChange, Zenon DEF Plan
  <1>6. CASE Head(q) \in Changes /\ Tail(q) = <<"uncache", "evict">>
    <2>1. LatePlan(Tail(q))
      BY <1>6, LateLists, Zenon
    <2> QED BY <2>1, <1>2, <1>3, NotAChange, Zenon DEF Plan
  <1> QED BY <1>4, <1>5, <1>6, Zenon DEF Plan
-----------------------------------------------------------------------------
(* What a step of a thread does to its list. *)

Keeps(q, p) == \A s \in Late : Has(q, s) => Has(p, s) \/ (q # << >> /\ Head(q) = s)

(* Thread t goes on with call c: it forgets nothing of what follows a change but
   the step it has just done. *)
Moves(t, c) ==
    /\ c \in CallType /\ CallOK(c)
    /\ thr' = [thr EXCEPT ![t] = c]
    /\ Keeps(thr[t].todo, c.todo)

(* A step of a call: it is of the same kind or forgets of which kind it was. *)
Continues(t, c) ==
    /\ Moves(t, c)
    /\ c.kind \in {"none", thr[t].kind}
    /\ c.todo # << >> /\ Head(c.todo) = "unschedule" => At(t, "delete")

Tells(q) == Has(q, "uncache") /\ Has(q, "evict")

LEMMA NoCallOK == NoItem \in Item /\ NoCall \in CallType /\ NoCall.todo = << >> /\ NoCall.kind = "none"
  <1>1. << >> \in Seq(Steps)
    BY EmptySeq, Zenon
  <1> QED BY <1>1, Zenon DEF NoCall, NoItem, Item, CallType, Kinds

(* Goto. *)
LEMMA GotoMoves ==
  ASSUME PlanInv, NEW t \in Threads, NEW p, Plan(p), Goto(t, p), Keeps(thr[t].todo, p),
         p # << >> /\ Head(p) \in {"delete", "unschedule"} => thr[t].kind = "delete" /\ At(t, "delete")
  PROVE  \E c \in CallType : Continues(t, c) /\ c.todo = p
  <1>1. thr \in [Threads -> CallType] /\ thr[t] \in CallType /\ p \in Seq(Steps)
    BY Zenon DEF PlanInv, Plan
  <1>2. PICK c : c = IF p = << >> THEN NoCall ELSE [thr[t] EXCEPT !.todo = p]
    BY Zenon
  <1>3. thr' = [thr EXCEPT ![t] = c]
    BY <1>1, <1>2, Zenon DEF Goto
  <1>4. c \in CallType /\ c.todo = p /\ c.kind \in {"none", thr[t].kind} /\ (p # << >> => c.kind = thr[t].kind)
    BY <1>1, <1>2, NoCallOK, Zenon DEF CallType
  <1>5. CallOK(c)
    BY <1>4, Zenon DEF CallOK
  <1> QED BY <1>3, <1>4, <1>5, Zenon DEF Continues, Moves

(* Written. *)
LEMMA WrittenMoves ==
  ASSUME PlanInv, NEW t \in Threads, NEW p, Plan(p), Written(t, p), Keeps(thr[t].todo, p),
         p # << >> => Head(p) \notin Changes
  PROVE  \E c \in CallType : Continues(t, c) /\ c.todo = p
  <1>1. thr \in [Threads -> CallType] /\ thr[t] \in CallType /\ p \in Seq(Steps)
    BY Zenon DEF PlanInv, Plan
  <1>2. PICK c : c = [NoCall EXCEPT !.todo = p]
    BY Zenon
  <1>3. thr' = [thr EXCEPT ![t] = c]
    BY <1>1, <1>2, Zenon DEF Written
  <1>4. c \in CallType /\ c.todo = p /\ c.kind = "none"
    BY <1>1, <1>2, NoCallOK, Zenon DEF CallType
  <1>5. p # << >> => Head(p) \notin {"delete", "unschedule"}
    BY Zenon DEF Changes
  <1>6. CallOK(c)
    BY <1>4, <1>5, Zenon DEF CallOK
  <1> QED BY <1>3, <1>4, <1>5, <1>6, Zenon DEF Continues, Moves

(* The list of a thread that is busy. *)
LEMMA BusyPlan ==
  ASSUME PlanInv, NEW t \in Threads, NEW s, At(t, s)
  PROVE  /\ Plan(thr[t].todo) /\ thr[t].todo # << >> /\ Head(thr[t].todo) = s
         /\ s \in {"delete", "unschedule"} => thr[t].kind = "delete"
  BY Zenon DEF PlanInv, CallOK, At, Busy

(* Proceed, and Written with what is left. *)
LEMMA ProceedMoves ==
  ASSUME PlanInv, NEW t \in Threads, NEW s, At(t, s),
         Proceed(t) \/ Written(t, Tail(thr[t].todo))
  PROVE  /\ \E c \in CallType : Continues(t, c) /\ c.todo = Tail(thr[t].todo)
         /\ s \in Changes => Tells(Tail(thr[t].todo))
  <1>1. PICK q : q = thr[t].todo
    BY Zenon
  <1>2. Plan(q) /\ q # << >> /\ Head(q) = s
    BY <1>1, BusyPlan, Zenon
  <1>3. PICK p : p = Tail(q)
    BY Zenon
  <1>4. Plan(p) /\ Keeps(q, p) /\ (p # << >> => Head(p) \notin Changes)
    BY <1>2, <1>3, PlanTail, Zenon DEF Keeps
  <1>5. s \in Changes => Tells(p)
    BY <1>2, <1>3, PlanByHead, LateLists, Zenon DEF Tells
  <1>6. p # << >> => Head(p) \notin {"delete", "unschedule"}
    BY <1>4, Zenon DEF Changes
  <1>7. Goto(t, p) \/ Written(t, p)
    BY <1>1, <1>3, Zenon DEF Proceed
  <1>8. \E c \in CallType : Continues(t, c) /\ c.todo = p
    <2>1. CASE Goto(t, p)
      BY <2>1, <1>1, <1>4, <1>6, GotoMoves, Zenon
    <2>2. CASE Written(t, p)
      BY <2>2, <1>1, <1>4, WrittenMoves, Zenon
    <2> QED BY <2>1, <2>2, <1>7, Zenon
  <1> QED BY <1>1, <1>3, <1>5, <1>8, Zenon

(* A list that begins early has nothing to keep. *)
LEMMA EarlyKeeps ==
  ASSUME PlanInv, NEW t \in Threads, NEW s \in Early, At(t, s), NEW p
  PROVE  Keeps(thr[t].todo, p)
  BY BusyPlan, PlanByHead DEF Keeps

(* A list that follows a change. *)
LEMMA LateIsPlan ==
  ASSUME NEW p \in Seq(Steps), LatePlan(p)
  PROVE  Plan(p) /\ (p # << >> => Head(p) \notin Changes)
  BY NotAChange, Zenon DEF Plan

(* The storage's operations: a change of the stored value is told. *)
LEMMA StorageSteps ==
  ASSUME PlanInv, NEW t \in Threads, StoreValue(t) \/ StorageIncrement(t) \/ Erase(t)
  PROVE  \E c \in CallType : Continues(t, c) /\ Tells(c.todo)
  <1>1. CASE StoreValue(t)
    BY <1>1, ProceedMoves, Zenon DEF StoreValue, Changes
  <1>2. CASE StorageIncrement(t)
    BY <1>2, ProceedMoves, Zenon DEF StorageIncrement, Changes
  <1>3. CASE Erase(t)
    BY <1>3, ProceedMoves, Zenon DEF Erase, Changes
  <1> QED BY <1>1, <1>2, <1>3, Zenon

(* The steps that only go on. *)
LEMMA OtherSteps ==
  ASSUME PlanInv, NEW t \in Threads,
         DropStored(t) \/ Uncache(t) \/ CommenceEviction(t) \/ QueueExpiration(t)
  PROVE  \E c \in CallType : Continues(t, c)
  <1>1. CASE DropStored(t)
    BY <1>1, ProceedMoves, Zenon DEF DropStored
  <1>2. CASE Uncache(t)
    BY <1>2, ProceedMoves, Zenon DEF Uncache
  <1>3. CASE CommenceEviction(t)
    BY <1>3, ProceedMoves, Zenon DEF CommenceEviction
  <1>4. CASE QueueExpiration(t)
    BY <1>4, ProceedMoves, Zenon DEF QueueExpiration
  <1> QED BY <1>1, <1>2, <1>3, <1>4, Zenon

LEMMA ExistsStep ==
  ASSUME PlanInv, NEW t \in Threads, Exists(t)
  PROVE  \E c \in CallType : Continues(t, c)
  <1>1. At(t, "exists") /\ (Proceed(t) \/ Goto(t, <<"again">>) \/ Goto(t, << >>))
    BY Zenon DEF Exists
  <1>2. \A p : Keeps(thr[t].todo, p)
    BY <1>1, EarlyKeeps, Zenon DEF Early
  <1>3. CASE Proceed(t)
    BY <1>1, <1>3, ProceedMoves, Zenon
  <1>4. CASE Goto(t, <<"again">>)
    BY <1>2, <1>4, GotoMoves, EarlyLists, Zenon
  <1>5. CASE Goto(t, << >>)
    BY <1>2, <1>5, GotoMoves, LateLists, LateIsPlan, Zenon
  <1> QED BY <1>1, <1>3, <1>4, <1>5, Zenon

(* An item that is to expire is scheduled, one that replaces another is told. *)
LEMMA InsertSteps ==
  ASSUME PlanInv, NEW t \in Threads, InsertSet(t) \/ InsertAdd(t)
  PROVE  \E c \in CallType :
           /\ Continues(t, c)
           /\ \/ vol' = vol
              \/ /\ vol' = thr[t].item /\ (vol'.expire => Has(c.todo, "schedule"))
                 /\ vol = NoItem \/ Tells(c.todo)
  <1>1. At(t, "insert")
    BY Zenon DEF InsertSet, InsertAdd
  <1>2. \A p : Keeps(thr[t].todo, p)
    BY <1>1, EarlyKeeps, Zenon DEF Early
  <1>3. PICK a : a = Timed(t)
    BY Zenon
  <1>4. a \in Seq(Steps) /\ LatePlan(a) /\ (thr[t].item.expire => Has(a, "schedule"))
    BY <1>3, LateLists, Zenon DEF Timed
  <1>5. PICK b : b = Afterwards(t)
    BY Zenon
  <1>6. b \in Seq(Steps) /\ LatePlan(b)
    BY <1>5, LateLists, Zenon DEF Afterwards
  <1>7. PICK u : u = <<"uncache", "evict">>
    BY Zenon
  <1>8. u \in Seq(Steps) /\ LatePlan(u) /\ Tells(u)
    BY <1>7, LateLists, Zenon DEF Tells
  <1>9. CASE InsertSet(t)
    <2>1. PICK d : d = IF vol # NoItem THEN u ELSE << >>
      BY Zenon
    <2>2. d \in Seq(Steps) /\ LatePlan(d) /\ (vol = NoItem \/ Tells(d))
      BY <2>1, <1>8, LateLists, Zenon
    <2>3. PICK p : p = d \o a
      BY Zenon
    <2>4. p \in Seq(Steps) /\ LatePlan(p) /\ \A s : Has(d, s) \/ Has(a, s) => Has(p, s)
      BY <2>2, <2>3, <1>4, LateConcat, Zenon
    <2>5. Written(t, p) /\ vol' = thr[t].item
      BY <1>3, <1>7, <1>9, <2>1, <2>3, Zenon DEF InsertSet
    <2>6. \E c \in CallType : Continues(t, c) /\ c.todo = p
      BY <1>2, <2>4, <2>5, LateIsPlan, WrittenMoves, Zenon
    <2> QED BY <2>2, <2>4, <2>5, <2>6, <1>4, Zenon DEF Tells
  <1>10. CASE InsertAdd(t) /\ vol = NoItem
    <2>1. PICK p : p = a \o b
      BY Zenon
    <2>2. p \in Seq(Steps) /\ LatePlan(p) /\ \A s : Has(a, s) \/ Has(b, s) => Has(p, s)
      BY <2>1, <1>4, <1>6, LateConcat, Zenon
    <2>3. Written(t, p) /\ vol' = thr[t].item
      BY <1>3, <1>5, <1>10, <2>1, Zenon DEF InsertAdd
    <2>4. \E c \in CallType : Continues(t, c) /\ c.todo = p
      BY <1>2, <2>2, <2>3, LateIsPlan, WrittenMoves, Zenon
    <2> QED BY <2>2, <2>3, <2>4, <1>4, <1>10, Zenon
  <1>11. CASE InsertAdd(t) /\ vol # NoItem
    <2>1. PICK p : p = u \o b
      BY Zenon
    <2>2. p \in Seq(Steps) /\ LatePlan(p)
      BY <2>1, <1>8, <1>6, LateConcat, Zenon
    <2>3. Written(t, p) /\ vol' = vol
      BY <1>7, <1>5, <1>11, <2>1, Zenon DEF InsertAdd
    <2>4. \E c \in CallType : Continues(t, c) /\ c.todo = p
      BY <1>2, <2>2, <2>3, LateIsPlan, WrittenMoves, Zenon
    <2> QED BY <2>3, <2>4, Zenon
  <1> QED BY <1>9, <1>10, <1>11, Zenon

LEMMA InPlaceStep ==
  ASSUME PlanInv, NEW t \in Threads, NEW s \in Early, At(t, s), InPlace(t)
  PROVE  \E c \in CallType : Continues(t, c) /\ Tells(c.todo)
  <1>1. Written(t, <<"uncache", "evict">>) /\ Keeps(thr[t].todo, <<"uncache", "evict">>)
    BY EarlyKeeps, Zenon DEF InPlace
  <1>2. PICK u : u = <<"uncache", "evict">>
    BY Zenon
  <1>3. u \in Seq(Steps) /\ LatePlan(u) /\ Tells(u)
    BY <1>2, LateLists, Zenon DEF Tells
  <1> QED BY <1>1, <1>2, <1>3, LateIsPlan, WrittenMoves, Zenon

(* What an increment changes in its place is told. *)
LEMMA IncrementSteps ==
  ASSUME PlanInv, NEW t \in Threads, Increment(t) \/ IncrementAgain(t)
  PROVE  \E c \in CallType :
           /\ Continues(t, c)
           /\ vol' = vol \/ (Tells(c.todo) /\ vol # NoItem /\ vol' = [vol EXCEPT !.ver = thr[t].item.ver])
  <1>1. PICK s \in Early : At(t, s)
    BY Zenon DEF Increment, IncrementAgain, Early
  <1>2. \A p : Keeps(thr[t].todo, p)
    BY <1>1, EarlyKeeps, Zenon
  <1>3. CASE InPlace(t)
    BY <1>1, <1>3, InPlaceStep, Zenon DEF InPlace
  <1>4. CASE vol' = vol /\ Goto(t, <<"store_increment", "uncache", "evict">>)
    <2>1. "store_increment" \in Changes
      BY Zenon DEF Changes
    <2> QED BY <2>1, <1>2, <1>4, ChangeLists, GotoMoves, Zenon
  <1>5. CASE vol' = vol /\ Goto(t, <<"drop", "exists", "insert">>)
    BY <1>2, <1>5, EarlyLists, GotoMoves, Zenon
  <1>6. CASE vol' = vol /\ Goto(t, << >>)
    BY <1>2, <1>6, LateLists, LateIsPlan, GotoMoves, Zenon
  <1> QED BY <1>3, <1>4, <1>5, <1>6, Zenon DEF Increment, IncrementAgain

LEMMA DeleteStep ==
  ASSUME PlanInv, NEW t \in Threads, Delete(t)
  PROVE  \E c \in CallType : Continues(t, c) /\ Tells(c.todo)
  <1>1. At(t, "delete") /\ thr[t].kind = "delete"
    BY BusyPlan, Zenon DEF Delete
  <1>2. Plan(thr[t].todo) /\ thr[t].todo # << >> /\ Head(thr[t].todo) = "delete"
    BY <1>1, BusyPlan, Zenon
  <1>3. PICK u : u = <<"uncache", "evict">>
    BY Zenon
  <1>4. u \in Seq(Steps) /\ LatePlan(u) /\ Tells(u) /\ << >> \o u = u
    BY <1>3, LateLists, ConcatEmptySeq, Zenon DEF Tells
  <1>5. \A p : Tells(p) => Keeps(thr[t].todo, p)
    <2>1. Tail(thr[t].todo) = u
      BY <1>2, <1>3, PlanByHead, Zenon DEF Changes
    <2>2. ~ Has(u, "schedule")
      BY <1>3 DEF Has
    <2>3. \A s \in Late : Has(thr[t].todo, s) => s \in {"uncache", "evict"} \/ Head(thr[t].todo) = s
      BY <2>1, <2>2, <1>2, PlanTail, Zenon DEF Late
    <2> QED BY <2>3, <1>2, Zenon DEF Keeps, Tells
  <1>6. CASE Goto(t, <<"unschedule">> \o u)
    <2>1. "unschedule" \in Changes
      BY Zenon DEF Changes
    <2>2. PICK p : p = <<"unschedule">> \o u
      BY Zenon
    <2>3. Plan(p) /\ Tells(p)
      BY <2>1, <2>2, <1>3, ChangeLists, Zenon DEF Tells
    <2> QED BY <2>2, <2>3, <1>1, <1>5, <1>6, GotoMoves, Zenon
  <1>7. CASE Goto(t, <<"erase">> \o u)
    <2>1. "erase" \in Changes
      BY Zenon DEF Changes
    <2>2. PICK p : p = <<"erase">> \o u
      BY Zenon
    <2>3. Plan(p) /\ Tells(p)
      BY <2>1, <2>2, <1>3, ChangeLists, Zenon DEF Tells
    <2> QED BY <2>2, <2>3, <1>1, <1>5, <1>7, GotoMoves, Zenon
  <1>8. CASE Goto(t, << >> \o u)
    BY <1>1, <1>4, <1>5, <1>8, LateIsPlan, GotoMoves, Zenon
  <1> QED BY <1>3, <1>6, <1>7, <1>8, Zenon DEF Delete

(* Every step of a call. *)
LEMMA StepContinues ==
  ASSUME PlanInv, NEW t \in Threads, Step(t)
  PROVE  \E c \in CallType : Continues(t, c)
  BY StorageSteps, OtherSteps, ExistsStep, InsertSteps, IncrementSteps, DeleteStep, Zenon DEF Step

(* A call that begins. *)
Begins(t, c) ==
    /\ Moves(t, c) /\ MayStart(t, c.kind)
    /\ c.todo # << >> => Head(c.todo) # "unschedule"
    /\ calls' = calls + 1

LEMMA IdleKeeps ==
  ASSUME NEW t \in Threads, ~ Busy(t), NEW p
  PROVE  Keeps(thr[t].todo, p)
  <1>1. ~ \E s : Has(<< >>, s)
    BY EmptySeq DEF Has
  <1> QED BY <1>1, Zenon DEF Keeps, Busy

LEMMA CallBegins ==
  ASSUME PlanInv, NEW t \in Threads, NEW k \in Kinds, NEW e \in BOOLEAN, NEW p,
         Plan(p), Head(p) \notin {"delete", "unschedule"}, Call(t, k, e, p)
  PROVE  \E c \in CallType : Begins(t, c)
  <1>1. calls \in Nat /\ calls' = calls + 1 /\ MayStart(t, k) /\ ~ Busy(t)
    BY Zenon DEF PlanInv, Call, MayStart
  <1>2. PICK i : i = [ver |-> 2 + calls', expire |-> e]
    BY Zenon
  <1>3. i \in Item
    BY <1>1, <1>2 DEF Item
  <1>4. PICK c : c = [todo |-> p, kind |-> k, item |-> i]
    BY Zenon
  <1>5. c \in CallType /\ c.todo = p /\ c.kind = k
    BY <1>3, <1>4, Zenon DEF CallType, Plan
  <1>6. thr' = [thr EXCEPT ![t] = c]
    BY <1>2, <1>4, Zenon DEF Call
  <1>7. CallOK(c)
    BY <1>5, Zenon DEF CallOK
  <1>8. Moves(t, c)
    BY <1>1, <1>5, <1>6, <1>7, IdleKeeps, Zenon DEF Moves
  <1> QED BY <1>1, <1>5, <1>8, Zenon DEF Begins

LEMMA DeleteBegins ==
  ASSUME PlanInv, NEW t \in Threads, DeleteCall(t)
  PROVE  \E c \in CallType : Begins(t, c)
  <1>1. thr \in [Threads -> CallType] /\ thr[t] \in CallType /\ MayStart(t, "delete")
        /\ calls' = calls + 1 /\ ~ Busy(t)
    BY Zenon DEF PlanInv, DeleteCall, MayStart
  <1>2. PICK p : p = <<"delete", "uncache", "evict">>
    BY Zenon
  <1>3. Plan(p) /\ Head(p) = "delete"
    BY <1>2, ChangeLists, Zenon DEF Changes
  <1>4. PICK c : c = [thr[t] EXCEPT !.kind = "delete", !.todo = p]
    BY Zenon
  <1>5. c \in CallType /\ c.todo = p /\ c.kind = "delete"
    BY <1>1, <1>3, <1>4, Zenon DEF CallType, Kinds, Plan
  <1>6. thr' = [thr EXCEPT ![t] = c]
    BY <1>1, <1>2, <1>4, Zenon DEF DeleteCall, CallType
  <1>7. CallOK(c)
    BY <1>3, <1>5, Zenon DEF CallOK
  <1>8. Moves(t, c)
    BY <1>1, <1>5, <1>6, <1>7, IdleKeeps, Zenon DEF Moves
  <1> QED BY <1>1, <1>3, <1>5, <1>8, Zenon DEF Begins

LEMMA CallsBegin ==
  ASSUME PlanInv, NEW t \in Threads, Calls(t)
  PROVE  \E c \in CallType : Begins(t, c)
  <1>1. CASE DeleteCall(t)
    BY <1>1, DeleteBegins, Zenon
  <1>2. ASSUME NEW e \in BOOLEAN, Set(t, e) \/ Add(t, e) \/ IncrementCall(t, e)
        PROVE  \E c \in CallType : Begins(t, c)
    <2>1. \E k \in Kinds : \E p : Plan(p) /\ Head(p) \notin {"delete", "unschedule"} /\ Call(t, k, e, p)
      <3>1. CASE Set(t, e)
        <4>1. CASE Writable /\ ~ e
          BY <4>1, <3>1, ChangeLists, Zenon DEF Set, Store, Kinds, Changes
        <4>2. CASE ~ (Writable /\ ~ e)
          BY <4>2, <3>1, EarlyLists, Zenon DEF Set, Store, Kinds
        <4> QED BY <4>1, <4>2, Zenon
      <3>2. CASE Add(t, e)
        <4>1. CASE Writable /\ ~ e
          BY <4>1, <3>2, ChangeLists, Zenon DEF Add, Store, Kinds, Changes
        <4>2. CASE ~ (Writable /\ ~ e)
          BY <4>2, <3>2, EarlyLists, Zenon DEF Add, Store, Kinds
        <4> QED BY <4>1, <4>2, Zenon
      <3>3. CASE IncrementCall(t, e)
        BY <3>3, EarlyLists, Zenon DEF IncrementCall, Kinds
      <3> QED BY <1>2, <3>1, <3>2, <3>3, Zenon
    <2> QED BY <2>1, CallBegins, Zenon
  <1> QED BY <1>1, <1>2, Zenon DEF Calls
-----------------------------------------------------------------------------
(* PlanInv. *)

LEMMA PlanInit == Init => PlanInv
  <1>1. CallOK(NoCall)
    BY NoCallOK, LateLists, Zenon DEF CallOK, Plan
  <1> QED BY <1>1, NoCallOK DEF Init, PlanInv

LEMMA PlanMoves ==
  ASSUME PlanInv, NEW t \in Threads, NEW c, Moves(t, c), calls' \in Nat
  PROVE  PlanInv'
  BY Zenon DEF PlanInv, Moves

(* What is not a step of a thread leaves the calls alone. *)
LEMMA PlanNext ==
  ASSUME PlanInv, [Next]_vars
  PROVE  PlanInv'
  <1>1. ASSUME NEW t \in Threads, Calls(t)
        PROVE  PlanInv'
    <2>1. PICK c \in CallType : Begins(t, c)
      BY <1>1, CallsBegin, Zenon
    <2> QED BY <2>1, PlanMoves DEF Begins, PlanInv
  <1>2. ASSUME NEW t \in Threads, Step(t)
        PROVE  PlanInv'
    <2>1. PICK c \in CallType : Continues(t, c)
      BY <1>2, StepContinues, Zenon
    <2>2. calls' = calls
      BY <1>2, Zenon DEF Step, StoreValue, StorageIncrement, Erase, DropStored, Exists, InsertSet,
         InsertAdd, Increment, IncrementAgain, Delete, Uncache, CommenceEviction, QueueExpiration
    <2> QED BY <2>1, <2>2, PlanMoves, Zenon DEF Continues, PlanInv
  <1>3. CASE UNCHANGED <<thr, calls>>
    BY <1>3, Zenon DEF PlanInv
  <1>4. Expirer => UNCHANGED <<thr, calls>>
    BY Zenon DEF Expirer, ExpirationJob, TimerFires, ExpireItem, ExpireUncache
  <1>5. Evictor => UNCHANGED <<thr, calls>>
    BY Zenon DEF Evictor, TakeJob, TellNode, NodeUnreachable, TellFails
  <1>6. Caches => UNCHANGED <<thr, calls>>
    BY Zenon DEF Caches, FetchVolatile, FetchStored, Lookup, Link, FetchRemote, Lose
  <1>7. ASSUME NEW n \in Peers, HandleEvict(n)
        PROVE  UNCHANGED <<thr, calls>>
    BY <1>7, Zenon DEF HandleEvict
  <1>8. UNCHANGED vars => UNCHANGED <<thr, calls>>
    BY Zenon DEF vars
  <1> QED BY <1>1, <1>2, <1>3, <1>4, <1>5, <1>6, <1>7, <1>8, Zenon DEF Next
-----------------------------------------------------------------------------
(* CopyInv. *)

SomeoneDoes(s) == \E t \in Threads : Doing(t, s)

(* What follows a change is not forgotten. *)
LEMMA DoingLasts ==
  ASSUME PlanInv, PlanInv', NEW t \in Threads, NEW c, Moves(t, c), NEW s \in Late,
         ~ At(t, s), SomeoneDoes(s)
  PROVE  SomeoneDoes(s)'
  <1>1. thr \in [Threads -> CallType] /\ thr' \in [Threads -> CallType]
    BY Zenon DEF PlanInv
  <1>2. PICK u \in Threads : Has(thr[u].todo, s)
    BY <1>1, DoingIsHas, Zenon DEF SomeoneDoes
  <1>3. Has(thr'[u].todo, s)
    <2>1. CASE u = t
      <3>1. thr'[t] = c
        BY <1>1, Zenon DEF Moves
      <3>2. Has(c.todo, s)
        BY <1>2, <2>1, Zenon DEF Moves, Keeps, At, Busy
      <3> QED BY <3>1, <3>2, <2>1, Zenon
    <2>2. CASE u # t
      <3>1. thr'[u] = thr[u]
        BY <1>1, <2>2, Zenon DEF Moves
      <3> QED BY <3>1, <1>2, Zenon
    <2> QED BY <2>1, <2>2, Zenon
  <1>4. Doing(u, s)'
    BY <1>1, <1>3, DoingIsHas, LenProperties, Zenon DEF Doing, Has, CallType
  <1> QED BY <1>4, Zenon DEF SomeoneDoes

(* What a thread now has left to do somebody does. *)
LEMMA DoingNow ==
  ASSUME PlanInv, PlanInv', NEW t \in Threads, NEW c, Moves(t, c), NEW s, Has(c.todo, s)
  PROVE  SomeoneDoes(s)'
  <1>1. thr' \in [Threads -> CallType] /\ thr'[t] = c /\ thr'[t].todo \in Seq(Steps)
    BY Zenon DEF PlanInv, Moves, CallType
  <1>2. DOMAIN thr'[t].todo = 1..Len(thr'[t].todo)
    BY <1>1, LenProperties, Zenon
  <1>3. Doing(t, s)'
    BY <1>1, <1>2, Zenon DEF Doing, Has
  <1> QED BY <1>3, Zenon DEF SomeoneDoes

(* Who is to drop the owner's copy is to tell the others, too. *)
LEMMA UncacheThenEvict ==
  ASSUME PlanInv, SomeoneDoes("uncache")
  PROVE  SomeoneDoes("evict")
  <1>1. thr \in [Threads -> CallType]
    BY Zenon DEF PlanInv
  <1>2. PICK t \in Threads : Has(thr[t].todo, "uncache")
    BY <1>1, DoingIsHas, Zenon DEF SomeoneDoes
  <1>3. PICK q : q = thr[t].todo
    BY Zenon
  <1>4. Plan(q) /\ Has(q, "uncache") /\ q \in Seq(Steps)
    BY <1>2, <1>3, Zenon DEF PlanInv, CallOK, Plan
  <1>5. Has(q, "evict")
    <2>1. CASE All(q, Early)
      BY <2>1, <1>4, Zenon DEF All, Has, Early
    <2>2. CASE LatePlan(q)
      BY <2>2, <1>4, Zenon DEF LatePlan, Followed, Has
    <2>3. CASE q # << >> /\ Tail(q) = <<"uncache", "evict">>
      <3>1. Has(Tail(q), "evict")
        BY <2>3, LateLists, Zenon
      <3>2. Len(q) \in Nat
        BY <1>4, LenProperties, Zenon
      <3>3. Len(Tail(q)) = Len(q) - 1 /\ \A k \in 1..Len(Tail(q)) : Tail(q)[k] = q[k + 1]
        BY <2>3, <1>4, HeadTailProperties, Zenon
      <3>4. PICK k \in 1..Len(Tail(q)) : Tail(q)[k] = "evict"
        BY <3>1, Zenon DEF Has
      <3>5. k + 1 \in 1..Len(q) /\ q[k + 1] = "evict"
        BY <3>2, <3>3, <3>4
      <3> QED BY <3>5, Zenon DEF Has
    <2> QED BY <2>1, <2>2, <2>3, <1>4, Zenon DEF Plan
  <1> QED BY <1>1, <1>3, <1>5, DoingIsHas, Zenon DEF SomeoneDoes

(* A step of a thread that leaves the evictor alone takes no pending removal
   back, but for what it does itself. *)
LEMMA PendingLasts ==
  ASSUME PlanInv, PlanInv', NEW t \in Threads, NEW c, Moves(t, c), NEW n \in Nodes, Pending(n),
         jobs => jobs', UNCHANGED <<evictor, told>>,
         n = Owner => ~ At(t, "uncache"), n # Owner /\ At(t, "evict") => jobs'
  PROVE  Pending(n)'
  <1>1. "uncache" \in Late /\ "evict" \in Late
    BY Zenon DEF Late
  <1>2. CASE n = Owner
    BY <1>1, <1>2, DoingLasts, Zenon DEF Pending, SomeoneDoes
  <1>3. CASE n # Owner /\ jobs'
    BY <1>3, Zenon DEF Pending
  <1>4. CASE n # Owner /\ ~ jobs'
    BY <1>1, <1>4, DoingLasts, Zenon DEF Pending, SomeoneDoes
  <1> QED BY <1>2, <1>3, <1>4, Zenon

(* A thread that tells of a change makes every removal pending. *)
LEMMA PendingNow ==
  ASSUME PlanInv, PlanInv', NEW t \in Threads, NEW c, Moves(t, c), Tells(c.todo), NEW n \in Nodes
  PROVE  Pending(n)'
  BY DoingNow, Zenon DEF Tells, Pending, SomeoneDoes

(* A step that leaves the caches alone: copies stay current, are told of, or are
   passed over. *)
LEMMA CopiesStay ==
  ASSUME CopyInv, CopyTypes', cache' = cache, excused \subseteq excused',
         \A n \in Nodes : cache[n].ver # 0 /\ n \notin excused' =>
            \/ Pending(n)'
            \/ Current' = Current /\ (Pending(n) => Pending(n)'),
         vol' # NoItem /\ vol = NoItem => Caching \subseteq excused'
  PROVE  CopyInv'
  <1>1. LookedOK'
    <2> SUFFICES ASSUME cache[Owner].st = "looked", cache[Owner].ver = 0, vol' # NoItem
                 PROVE  Owner \in excused'
      BY Zenon DEF LookedOK
    <2>1. CASE vol = NoItem
      <3>1. Owner \in Caching
        BY ItemsBounds DEF Caching, Owner, Nodes
      <3> QED BY <2>1, <3>1, Zenon
    <2>2. CASE vol # NoItem
      BY <2>2, Zenon DEF CopyInv, LookedOK
    <2> QED BY <2>1, <2>2, Zenon
  <1>2. \A n \in Nodes : CopyOK(n)'
    BY Zenon DEF CopyInv, CopyOK
  <1> QED BY <1>1, <1>2, Zenon DEF CopyInv

(* Nobody is told, and everybody who has a copy is passed over. *)
LEMMA AllExcused ==
  ASSUME CopyInv, CopyTypes', cache' = cache, excused' = excused \cup Caching
  PROVE  CopyInv'
  <1>1. \A n \in Nodes : cache[n].ver # 0 => n \in Caching
    BY Zenon DEF CopyInv, CopyOK, Caching
  <1> QED BY <1>1, CopiesStay, Zenon

LEMMA CopyInit == Init => CopyInv
  <1> SUFFICES ASSUME Init PROVE CopyInv
    BY Zenon
  <1>1. NoCopy \in Copy /\ NoCopy.st = "none" /\ NoCopy.ver = 0
    BY Zenon DEF NoCopy, Copy
  <1>2. cache = [n \in Nodes |-> NoCopy] /\ \A n \in Nodes : cache[n] = NoCopy
    BY Zenon DEF Init
  <1>3. CopyTypes
    <2>1. cache \in [Nodes -> Copy]
      BY <1>1, <1>2, Zenon
    <2>2. jobs = FALSE /\ evictor = 0 /\ stored \in (IF storage = "none" THEN {0} ELSE {0, 1})
      BY Zenon DEF Init
    <2>3. vol \in {NoItem, [ver |-> 2, expire |-> TRUE]}
      BY Zenon DEF Init
    <2>4. vol \in Item
      <3>1. NoItem \in Item /\ [ver |-> 2, expire |-> TRUE] \in Item
        BY NoCallOK, Zenon DEF Item
      <3> QED BY <2>3, <3>1, Zenon
    <2>5. stored \in Nat /\ evictor \in 0..NPeers
      BY <2>2, ItemsBounds
    <2> QED BY <2>1, <2>2, <2>4, <2>5, Zenon DEF CopyTypes
  <1>4. Owner \in Nodes
    BY ItemsBounds DEF Owner, Nodes
  <1> QED BY <1>1, <1>2, <1>3, <1>4, Zenon DEF CopyInv, CopyOK, LookedOK

(* The types of what a call writes. *)
LEMMA WrittenTypes ==
  ASSUME PlanInv, NEW t \in Threads
  PROVE  thr[t].item \in Item /\ thr[t].item.ver \in Nat
  BY Zenon DEF PlanInv, CallType, Item

LEMMA CopyBegin ==
  ASSUME PlanInv, PlanInv', CopyInv, NEW t \in Threads, NEW c, Begins(t, c),
         UNCHANGED <<data, timers, eviction, caches>>
  PROVE  CopyInv'
  <1>1. UNCHANGED <<stored, vol, cache, excused, jobs, evictor, told>>
    BY Zenon DEF data, eviction, caches
  <1>2. CopyTypes' /\ Current' = Current
    BY <1>1, Zenon DEF CopyInv, CopyTypes, Current
  <1>3. \A n \in Nodes : Pending(n) => Pending(n)'
    BY <1>1, PendingLasts, Zenon DEF Begins, MayStart, At
  <1> QED BY <1>1, <1>2, <1>3, CopiesStay, Zenon

LEMMA CopyStorage ==
  ASSUME PlanInv, PlanInv', CopyInv, NEW t \in Threads,
         StoreValue(t) \/ StorageIncrement(t) \/ Erase(t)
  PROVE  CopyInv'
  <1>1. PICK c \in CallType : Moves(t, c) /\ Tells(c.todo)
    BY StorageSteps, Zenon DEF Continues
  <1>2. UNCHANGED <<vol, timers, eviction, caches>>
    BY Zenon DEF StoreValue, StorageIncrement, Erase
  <1>3. stored' \in Nat
    BY WrittenTypes DEF StoreValue, StorageIncrement, Erase, CopyInv, CopyTypes
  <1>4. CopyTypes'
    BY <1>2, <1>3, Zenon DEF CopyInv, CopyTypes, eviction, caches
  <1>5. \A n \in Nodes : Pending(n)'
    BY <1>1, PendingNow, Zenon
  <1> QED BY <1>2, <1>4, <1>5, CopiesStay, Zenon DEF caches

LEMMA CopyDrop ==
  ASSUME PlanInv, PlanInv', CopyInv, NEW t \in Threads, DropStored(t)
  PROVE  CopyInv'
  <1>1. PICK c \in CallType : Moves(t, c)
    BY OtherSteps, Zenon DEF Continues
  <1>2. UNCHANGED <<vol, timers, eviction, cache>> /\ At(t, "drop") /\ stored' \in {stored, 0}
    BY Zenon DEF DropStored
  <1>3. CopyTypes'
    BY <1>2 DEF CopyInv, CopyTypes, eviction
  <1>4. CASE vol = NoItem /\ stored' # stored
    BY <1>2, <1>3, <1>4, AllExcused, Zenon DEF DropStored
  <1>5. CASE vol # NoItem \/ stored' = stored
    <2>1. Current' = Current /\ excused' = excused
      BY <1>2, <1>5, Zenon DEF Current, DropStored
    <2>2. ~ At(t, "uncache") /\ ~ At(t, "evict")
      BY <1>2, Zenon DEF At
    <2>3. \A n \in Nodes : Pending(n) => Pending(n)'
      BY <1>1, <1>2, <2>2, PendingLasts, Zenon DEF eviction
    <2> QED BY <1>2, <1>3, <2>1, <2>3, CopiesStay, Zenon
  <1> QED BY <1>4, <1>5, Zenon

LEMMA CopyExists ==
  ASSUME PlanInv, PlanInv', CopyInv, NEW t \in Threads, Exists(t)
  PROVE  CopyInv'
  <1>1. PICK c \in CallType : Moves(t, c)
    BY ExistsStep, Zenon DEF Continues
  <1>2. UNCHANGED <<stored, vol, cache, excused, jobs, evictor, told>> /\ At(t, "exists")
    BY Zenon DEF Exists, data, eviction, caches
  <1>3. CopyTypes' /\ Current' = Current
    BY <1>2, Zenon DEF CopyInv, CopyTypes, Current
  <1>4. ~ At(t, "uncache") /\ ~ At(t, "evict")
    BY <1>2, Zenon DEF At
  <1>5. \A n \in Nodes : Pending(n) => Pending(n)'
    BY <1>1, <1>2, <1>4, PendingLasts, Zenon
  <1> QED BY <1>2, <1>3, <1>5, CopiesStay, Zenon

LEMMA CopyInsert ==
  ASSUME PlanInv, PlanInv', CopyInv, NEW t \in Threads, InsertSet(t) \/ InsertAdd(t)
  PROVE  CopyInv'
  <1>1. PICK c \in CallType :
           /\ Moves(t, c)
           /\ vol' = vol \/ (vol' = thr[t].item /\ (vol = NoItem \/ Tells(c.todo)))
    BY InsertSteps, Zenon DEF Continues
  <1>2. UNCHANGED <<stored, cache, jobs, evictor, told>> /\ At(t, "insert")
    BY Zenon DEF InsertSet, InsertAdd, eviction
  <1>3. CopyTypes'
    BY <1>1, <1>2, WrittenTypes, Zenon DEF CopyInv, CopyTypes
  <1>4. CASE vol = NoItem
    BY <1>2, <1>3, <1>4, AllExcused, Zenon DEF InsertSet, InsertAdd
  <1>5. CASE vol # NoItem
    <2>1. excused' = excused
      BY <1>5, Zenon DEF InsertSet, InsertAdd
    <2>2. CASE vol' = vol
      <3>1. Current' = Current
        BY <1>2, <2>2, Zenon DEF Current
      <3>2. ~ At(t, "uncache") /\ ~ At(t, "evict")
        BY <1>2, Zenon DEF At
      <3>3. \A n \in Nodes : Pending(n) => Pending(n)'
        BY <1>1, <1>2, <3>2, PendingLasts, Zenon
      <3> QED BY <1>2, <1>3, <2>1, <2>2, <3>1, <3>3, CopiesStay, Zenon
    <2>3. CASE Tells(c.todo)
      <3>1. \A n \in Nodes : Pending(n)'
        BY <1>1, <2>3, PendingNow, Zenon
      <3> QED BY <1>2, <1>3, <1>5, <2>1, <3>1, CopiesStay, Zenon
    <2> QED BY <1>1, <1>5, <2>2, <2>3, Zenon
  <1> QED BY <1>4, <1>5, Zenon

LEMMA CopyIncrement ==
  ASSUME PlanInv, PlanInv', CopyInv, NEW t \in Threads, Increment(t) \/ IncrementAgain(t)
  PROVE  CopyInv'
  <1>1. PICK c \in CallType :
           /\ Moves(t, c)
           /\ vol' = vol \/ (Tells(c.todo) /\ vol # NoItem /\ vol' = [vol EXCEPT !.ver = thr[t].item.ver])
    BY IncrementSteps, Zenon DEF Continues
  <1>2. UNCHANGED <<stored, cache, excused, jobs, evictor, told>> /\ (At(t, "increment") \/ At(t, "again"))
    BY Zenon DEF Increment, IncrementAgain, eviction, caches
  <1>3. vol' \in Item
    BY <1>1, WrittenTypes, Zenon DEF CopyInv, CopyTypes, Item
  <1>4. CopyTypes'
    BY <1>2, <1>3, Zenon DEF CopyInv, CopyTypes
  <1>5. CASE vol' = vol
    <2>1. Current' = Current
      BY <1>2, <1>5, Zenon DEF Current
    <2>2. ~ At(t, "uncache") /\ ~ At(t, "evict")
      BY <1>2, Zenon DEF At
    <2>3. \A n \in Nodes : Pending(n) => Pending(n)'
      BY <1>1, <1>2, <2>2, PendingLasts, Zenon
    <2> QED BY <1>2, <1>4, <1>5, <2>1, <2>3, CopiesStay, Zenon
  <1>6. CASE Tells(c.todo) /\ vol # NoItem
    <2>1. \A n \in Nodes : Pending(n)'
      BY <1>1, <1>6, PendingNow, Zenon
    <2> QED BY <1>2, <1>4, <1>6, <2>1, CopiesStay, Zenon
  <1> QED BY <1>1, <1>5, <1>6, Zenon

LEMMA CopyDelete ==
  ASSUME PlanInv, PlanInv', CopyInv, NEW t \in Threads, Delete(t)
  PROVE  CopyInv'
  <1>1. PICK c \in CallType : Moves(t, c) /\ Tells(c.todo)
    BY DeleteStep, Zenon DEF Continues
  <1>2. UNCHANGED <<stored, cache, excused, jobs, evictor, told>> /\ vol' = NoItem
    BY Zenon DEF Delete, eviction, caches
  <1>3. CopyTypes'
    BY <1>2, NoCallOK, Zenon DEF CopyInv, CopyTypes
  <1>4. \A n \in Nodes : Pending(n)'
    BY <1>1, PendingNow, Zenon
  <1> QED BY <1>2, <1>3, <1>4, CopiesStay, Zenon

(* The job is there before the thread forgets that it is to be. *)
LEMMA CopyCommence ==
  ASSUME PlanInv, PlanInv', CopyInv, NEW t \in Threads, CommenceEviction(t) \/ QueueExpiration(t)
  PROVE  CopyInv'
  <1>1. PICK c \in CallType : Moves(t, c)
    BY OtherSteps, Zenon DEF Continues
  <1>2. UNCHANGED <<stored, vol, cache, excused, evictor, told>> /\ ~ At(t, "uncache")
    BY Zenon DEF CommenceEviction, QueueExpiration, data, eviction, caches, At
  <1>3. jobs' \in BOOLEAN /\ (jobs => jobs') /\ (At(t, "evict") => jobs')
    BY Zenon DEF CommenceEviction, QueueExpiration, eviction, At, CopyInv, CopyTypes
  <1>4. CopyTypes' /\ Current' = Current
    BY <1>2, <1>3, Zenon DEF CopyInv, CopyTypes, Current
  <1>5. \A n \in Nodes : Pending(n) => Pending(n)'
    BY <1>1, <1>2, <1>3, PendingLasts, Zenon
  <1> QED BY <1>2, <1>4, <1>5, CopiesStay, Zenon

(* A step that changes the copy of node n only. *)
LEMMA OneCopy ==
  ASSUME CopyInv, NEW n \in Nodes, NEW x \in Copy, cache' = [cache EXCEPT ![n] = x],
         UNCHANGED <<stored, vol, evictor>>, jobs' \in BOOLEAN,
         \A m \in Nodes \ {n} : m \in excused => m \in excused',
         \A m \in Nodes \ {n} : Pending(m) => Pending(m)',
         x.st = "none" => x.ver = 0,
         x.ver # 0 /\ x.ver # Current /\ n \notin excused' => Pending(n)',
         n = Owner /\ x.st = "looked" /\ x.ver = 0 /\ vol # NoItem => Owner \in excused'
  PROVE  CopyInv'
  <1>1. cache \in [Nodes -> Copy] /\ cache'[n] = x /\ \A m \in Nodes \ {n} : cache'[m] = cache[m]
    BY Zenon DEF CopyInv, CopyTypes
  <1>2. CopyTypes' /\ Current' = Current
    BY <1>1, Zenon DEF CopyInv, CopyTypes, Current
  <1>3. \A m \in Nodes \ {n} : CopyOK(m)'
    BY <1>1, <1>2, Zenon DEF CopyInv, CopyOK
  <1>4. CopyOK(n)'
    BY <1>1, <1>2, Zenon DEF CopyOK
  <1>5. LookedOK'
    <2>1. Owner \in Nodes
      BY ItemsBounds DEF Owner, Nodes
    <2>2. CASE n = Owner
      BY <2>2, <1>1, Zenon DEF LookedOK
    <2>3. CASE n # Owner
      BY <2>1, <2>3, <1>1, Zenon DEF LookedOK, CopyInv
    <2> QED BY <2>2, <2>3, Zenon
  <1> QED BY <1>2, <1>3, <1>4, <1>5, Zenon DEF CopyInv

(* arc_remove: the copy is gone, or node n is passed over. *)
LEMMA CopyUncached ==
  ASSUME CopyInv, NEW n \in Nodes, Uncached(n), UNCHANGED <<data, jobs, evictor>>,
         \A m \in Nodes \ {n} : Pending(m) => Pending(m)'
  PROVE  CopyInv'
  <1>1. UNCHANGED <<stored, vol, jobs, evictor>> /\ cache[n] \in Copy /\ jobs \in BOOLEAN
    BY Zenon DEF data, CopyInv, CopyTypes
  <1>2. PICK x : x = Removed(n)
    BY Zenon
  <1>3. cache' = [cache EXCEPT ![n] = x]
    BY <1>2, Zenon DEF Uncached
  <1>4. \A m \in Nodes \ {n} : m \in excused => m \in excused'
    BY Zenon DEF Uncached
  <1>5. CASE cache[n].st = "linked"
    <2>1. x \in Copy /\ x.st = "none" /\ x.ver = 0
      BY <1>2, <1>5, Zenon DEF Removed, NoCopy, Copy
    <2> QED BY <1>1, <1>3, <1>4, <2>1, OneCopy, Zenon
  <1>6. CASE cache[n].st \in {"locked", "looked"}
    <2>1. x = cache[n] /\ n \in excused'
      BY <1>2, <1>6, Zenon DEF Removed, Uncached, Ignored
    <2> QED BY <1>1, <1>3, <1>4, <1>6, <2>1, OneCopy, Zenon
  <1>7. CASE cache[n].st = "none"
    <2>1. x = cache[n] /\ x.ver = 0
      BY <1>2, <1>7, Zenon DEF Removed, CopyInv, CopyOK
    <2> QED BY <1>1, <1>3, <1>4, <1>7, <2>1, OneCopy, Zenon
  <1> QED BY <1>1, <1>5, <1>6, <1>7, Zenon DEF Copy

LEMMA CopyUncache ==
  ASSUME PlanInv, PlanInv', CopyInv, NEW t \in Threads, Uncache(t)
  PROVE  CopyInv'
  <1>1. PICK c \in CallType : Moves(t, c)
    BY OtherSteps, Zenon DEF Continues
  <1>2. Uncached(Owner) /\ UNCHANGED <<data, jobs, evictor, told>> /\ At(t, "uncache")
    BY Zenon DEF Uncache, eviction
  <1>3. ~ At(t, "evict") /\ Owner \in Nodes
    BY <1>2, ItemsBounds DEF At, Owner, Nodes
  <1>4. \A m \in Nodes \ {Owner} : Pending(m) => Pending(m)'
    BY <1>1, <1>2, <1>3, PendingLasts, Zenon
  <1> QED BY <1>2, <1>3, <1>4, CopyUncached, Zenon

(* The expirer. *)
LEMMA CopyExpirer ==
  ASSUME CopyInv, Expirer
  PROVE  CopyInv'
  <1>1. UNCHANGED <<thr, stored, jobs, evictor, told>>
    BY Zenon DEF Expirer, ExpirationJob, TimerFires, ExpireItem, ExpireUncache, data, eviction
  <1>2. \A n \in Nodes : Pending(n) => Pending(n)'
    BY <1>1, Zenon DEF Pending, Doing
  <1>3. CASE ExpirationJob \/ TimerFires
    <2>1. UNCHANGED <<vol, cache, excused>>
      BY <1>3, Zenon DEF ExpirationJob, TimerFires, data, caches
    <2>2. CopyTypes' /\ Current' = Current
      BY <1>1, <2>1, Zenon DEF CopyInv, CopyTypes, Current
    <2> QED BY <1>2, <2>1, <2>2, CopiesStay, Zenon
  <1>4. CASE ExpireItem
    <2>1. vol' = NoItem /\ cache' = cache /\ CopyTypes'
      BY <1>1, <1>4, NoCallOK, Zenon DEF ExpireItem, CopyInv, CopyTypes
    <2>2. CASE vol # NoItem
      BY <1>4, <2>1, <2>2, AllExcused, Zenon DEF ExpireItem
    <2>3. CASE vol = NoItem
      <3>1. excused' = excused /\ Current' = Current
        BY <1>1, <1>4, <2>1, <2>3, Zenon DEF ExpireItem, Current
      <3> QED BY <1>2, <2>1, <3>1, CopiesStay, Zenon
    <2> QED BY <2>2, <2>3, Zenon
  <1>5. CASE ExpireUncache
    <2>1. Owner \in Nodes
      BY ItemsBounds DEF Owner, Nodes
    <2> QED BY <1>1, <1>2, <1>5, <2>1, CopyUncached, Zenon DEF ExpireUncache
  <1> QED BY <1>3, <1>4, <1>5, Zenon DEF Expirer

(* The evictor: from the job to the nodes in their order. *)
LEMMA CopyEvictor ==
  ASSUME CopyInv, Evictor
  PROVE  CopyInv'
  <1>1. UNCHANGED <<thr, stored, vol, cache>>
    BY Zenon DEF Evictor, TakeJob, TellNode, NodeUnreachable, TellFails, data, caches
  <1>2. evictor \in 0..NPeers /\ jobs \in BOOLEAN /\ NPeers \in Nat \ {0}
    BY ItemsBounds, Zenon DEF CopyInv, CopyTypes
  <1>3. evictor' \in 0..NPeers /\ jobs' \in BOOLEAN
    <2>1. evictor' \in {0, 1, IF evictor = NPeers THEN 0 ELSE evictor + 1} /\ jobs' \in {jobs, FALSE}
      BY Zenon DEF Evictor, TakeJob, TellNode, NodeUnreachable, TellFails
    <2>2. (IF evictor = NPeers THEN 0 ELSE evictor + 1) \in 0..NPeers /\ 1 \in 0..NPeers /\ 0 \in 0..NPeers
      BY <1>2
    <2> QED BY <1>2, <2>1, <2>2, Zenon
  <1>4. CopyTypes' /\ Current' = Current
    BY <1>1, <1>3, Zenon DEF CopyInv, CopyTypes, Current
  <1>5. excused \subseteq excused'
    BY Zenon DEF Evictor, TakeJob, TellNode, NodeUnreachable, TellFails, caches
  <1>6. ASSUME NEW n \in Nodes, cache[n].ver # 0, n \notin excused', Pending(n)
        PROVE  Pending(n)'
    <2>1. CASE n = Owner \/ \E t \in Threads : Doing(t, "evict")
      BY <1>1, <1>6, <2>1, Zenon DEF Pending, Doing
    <2>2. CASE n # Owner /\ (jobs \/ (evictor # 0 /\ evictor <= n) \/ n \in told)
      <3>1. n \in 1..NPeers
        BY <1>2, <1>6, <2>2 DEF Nodes, Owner
      <3>2. n \in Caching
        BY <1>6, Zenon DEF CopyInv, CopyOK, Caching
      <3>3. CASE TakeJob
        BY <2>2, <3>1, <3>3, <1>2 DEF TakeJob, Pending
      <3>4. CASE TellNode
        <4>1. told' = told \cup {evictor} /\ jobs' = jobs
              /\ evictor' = IF evictor = NPeers THEN 0 ELSE evictor + 1
          BY <3>4, Zenon DEF TellNode
        <4>2. jobs' \/ (evictor' # 0 /\ evictor' <= n) \/ n \in told'
          BY <4>1, <2>2, <3>1, <1>2
        <4> QED BY <4>2, <2>2, Zenon DEF Pending
      <3>5. CASE NodeUnreachable
        BY <1>6, <2>2, <3>1, <3>2, <3>5, <1>2, Zenon DEF NodeUnreachable, Pending
      <3>6. CASE TellFails
        <4>1. told' = told /\ jobs' = jobs
              /\ evictor' = (IF evictor = NPeers THEN 0 ELSE evictor + 1)
          BY <3>6, Zenon DEF TellFails
        <4>2. n # evictor
          BY <1>6, <3>2, <3>6, Zenon DEF TellFails
        <4>3. jobs' \/ (evictor' # 0 /\ evictor' <= n) \/ n \in told'
          BY <4>1, <4>2, <2>2, <3>1, <1>2
        <4> QED BY <4>3, <2>2, Zenon DEF Pending
      <3> QED BY <3>3, <3>4, <3>5, <3>6, Zenon DEF Evictor
    <2> QED BY <1>6, <2>1, <2>2, Zenon DEF Pending
  <1> QED BY <1>1, <1>4, <1>5, <1>6, CopiesStay, Zenon

LEMMA CopyHandle ==
  ASSUME CopyInv, NEW n \in Peers, HandleEvict(n)
  PROVE  CopyInv'
  <1>1. n \in Nodes
    BY ItemsBounds DEF Peers, Nodes
  <1>2. UNCHANGED <<data, jobs, evictor, thr>> /\ told' = told \ {n} /\ Uncached(n)
    BY Zenon DEF HandleEvict
  <1>3. \A m \in Nodes \ {n} : Pending(m) => Pending(m)'
    BY <1>2, Zenon DEF Pending, Doing
  <1> QED BY <1>1, <1>2, <1>3, CopyUncached, Zenon

(* The owner fetches: the item it finds is current, and who found none is passed
   over if there is one by now. *)
LEMMA CopyFetch ==
  ASSUME CopyInv, FetchVolatile \/ FetchStored
  PROVE  CopyInv'
  <1>1. UNCHANGED <<thr, stored, vol, jobs, evictor, told>>
    BY Zenon DEF FetchVolatile, FetchStored, data, eviction
  <1>2. \A n \in Nodes : Pending(n) => Pending(n)'
    BY <1>1, Zenon DEF Pending, Doing
  <1>3. Owner \in Nodes /\ cache[Owner] \in Copy /\ vol \in Item /\ stored \in Nat /\ jobs \in BOOLEAN
        /\ cache \in [Nodes -> Copy]
    BY ItemsBounds DEF Owner, Nodes, CopyInv, CopyTypes
  <1>4. CASE FetchVolatile
    <2>1. PICK x : x = IF vol # NoItem THEN [cache[Owner] EXCEPT !.ver = vol.ver]
                                       ELSE [cache[Owner] EXCEPT !.st = "looked"]
      BY Zenon
    <2>2. cache' = [cache EXCEPT ![Owner] = x] /\ excused' = excused
      BY <1>3, <1>4, <2>1, Zenon DEF FetchVolatile
    <2>3. cache[Owner].st = "locked" /\ cache[Owner].ver = 0
      BY <1>4 DEF FetchVolatile
    <2>4. vol # NoItem => x \in Copy /\ x.ver = Current /\ x.st = "locked"
      BY <1>3, <2>1, <2>3, Zenon DEF Copy, Item, Current
    <2>5. vol = NoItem => x \in Copy /\ x.ver = 0 /\ x.st = "looked"
      BY <1>3, <2>1, <2>3, Zenon DEF Copy
    <2> QED BY <1>1, <1>2, <1>3, <2>2, <2>4, <2>5, OneCopy, Zenon
  <1>5. CASE FetchStored
    <2>1. PICK x : x = IF stored # 0 THEN [cache[Owner] EXCEPT !.ver = stored] ELSE NoCopy
      BY Zenon
    <2>2. cache' = [cache EXCEPT ![Owner] = x]
      BY <1>3, <1>5, <2>1, Zenon DEF FetchStored
    <2>3. cache[Owner].st = "looked" /\ cache[Owner].ver = 0
      BY <1>5 DEF FetchStored
    <2>4. stored = 0 => x \in Copy /\ x.ver = 0 /\ x.st = "none"
      BY <2>1, Zenon DEF NoCopy, Copy
    <2>5. stored # 0 => x \in Copy /\ x.ver = stored /\ x.st = "looked"
      BY <1>3, <2>1, <2>3, Zenon DEF Copy
    <2>6. vol # NoItem /\ stored # 0 => Owner \in excused'
      BY <1>5, <2>3, Zenon DEF FetchStored, CopyInv, LookedOK
    <2>7. vol = NoItem => Current = stored
      BY Zenon DEF Current
    <2>8. \A m \in Nodes \ {Owner} : m \in excused => m \in excused'
      BY <1>5, Zenon DEF FetchStored
    <2> QED BY <1>1, <1>2, <1>3, <2>2, <2>4, <2>5, <2>6, <2>7, <2>8, OneCopy, Zenon
  <1> QED BY <1>4, <1>5, Zenon

(* A node that asks the owner gets a copy as old as the owner's: who is to drop
   the owner's is to tell this node afterwards. *)
LEMMA CopyNode ==
  ASSUME PlanInv, CopyInv, NEW n \in Nodes, Lookup(n) \/ Link(n) \/ FetchRemote(n) \/ Lose(n)
  PROVE  CopyInv'
  <1>1. UNCHANGED <<thr, stored, vol, jobs, evictor, told>>
    BY Zenon DEF Lookup, Link, FetchRemote, Lose, data, eviction
  <1>2. \A m \in Nodes : Pending(m) => Pending(m)'
    BY <1>1, Zenon DEF Pending, Doing
  <1>3. cache[n] \in Copy /\ jobs \in BOOLEAN /\ cache \in [Nodes -> Copy] /\ Owner \in Nodes
        /\ cache[Owner] \in Copy
    BY ItemsBounds DEF CopyInv, CopyTypes, Owner, Nodes
  <1>4. CASE Lookup(n)
    <2>1. PICK x : x = [cache[n] EXCEPT !.st = "locked"]
      BY Zenon
    <2>2. cache' = [cache EXCEPT ![n] = x] /\ excused' = excused /\ cache[n].st = "none"
      BY <1>3, <1>4, <2>1, Zenon DEF Lookup
    <2>3. x \in Copy /\ x.st = "locked" /\ x.ver = 0
      BY <1>3, <2>1, <2>2, Zenon DEF Copy, CopyInv, CopyOK
    <2> QED BY <1>1, <1>2, <1>3, <2>2, <2>3, OneCopy, Zenon
  <1>5. CASE Link(n)
    <2>1. PICK x : x = [cache[n] EXCEPT !.st = "linked"]
      BY Zenon
    <2>2. cache' = [cache EXCEPT ![n] = x] /\ excused' = excused
      BY <1>3, <1>5, <2>1, Zenon DEF Link, caches
    <2>3. x \in Copy /\ x.st = "linked" /\ x.ver = cache[n].ver
      BY <1>3, <2>1, Zenon DEF Copy
    <2>4. x.ver # 0 /\ x.ver # Current /\ n \notin excused' => Pending(n)'
      BY <1>2, <2>2, <2>3, Zenon DEF CopyInv, CopyOK
    <2> QED BY <1>1, <1>2, <1>3, <2>2, <2>3, <2>4, OneCopy, Zenon
  <1>6. CASE FetchRemote(n)
    <2>1. PICK x : x = [cache[n] EXCEPT !.ver = cache[Owner].ver]
      BY Zenon
    <2>2. cache' = [cache EXCEPT ![n] = x] /\ n # Owner /\ cache[n].st # "none"
      BY <1>3, <1>6, <2>1, Zenon DEF FetchRemote
    <2>3. x \in Copy /\ x.st # "none" /\ x.ver = cache[Owner].ver
      BY <1>3, <2>1, <2>2, Zenon DEF Copy
    <2>4. excused \subseteq excused' /\ (n \notin excused' => Owner \notin excused)
      BY <1>6, Zenon DEF FetchRemote
    <2>5. x.ver # 0 /\ x.ver # Current /\ n \notin excused' => Pending(n)'
      <3> SUFFICES ASSUME x.ver # 0, x.ver # Current, n \notin excused' PROVE Pending(n)
        BY <1>2, Zenon
      <3>1. Pending(Owner)
        BY <1>3, <2>3, <2>4 DEF CopyInv, CopyOK
      <3>2. SomeoneDoes("evict")
        BY <3>1, UncacheThenEvict, Zenon DEF Pending, SomeoneDoes
      <3> QED BY <2>2, <3>2, Zenon DEF Pending, SomeoneDoes
    <2> QED BY <1>1, <1>2, <1>3, <2>2, <2>3, <2>4, <2>5, OneCopy, Zenon
  <1>7. CASE Lose(n)
    <2>1. cache' = [cache EXCEPT ![n] = NoCopy] /\ excused' = excused \ {n}
      BY <1>7, Zenon DEF Lose
    <2>2. NoCopy \in Copy /\ NoCopy.st = "none" /\ NoCopy.ver = 0
      BY Zenon DEF NoCopy, Copy
    <2> QED BY <1>1, <1>2, <1>3, <2>1, <2>2, OneCopy, Zenon
  <1> QED BY <1>4, <1>5, <1>6, <1>7, Zenon

LEMMA CopyNext ==
  ASSUME PlanInv, PlanInv', CopyInv, [Next]_vars
  PROVE  CopyInv'
  <1>1. ASSUME NEW t \in Threads, Calls(t)
        PROVE  CopyInv'
    <2>1. UNCHANGED <<data, timers, eviction, caches>>
      BY <1>1, Zenon DEF Calls, DeleteCall, Set, Add, IncrementCall, Call
    <2> QED BY <1>1, <2>1, CallsBegin, CopyBegin, Zenon
  <1>2. ASSUME NEW t \in Threads, Step(t)
        PROVE  CopyInv'
    BY <1>2, CopyStorage, CopyDrop, CopyExists, CopyInsert, CopyIncrement, CopyDelete, CopyCommence,
       CopyUncache, Zenon DEF Step
  <1>3. CASE Caches
    BY <1>3, CopyFetch, CopyNode, Zenon DEF Caches
  <1>4. CASE UNCHANGED vars
    <2>1. UNCHANGED <<thr, stored, vol, cache, excused, jobs, evictor, told>>
      BY <1>4, Zenon DEF vars, data, eviction, caches
    <2> QED BY <2>1, Zenon DEF CopyInv, CopyTypes, CopyOK, LookedOK, Pending, Doing, Current
  <1> QED BY <1>1, <1>2, <1>3, <1>4, CopyExpirer, CopyEvictor, CopyHandle, Zenon DEF Next

(* What a thread has to do and what the copies are, together. *)
THEOREM CopiesInvariant == Spec => [](PlanInv /\ CopyInv)
  <1>1. Init => PlanInv /\ CopyInv
    BY PlanInit, CopyInit, Zenon
  <1>2. PlanInv /\ CopyInv /\ [Next]_vars => (PlanInv /\ CopyInv)'
    BY PlanNext, CopyNext, Zenon
  <1> QED BY <1>1, <1>2, PTL DEF Spec

(* A node that has an old value in its cache is going to drop it, for any number
   of threads, peers and calls, whether or not DELETE runs alone. *)
THEOREM OldCopiesGo == Spec => []StaleIsPending
  <1>1. CopyInv => StaleIsPending
    BY Zenon DEF CopyInv, CopyOK, StaleIsPending, Stale
  <1> QED BY <1>1, CopiesInvariant, PTL
-----------------------------------------------------------------------------
(* TimerInv: DELETE runs alone. *)

LEMMA TimerInit == Init => TimerInv
  <1> SUFFICES ASSUME Init PROVE TimerInv
    BY Zenon
  <1>1. queue = << >> /\ timer = vol.expire /\ thr = [t \in Threads |-> NoCall]
    BY Zenon DEF Init
  <1>2. vol \in Item
    BY CopyInit, Zenon DEF CopyInv, CopyTypes
  <1>3. queue \in Seq({"schedule", "unschedule"})
    BY <1>1, EmptySeq, Zenon
  <1>4. \A t \in Threads : ~ Busy(t)
    BY <1>1, NoCallOK, Zenon DEF Busy
  <1>5. TimerCovers
    BY <1>1, Zenon DEF TimerCovers
  <1> QED BY <1>2, <1>3, <1>4, <1>5, Zenon DEF TimerInv, TimerTypes, Alone, At

(* A step that leaves the timers alone, and schedules what it adds. *)
LEMMA CoverLasts ==
  ASSUME PlanInv, PlanInv', TimerCovers, NEW t \in Threads, NEW c, Moves(t, c), ~ At(t, "schedule"),
         UNCHANGED timers, vol'.expire => vol.expire
  PROVE  TimerCovers'
  <1>1. UNCHANGED <<timer, queue, expirer>>
    BY Zenon DEF timers
  <1>2. SomeoneDoes("schedule") => SomeoneDoes("schedule")'
    BY DoingLasts, Zenon DEF Late
  <1> QED BY <1>1, <1>2, Zenon DEF TimerCovers, SomeoneDoes

(* The lists of the others stay as they are. *)
LEMMA OthersStay ==
  ASSUME PlanInv, NEW t \in Threads, NEW c, Moves(t, c)
  PROVE  thr'[t] = c /\ \A u \in Threads \ {t} : thr'[u] = thr[u]
  BY Zenon DEF PlanInv, Moves

LEMMA AloneBegin ==
  ASSUME DeleteAlone, PlanInv, Alone, NEW t \in Threads, NEW c, Begins(t, c), vol' = vol
  PROVE  Alone'
  <1>1. thr'[t] = c /\ \A u \in Threads \ {t} : thr'[u] = thr[u]
    BY OthersStay, Zenon DEF Begins
  <1>2. ~ Busy(t) /\ \A u \in Threads : Busy(u) => c.kind # "delete" /\ thr[u].kind # "delete"
    BY Zenon DEF Begins, MayStart
  <1>3. \A a, b \in Threads : Busy(a)' /\ thr'[a].kind = "delete" /\ Busy(b)' => a = b
    <2> SUFFICES ASSUME NEW a \in Threads, NEW b \in Threads,
                        Busy(a)', thr'[a].kind = "delete", Busy(b)', a # b
                 PROVE  FALSE
      BY Zenon
    <2>1. CASE a = t
      BY <1>1, <1>2, <2>1, Zenon DEF Busy
    <2>2. CASE a # t
      BY <1>1, <1>2, <2>2, Zenon DEF Busy
    <2> QED BY <2>1, <2>2, Zenon
  <1>4. ~ At(t, "unschedule")'
    BY <1>1, Zenon DEF Begins, At, Busy
  <1>5. \A u \in Threads \ {t} : At(u, "unschedule")' => At(u, "unschedule")
    BY <1>1, Zenon DEF At, Busy
  <1> QED BY <1>3, <1>4, <1>5, Zenon DEF Alone

(* While a DELETE runs no other call writes; when its item is gone it stays gone. *)
LEMMA AloneContinues ==
  ASSUME PlanInv, Alone, NEW t \in Threads, NEW c, Continues(t, c), Busy(t),
         At(t, "delete") => vol' = NoItem
  PROVE  Alone'
  <1>1. thr'[t] = c /\ \A u \in Threads \ {t} : thr'[u] = thr[u]
    BY OthersStay, Zenon DEF Continues
  <1>2. \A u \in Threads : Busy(u)' => Busy(u)
    BY <1>1, Zenon DEF Busy
  <1>3. \A u \in Threads : thr'[u].kind = "delete" => thr[u].kind = "delete"
    BY <1>1, Zenon DEF Continues
  <1>4. \A u \in Threads : At(u, "unschedule")' => vol' = NoItem
    <2> SUFFICES ASSUME NEW u \in Threads, At(u, "unschedule")' PROVE vol' = NoItem
      BY Zenon
    <2>1. CASE u = t
      BY <1>1, <2>1, Zenon DEF Continues, At, Busy
    <2>2. CASE u # t
      <3>1. At(u, "unschedule")
        BY <1>1, <2>2, Zenon DEF At, Busy
      <3>2. thr[u].kind = "delete" /\ Busy(u)
        BY <3>1, BusyPlan, Zenon DEF At
      <3> QED BY <3>2, <2>2, Zenon DEF Alone
    <2> QED BY <2>1, <2>2, Zenon
  <1> QED BY <1>2, <1>3, <1>4, Zenon DEF Alone

(* The steps of the calls. *)
LEMMA TimerStep ==
  ASSUME PlanInv, PlanInv', TimerInv, NEW t \in Threads, Step(t)
  PROVE  TimerInv'
  <1>1. Busy(t)
    BY Zenon DEF Step, StoreValue, StorageIncrement, Erase, DropStored, Exists, InsertSet, InsertAdd,
       Increment, IncrementAgain, Delete, Uncache, CommenceEviction, QueueExpiration, At
  <1>2. thr[t].item \in Item /\ vol \in Item /\ queue \in Seq({"schedule", "unschedule"})
    BY WrittenTypes, Zenon DEF TimerInv, TimerTypes
  <1>3. CASE StoreValue(t) \/ StorageIncrement(t) \/ Erase(t) \/ DropStored(t) \/ Exists(t)
             \/ Uncache(t) \/ CommenceEviction(t)
    <2>1. UNCHANGED <<vol, timers>> /\ ~ At(t, "delete") /\ ~ At(t, "schedule")
      BY <1>3, Zenon DEF StoreValue, StorageIncrement, Erase, DropStored, Exists, Uncache, CommenceEviction,
         data, At
    <2>2. PICK c \in CallType : Continues(t, c)
      BY StepContinues
    <2>3. Alone' /\ TimerCovers'
      BY <1>1, <2>1, <2>2, AloneContinues, CoverLasts, Zenon DEF Continues, TimerInv
    <2> QED BY <2>1, <2>3, Zenon DEF TimerInv, TimerTypes, timers
  <1>4. CASE InsertSet(t) \/ InsertAdd(t)
    <2>1. PICK c \in CallType :
             Continues(t, c) /\ (vol' = vol \/ (vol' = thr[t].item /\ (vol'.expire => Has(c.todo, "schedule"))))
      BY <1>4, InsertSteps, Zenon
    <2>2. UNCHANGED timers /\ ~ At(t, "delete") /\ ~ At(t, "schedule")
      BY <1>4, Zenon DEF InsertSet, InsertAdd, At
    <2>3. TimerCovers'
      <3>1. CASE vol' = vol
        BY <2>1, <2>2, <3>1, CoverLasts, Zenon DEF Continues, TimerInv
      <3>2. CASE vol'.expire => Has(c.todo, "schedule")
        <4>1. vol'.expire => SomeoneDoes("schedule")'
          BY <2>1, <3>2, DoingNow, Zenon DEF Continues
        <4> QED BY <4>1, Zenon DEF TimerCovers, SomeoneDoes
      <3> QED BY <2>1, <3>1, <3>2, Zenon
    <2>4. Alone'
      BY <1>1, <2>1, <2>2, AloneContinues, Zenon DEF TimerInv
    <2>5. vol' \in Item
      BY <1>2, <2>1, Zenon
    <2> QED BY <1>2, <2>2, <2>3, <2>4, <2>5, Zenon DEF TimerInv, TimerTypes, timers
  <1>5. CASE Increment(t) \/ IncrementAgain(t)
    <2>1. PICK c \in CallType :
             Continues(t, c) /\ (vol' = vol \/ vol' = [vol EXCEPT !.ver = thr[t].item.ver])
      BY <1>5, IncrementSteps, Zenon
    <2>2. UNCHANGED timers /\ ~ At(t, "delete") /\ ~ At(t, "schedule")
      BY <1>5, Zenon DEF Increment, IncrementAgain, At
    <2>3. vol' \in Item /\ vol'.expire = vol.expire
      BY <1>2, <2>1, WrittenTypes, Zenon DEF Item
    <2>4. Alone' /\ TimerCovers'
      BY <1>1, <2>1, <2>2, <2>3, AloneContinues, CoverLasts, Zenon DEF Continues, TimerInv
    <2> QED BY <1>2, <2>2, <2>3, <2>4, Zenon DEF TimerInv, TimerTypes, timers
  <1>6. CASE Delete(t)
    <2>1. PICK c \in CallType : Continues(t, c)
      BY StepContinues, Zenon
    <2>2. vol' = NoItem /\ UNCHANGED timers /\ ~ vol'.expire
      BY <1>6, Zenon DEF Delete, NoItem
    <2>3. Alone' /\ TimerCovers'
      BY <1>1, <2>1, <2>2, AloneContinues, Zenon DEF TimerInv, TimerCovers
    <2> QED BY <1>2, <2>2, <2>3, NoCallOK, Zenon DEF TimerInv, TimerTypes, timers
  <1>7. CASE QueueExpiration(t)
    <2>1. PICK c \in CallType : Continues(t, c)
      BY StepContinues, Zenon
    <2>2. PICK s \in {"schedule", "unschedule"} : At(t, s)
      BY <1>7, Zenon DEF QueueExpiration
    <2>3. queue' = Append(queue, s) /\ vol' = vol
      BY <1>7, <2>2, Zenon DEF QueueExpiration, data, At
    <2>4. /\ queue' \in Seq({"schedule", "unschedule"}) /\ queue' # << >>
          /\ Len(queue') = Len(queue) + 1 /\ queue'[Len(queue) + 1] = s
      BY <1>2, <2>3, AppendProperties
    <2>5. TimerCovers'
      <3>1. CASE s = "schedule"
        BY <2>4, <3>1, Zenon DEF TimerCovers
      <3>2. CASE s = "unschedule"
        <4>1. vol' = NoItem
          BY <2>2, <2>3, <3>2, Zenon DEF TimerInv, Alone
        <4>2. ~ vol'.expire
          BY <4>1, Zenon DEF NoItem
        <4> QED BY <4>2, Zenon DEF TimerCovers
      <3> QED BY <3>1, <3>2, Zenon
    <2>6. Alone'
      <3>1. ~ At(t, "delete")
        BY <2>2, Zenon DEF At
      <3> QED BY <1>1, <2>1, <3>1, AloneContinues, Zenon DEF TimerInv
    <2> QED BY <1>2, <2>3, <2>4, <2>5, <2>6 DEF TimerInv, TimerTypes
  <1> QED BY <1>3, <1>4, <1>5, <1>6, <1>7, Zenon DEF Step

(* The expirer takes the jobs in their order: the last one decides. *)
LEMMA TimerExpirer ==
  ASSUME TimerInv, Expirer
  PROVE  TimerInv'
  <1>1. thr' = thr /\ vol' \in {vol, NoItem}
    BY Zenon DEF Expirer, ExpirationJob, TimerFires, ExpireItem, ExpireUncache, data
  <1>2. Alone' /\ vol' \in Item /\ queue \in Seq({"schedule", "unschedule"})
    BY <1>1, NoCallOK, Zenon DEF TimerInv, TimerTypes, Alone, Busy, At
  <1>3. (\E t \in Threads : Doing(t, "schedule")) => (\E t \in Threads : Doing(t, "schedule"))'
    BY <1>1, Zenon DEF Doing
  <1>4. CASE ExpirationJob
    <2>1. queue # << >> /\ queue' = Tail(queue) /\ timer' = (Head(queue) = "schedule")
          /\ vol' = vol /\ expirer = "idle"
      BY <1>4, Zenon DEF ExpirationJob, data
    <2>2. PICK q, p : q = queue /\ p = Tail(q)
      BY Zenon
    <2>3. q \in Seq({"schedule", "unschedule"}) /\ q # << >>
      BY <1>2, <2>1, <2>2, Zenon
    <2>4. p \in Seq({"schedule", "unschedule"}) /\ Len(p) = Len(q) - 1 /\ \A i \in 1..Len(p) : p[i] = q[i + 1]
      BY <2>2, <2>3, HeadTailProperties, Zenon
    <2>5. Len(q) \in Nat /\ Len(q) # 0 /\ Len(p) \in Nat /\ (p # << >> => Len(p) # 0) /\ Head(q) = q[1]
          /\ (p = << >> => Len(p) = 0)
      BY <2>3, <2>4, EmptySeq, LenProperties
    <2>6. p # << >> => p[Len(p)] = q[Len(q)]
      BY <2>4, <2>5
    <2>7. p = << >> => Head(q) = q[Len(q)]
      <3>1. p = << >> => Len(q) = 1
        BY <2>4, <2>5
      <3> QED BY <3>1, <2>5, Zenon
    <2>8. vol.expire => (\E t \in Threads : Doing(t, "schedule")) \/ q[Len(q)] = "schedule"
      BY <2>1, <2>2, Zenon DEF TimerInv, TimerCovers
    <2>9. queue' = p /\ timer' = (Head(q) = "schedule")
      BY <2>1, <2>2, Zenon
    <2>10. TimerCovers'
      BY <1>3, <2>1, <2>6, <2>7, <2>8, <2>9, Zenon DEF TimerCovers
    <2> QED BY <1>2, <2>4, <2>9, <2>10, Zenon DEF TimerInv, TimerTypes
  <1>5. CASE TimerFires
    BY <1>2, <1>5, Zenon DEF TimerFires, TimerInv, TimerTypes, TimerCovers
  <1>6. CASE ExpireItem
    <2>1. ~ vol'.expire /\ queue' = queue
      BY <1>6, Zenon DEF ExpireItem, NoItem
    <2> QED BY <1>2, <2>1, Zenon DEF TimerInv, TimerTypes, TimerCovers
  <1>7. CASE ExpireUncache
    <2>1. UNCHANGED <<vol, timer, queue>> /\ expirer = "uncache"
      BY <1>7, Zenon DEF ExpireUncache, data
    <2>2. TimerCovers'
      BY <1>3, <2>1, Zenon DEF TimerInv, TimerCovers
    <2> QED BY <1>2, <2>1, <2>2, Zenon DEF TimerInv, TimerTypes
  <1> QED BY <1>4, <1>5, <1>6, <1>7, Zenon DEF Expirer

LEMMA TimerNext ==
  ASSUME DeleteAlone, PlanInv, PlanInv', TimerInv, [Next]_vars
  PROVE  TimerInv'
  <1>1. ASSUME NEW t \in Threads, Calls(t)
        PROVE  TimerInv'
    <2>1. UNCHANGED <<vol, timers>>
      BY <1>1, Zenon DEF Calls, DeleteCall, Set, Add, IncrementCall, Call, data
    <2>2. PICK c \in CallType : Begins(t, c)
      BY <1>1, CallsBegin, Zenon
    <2>3. Alone'
      BY <2>1, <2>2, AloneBegin, Zenon DEF TimerInv
    <2>4. TimerCovers'
      BY <2>1, <2>2, CoverLasts, Zenon DEF TimerInv, Begins, MayStart, At
    <2> QED BY <2>1, <2>3, <2>4, Zenon DEF TimerInv, TimerTypes, timers
  <1>2. CASE UNCHANGED <<vol, timers, thr>>
    BY <1>2 DEF TimerInv, TimerTypes, Alone, TimerCovers, Doing, Busy, At, timers
  <1>3. Evictor => UNCHANGED <<vol, timers, thr>>
    BY Zenon DEF Evictor, TakeJob, TellNode, NodeUnreachable, TellFails, data
  <1>4. Caches => UNCHANGED <<vol, timers, thr>>
    BY Zenon DEF Caches, FetchVolatile, FetchStored, Lookup, Link, FetchRemote, Lose, data
  <1>5. ASSUME NEW n \in Peers, HandleEvict(n)
        PROVE  UNCHANGED <<vol, timers, thr>>
    BY <1>5, Zenon DEF HandleEvict, data
  <1>6. UNCHANGED vars => UNCHANGED <<vol, timers, thr>>
    BY Zenon DEF vars, data
  <1> QED BY <1>1, <1>2, <1>3, <1>4, <1>5, <1>6, TimerStep, TimerExpirer, Zenon DEF Next

(* An item that is to expire has a timer, a job or a call that will see to it, for
   any number of threads and calls, when no DELETE runs together with another
   call. *)
THEOREM ItemsExpire ==
  ASSUME DeleteAlone
  PROVE  Spec => []TimerCovers
  <1>1. Init => PlanInv /\ TimerInv
    BY PlanInit, TimerInit, Zenon
  <1>2. PlanInv /\ TimerInv /\ [Next]_vars => (PlanInv /\ TimerInv)'
    BY PlanNext, TimerNext, Zenon
  <1>3. TimerInv => TimerCovers
    BY Zenon DEF TimerInv
  <1> QED BY <1>1, <1>2, <1>3, PTL DEF Spec
=============================================================================
