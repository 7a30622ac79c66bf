----------------------- MODULE KepaxosSequentialProofs -----------------------
(* Proofs about Kepaxos when commands are issued one after the other: the replicas
   align if nothing fails, and whatever fails the votes a leader counts are those of
   different replicas. *)
EXTENDS KepaxosProofs

-----------------------------------------------------------------------------
(* One command after the other, without faults *)

(* Replica n has the command with seq s, ballot b and value x. *)
At(n, s, b, x) == log[n].seq = s /\ log[n].ballot = b /\ store[n] = x

(* Every replica has it, and nothing is going on. *)
Rested(s, b, x) ==
  /\ msgs = {}
  /\ \A n \in Nodes : At(n, s, b, x) /\ cmds[n] = NoCmd /\ committing[n].pc = "none"
  /\ \A v \in Values : run[v].pc \in {"idle", "returned"}

Announcement(l, p, c, s, v) == Message("COMMIT", l, p, c, s, TRUE, v)

(* The messages of the round of command v, by leader l under ballot c. *)
OfRound(m, l, v, s, c) ==
  /\ m.ballot = c /\ m.seq = s + 1 /\ m.val = v
  /\ \/ m.type = "PRE_ACCEPT" /\ m.from = l /\ m.to # l
     \/ m.type = "PRE_ACCEPT_RESPONSE" /\ m.to = l /\ ~ m.committed
     \/ m.type = "COMMIT" /\ m.to # l /\ m = Announcement(l, m.to, c, s + 1, v)

(* The entry that a PRE_ACCEPT of the round has left on replica p. *)
Follows(p, s, c) ==
  \/ cmds[p] = NoCmd
  \/ /\ Present(p) /\ cmds[p].val = NoVal /\ cmds[p].status = "PRE_ACCEPTED"
     /\ cmds[p].seq = s /\ cmds[p].ballot = c

Round(l, v, s, c) ==
  /\ run[v].pc # "dead" /\ \A w \in Values : w # v => run[w].pc \in {"idle", "returned"}
  /\ \A p \in Nodes : p # l => committing[p].pc = "none" /\ Follows(p, s, c)
  /\ \A m \in msgs : OfRound(m, l, v, s, c)

Unannounced(l, s, b, x) ==
  /\ \A p \in Nodes : p # l => At(p, s, b, x)
  /\ \A m \in msgs : m.type # "COMMIT"

(* The leader counts the answers ... *)
Proposing(l, v, s, b, x, c) ==
  /\ Unannounced(l, s, b, x)
  /\ At(l, s, b, x) /\ committing[l].pc = "none"
  /\ run[v].node = l /\ run[v].pc \in {"sending", "checked", "waiting"}
  /\ Present(l) /\ cmds[l].val = v /\ cmds[l].seq = s + 1 /\ cmds[l].ballot = c
  /\ cmds[l].status = "PRE_ACCEPTED"
  /\ cmds[l].max_seq \in {0, s + 1} /\ ~ cmds[l].max_seq_committed

(* ... is in kepaxos_commit ... *)
Deciding(l, v, s, b, x, c) ==
  /\ Unannounced(l, s, b, x)
  /\ cmds[l] = NoCmd
  /\ committing[l].pc # "none" /\ committing[l].cmd.val = v
  /\ committing[l].cmd.seq = s + 1 /\ committing[l].cmd.ballot = c
  /\ committing[l].pc = "record" => store[l] = v

(* ... and has announced the commit, which every other replica has made or has
   yet to be told of. *)
Announcing(l, v, s, b, x, c) ==
  /\ cmds[l] = NoCmd /\ committing[l].pc = "none" /\ At(l, s + 1, c, v)
  /\ \A p \in Nodes : p # l =>
        \/ At(p, s, b, x) /\ Announcement(l, p, c, s + 1, v) \in msgs
        \/ /\ At(p, s + 1, c, v) /\ cmds[p] = NoCmd
           /\ Announcement(l, p, c, s + 1, v) \notin msgs

Stage(l, v, s, b, x, c) ==
  \/ Proposing(l, v, s, b, x, c)
  \/ Deciding(l, v, s, b, x, c)
  \/ Announcing(l, v, s, b, x, c)

RoundInv ==
  \/ \E s \in Nat, b \in Nat, x \in Values \cup {NoVal} : Rested(s, b, x)
  \/ \E l \in Nodes, v \in Values, s \in Nat, b \in Nat, x \in Values \cup {NoVal}, c \in Nat :
        Round(l, v, s, c) /\ Stage(l, v, s, b, x, c)

(* A command is issued: its round begins. *)
LEMMA RoundBegins ==
  ASSUME TypeOK, TypeOK', NEW n \in Nodes, NEW v \in Values, NEW s \in Nat, NEW b, NEW x,
         NEW c, c = ballot[n], Rested(s, b, x), RunCommand(n, v)
  PROVE  Round(n, v, s, c)' /\ Proposing(n, v, s, b, x, c)'
<1> DEFINE new == [ZeroCmd EXCEPT !.val = v, !.seq = s + 1, !.ballot = c, !.status = "PRE_ACCEPTED"]
           call == [node |-> n, pc |-> "sending", seq |-> s + 1, ok |-> FALSE]
<1>1. log[n].seq = s /\ cmds[n] = NoCmd /\ msgs = {}
  BY Zenon DEF Rested, At
<1>a. ~ Present(n)
  BY <1>1 DEF Present, NoCmd
<1>2. /\ cmds' = [cmds EXCEPT ![n] = new]
      /\ run' = [Destroyed(run, cmds[n]) EXCEPT ![v] = call]
      /\ msgs' = ToOthers("PRE_ACCEPT", n, c, s + 1, FALSE, v)
      /\ UNCHANGED <<log, store, committing>>
  BY <1>1, <1>a, ZenonT(60) DEF RunCommand
<1>3. /\ new.val = v /\ new.seq = s + 1 /\ new.ballot = c /\ new.status = "PRE_ACCEPTED"
      /\ new.max_seq = 0 /\ new.max_seq_committed = FALSE
  BY DEF ZeroCmd, NoCmd
<1> HIDE DEF new
<1>4. cmds'[n] = new /\ \A p \in Nodes \ {n} : cmds'[p] = cmds[p]
  BY <1>2 DEF TypeOK
<1>5. run'[v].node = n /\ run'[v].pc = "sending" /\ \A w \in Values \ {v} : run'[w] = run[w]
  <2>1. cmds[n].status = "absent"
    BY <1>a, Zenon DEF Present
  <2>2. \A w \in Values : Destroyed(run, cmds[n])[w] = run[w]
    BY <2>1 DEF Destroyed
  <2>3. Destroyed(run, cmds[n]) \in [Values -> Call]
    BY <1>2, DestroyedType DEF TypeOK
  <2> QED
    BY <1>2, <2>2, <2>3
<1>6. ASSUME NEW m \in msgs'
      PROVE  OfRound(m, n, v, s, c) /\ m.type # "COMMIT"
  <2>1. PICK p \in Nodes \ {n} : m = Message("PRE_ACCEPT", n, p, c, s + 1, FALSE, v)
    BY <1>2, <1>6, Zenon DEF ToOthers
  <2>2. /\ m.type = "PRE_ACCEPT" /\ m.from = n /\ m.to = p /\ m.ballot = c /\ m.seq = s + 1
        /\ m.val = v
    BY <2>1, Zenon DEF Message
  <2> QED
    BY <2>2 DEF OfRound
<1>7. \A p \in Nodes : /\ committing'[p].pc = "none" /\ At(p, s, b, x)'
                       /\ p # n => cmds'[p] = NoCmd
  BY <1>2, <1>4, Zenon DEF Rested, At
<1>8. Round(n, v, s, c)'
  <2>1. \A w \in Values : w # v => run'[w].pc \in {"idle", "returned"}
    BY <1>5, Zenon DEF Rested
  <2>2. run'[v].pc # "dead"
    BY <1>5
  <2> QED
    BY <1>6, <1>7, <2>1, <2>2, Zenon DEF Round, Follows
<1>9. Proposing(n, v, s, b, x, c)'
  <2>1. Present(n)'
    BY <1>3, <1>4 DEF Present
  <2>2. Unannounced(n, s, b, x)'
    BY <1>6, <1>7, Zenon DEF Unannounced
  <2>3. /\ cmds'[n].val = v /\ cmds'[n].seq = s + 1 /\ cmds'[n].ballot = c
        /\ cmds'[n].status = "PRE_ACCEPTED"
        /\ cmds'[n].max_seq \in {0, s + 1} /\ ~ cmds'[n].max_seq_committed
    BY <1>3, <1>4, Zenon
  <2> QED
    BY <1>5, <1>7, <2>1, <2>2, <2>3, Zenon DEF Proposing
<1> QED
  BY <1>8, <1>9

LEMMA RoundEnds ==
  ASSUME NEW l \in Nodes, NEW v \in Values, NEW s \in Nat, NEW b, NEW x, NEW c,
         Round(l, v, s, c), Stage(l, v, s, b, x, c), Quiet
  PROVE  Rested(s + 1, c, v)
<1>1. /\ msgs = {} /\ \A n \in Nodes : committing[n].pc = "none"
      /\ \A w \in Values : run[w].pc \in {"idle", "returned", "dead"}
  BY Zenon DEF Quiet
<1>2. Announcing(l, v, s, b, x, c)
  <2>1. ~ Proposing(l, v, s, b, x, c)
    BY <1>1 DEF Proposing
  <2>2. ~ Deciding(l, v, s, b, x, c)
    BY <1>1 DEF Deciding
  <2> QED
    BY <2>1, <2>2, Zenon DEF Stage
<1>3. ASSUME NEW p \in Nodes PROVE At(p, s + 1, c, v) /\ cmds[p] = NoCmd
  BY <1>1, <1>2, Zenon DEF Announcing
<1>4. \A w \in Values : run[w].pc \in {"idle", "returned"}
  <2>1. run[v].pc \in {"idle", "returned"}
    BY <1>1 DEF Round
  <2> QED
    BY <2>1, Zenon DEF Round
<1> QED
  BY <1>1, <1>3, <1>4, Zenon DEF Rested

(* Steps that change neither logs nor entries and lose no announcement. *)
LEMMA RoundStands ==
  ASSUME NEW l \in Nodes, NEW v \in Values, NEW s, NEW b, NEW x, NEW c,
         Round(l, v, s, c), Stage(l, v, s, b, x, c),
         UNCHANGED <<cmds, log, store, committing>>,
         msgs' \subseteq msgs, \A m \in msgs : m.type = "COMMIT" => m \in msgs',
         run'[v].pc # "dead", \A w \in Values : w # v => run'[w] = run[w],
         Proposing(l, v, s, b, x, c) =>
            run'[v].node = l /\ run'[v].pc \in {"sending", "checked", "waiting"}
  PROVE  Round(l, v, s, c)' /\ Stage(l, v, s, b, x, c)'
<1>1. Round(l, v, s, c)'
  BY Zenon DEF Round, Follows, Present
<1>2. Unannounced(l, s, b, x) => Unannounced(l, s, b, x)'
  BY Zenon DEF Unannounced, At
<1>3. CASE Proposing(l, v, s, b, x, c)
  <2>1. Proposing(l, v, s, b, x, c)'
    BY <1>2, <1>3, Zenon DEF Proposing, At, Present
  <2> QED
    BY <1>1, <2>1, Zenon DEF Stage
<1>4. CASE Deciding(l, v, s, b, x, c)
  <2>1. Deciding(l, v, s, b, x, c)'
    BY <1>2, <1>4, Zenon DEF Deciding
  <2> QED
    BY <1>1, <2>1, Zenon DEF Stage
<1>5. CASE Announcing(l, v, s, b, x, c)
  <2>1. \A p : Announcement(l, p, c, s + 1, v).type = "COMMIT"
    BY Zenon DEF Announcement, Message
  <2>2. \A p : Announcement(l, p, c, s + 1, v) \in msgs' <=> Announcement(l, p, c, s + 1, v) \in msgs
    BY <2>1, Zenon
  <2>3. Announcing(l, v, s, b, x, c)'
    BY <1>5, <2>2, Zenon DEF Announcing, At
  <2> QED
    BY <1>1, <2>3, Zenon DEF Stage
<1> QED
  BY <1>3, <1>4, <1>5, Zenon DEF Stage

LEMMA RoundCaller ==
  ASSUME TypeOK, NEW l \in Nodes, NEW v \in Values, NEW s, NEW b, NEW x, NEW c,
         Round(l, v, s, c), Stage(l, v, s, b, x, c), NEW w \in Values, Caller(w)
  PROVE  Round(l, v, s, c)' /\ Stage(l, v, s, b, x, c)'
<1>1. /\ UNCHANGED <<cmds, log, store, committing, msgs>>
      /\ run[w].pc \in {"sending", "checked", "woken"}
  BY Zenon DEF Caller, CheckCommand, WaitCommand, ReturnCommand
<1>2. w = v
  BY <1>1 DEF Round
<1>3. /\ \A u \in Values : u # v => run'[u] = run[u]
      /\ run'[v].node = run[v].node
      /\ run'[v].pc \in {"checked", "waiting", "returned"}
  <2>1. run \in [Values -> Call] /\ run[v] \in Call
    BY DEF TypeOK
  <2>2. CASE CheckCommand(v)
    <3>1. PICK ok : run' = [run EXCEPT ![v] = [@ EXCEPT !.pc = "checked"]]
                    \/ run' = [run EXCEPT ![v] = [@ EXCEPT !.pc = "returned", !.ok = ok]]
      BY <2>2, Zenon DEF CheckCommand
    <3>2. /\ \A u \in Values : u # v => run'[u] = run[u]
          /\ \/ run'[v] = [run[v] EXCEPT !.pc = "checked"]
             \/ run'[v] = [run[v] EXCEPT !.pc = "returned", !.ok = ok]
      BY <2>1, <3>1, Zenon
    <3>3. /\ run'[v].node = run[v].node
          /\ run'[v].pc = "checked" \/ run'[v].pc = "returned"
      BY <2>1, <3>2, Zenon DEF Call
    <3> QED
      BY <3>2, <3>3
  <2>3. CASE WaitCommand(v)
    BY <2>1, <2>3 DEF WaitCommand, Call
  <2>4. CASE ReturnCommand(v)
    BY <2>1, <2>4 DEF ReturnCommand, Call
  <2> QED
    BY <1>2, <2>2, <2>3, <2>4, Zenon DEF Caller
<1>4. ASSUME Proposing(l, v, s, b, x, c)
      PROVE  run'[v].node = l /\ run'[v].pc \in {"sending", "checked", "waiting"}
  <2>1. run[v].node = l /\ Present(l) /\ cmds[l].val = v /\ run[v].pc # "woken"
    BY <1>4 DEF Proposing
  <2>2. run'[v].pc # "returned"
    BY <1>2, <2>1 DEF Caller, CheckCommand, WaitCommand, ReturnCommand, TypeOK, Call
  <2> QED
    BY <1>3, <2>1, <2>2
<1>5. run'[v].pc # "dead"
  BY <1>3
<1> QED
  BY <1>1, <1>3, <1>4, <1>5, RoundStands, Zenon

LEMMA RoundMessage ==
  ASSUME TypeOK, NEW l \in Nodes, NEW v \in Values, NEW s, NEW b, NEW x, NEW c,
         Round(l, v, s, c), Stage(l, v, s, b, x, c), NEW m \in msgs,
         \/ IgnorePreAccept(m.to, m) \/ IgnoreResponse(m.to, m) \/ UpdateBallotEarly(m.to, m)
  PROVE  Round(l, v, s, c)' /\ Stage(l, v, s, b, x, c)'
<1>1. /\ UNCHANGED <<cmds, log, store, committing, run>>
      /\ msgs' = msgs \/ (msgs' = msgs \ {m} /\ m.type # "COMMIT")
  <2>1. CASE UpdateBallotEarly(m.to, m)
    BY <2>1, Zenon DEF UpdateBallotEarly
  <2>2. CASE IgnorePreAccept(m.to, m)
    BY <2>2 DEF IgnorePreAccept, Ignored, Receive
  <2>3. CASE IgnoreResponse(m.to, m)
    BY <2>3, SMTT(60) DEF IgnoreResponse, Ignored, ReceiveResponse, Receive
  <2> QED
    BY <2>1, <2>2, <2>3
<1>2. /\ msgs' \subseteq msgs
      /\ \A y \in msgs : y.type = "COMMIT" => y \in msgs'
  BY <1>1
<1>3. /\ run'[v].pc # "dead" /\ \A w \in Values : w # v => run'[w] = run[w]
      /\ Proposing(l, v, s, b, x, c) =>
            run'[v].node = l /\ run'[v].pc \in {"sending", "checked", "waiting"}
  BY <1>1, Zenon DEF Round, Proposing
<1> QED
  BY <1>1, <1>2, <1>3, RoundStands, Zenon

LEMMA LargerIs ==
  ASSUME NEW i \in Nat, NEW j \in Nat
  PROVE  (i <= j => Larger(i, j) = j) /\ (i >= j => Larger(i, j) = i)
  BY DEF Larger

LEMMA RoundAdopts ==
  ASSUME TypeOK, TypeOK', NEW l \in Nodes, NEW v \in Values, NEW s \in Nat, NEW b, NEW x, NEW c \in Nat,
         Round(l, v, s, c), Stage(l, v, s, b, x, c), NEW m \in msgs, NEW p, HandlePreAccept(p, m)
  PROVE  Round(l, v, s, c)' /\ Stage(l, v, s, b, x, c)'
<1>1. m.to = p /\ m.type = "PRE_ACCEPT" /\ p \in Nodes /\ m \in Msg
  <2>1. m.to = p /\ m.type = "PRE_ACCEPT"
    BY DEF HandlePreAccept, Receive
  <2> QED
    BY <2>1, MsgFields DEF TypeOK
<1>2. m.from = l /\ p # l /\ m.ballot = c /\ m.seq = s + 1 /\ m.val = v
  BY <1>1 DEF Round, OfRound
<1>3. At(p, s, b, x)
  <2>1. ~ At(p, s + 1, c, v)
    BY <1>2, Zenon DEF HandlePreAccept, PreAcceptIgnored, At
  <2> QED
    BY <1>1, <1>2, <2>1, Zenon DEF Stage, Proposing, Deciding, Announcing, Unannounced
<1>4. log[p].seq = s /\ Follows(p, s, c) /\ cmds[p] \in Cmd
  BY <1>1, <1>2, <1>3, Fields, Zenon DEF At, Round
<1>5. Larger(log[p].seq, cmds[p].seq) = s /\ Larger(m.seq, s) = s + 1
  <2>1. cmds[p].seq = 0 \/ cmds[p].seq = s
    <3>1. NoCmd.seq = 0 /\ NoCmd.val = NoVal
      BY DEF NoCmd
    <3> QED
      BY <1>4, <3>1, Zenon DEF Follows
  <2> QED
    BY <1>2, <1>4, <2>1, LargerIs
<1> DEFINE cmd == IF Present(p)
                  THEN [cmds[p] EXCEPT !.ballot = m.ballot]
                  ELSE [ZeroCmd EXCEPT !.seq = m.seq, !.ballot = m.ballot]
           new == [cmd EXCEPT !.status = "PRE_ACCEPTED", !.seq = s]
<1>6. cmd \in Cmd /\ cmd.ballot = c /\ cmd.val = NoVal
  <2>1. ZeroCmd \in Cmd /\ ZeroCmd.val = NoVal
    BY CmdTypes, Zenon DEF ZeroCmd, NoCmd
  <2>2. Present(p) => cmds[p].val = NoVal
    <3>1. NoCmd.seq = 0 /\ NoCmd.val = NoVal
      BY DEF NoCmd
    <3> QED
      BY <1>4, <3>1, Zenon DEF Follows
  <2>3. m.seq \in Nat /\ m.ballot \in Ballot
    BY <1>1, MsgFields
  <2> QED
    BY <1>2, <1>4, <2>1, <2>2, <2>3, Zenon DEF Cmd
<1> DEFINE committed == s + 1 = log[p].seq
           S == Reply("PRE_ACCEPT_RESPONSE", m, cmd.ballot, s + 1, committed)
<1>7. /\ cmds' = [cmds EXCEPT ![p] = new]
      /\ msgs' = (msgs \ {m}) \cup S
      /\ UNCHANGED <<log, store, committing, run>>
  <2> HIDE DEF cmd
  <2>1. m.seq >= s
    BY <1>2
  <2> QED
    BY <1>5, <2>1, ZenonT(60) DEF HandlePreAccept, cmd
<1>8. new.val = NoVal /\ new.status = "PRE_ACCEPTED" /\ new.seq = s /\ new.ballot = c
  <2> HIDE DEF cmd
  <2> QED
    BY <1>6, Zenon DEF Cmd
<1> HIDE DEF new, cmd
<1>9. cmds'[p] = new /\ \A q \in Nodes : q # p => cmds'[q] = cmds[q]
  BY <1>1, <1>7 DEF TypeOK
<1>10. Follows(p, s, c)'
  <2>1. Present(p)'
    BY <1>8, <1>9 DEF Present
  <2> QED
    BY <1>8, <1>9, <2>1, Zenon DEF Follows
<1>11. ASSUME NEW r \in S PROVE OfRound(r, l, v, s, c) /\ r.type # "COMMIT"
  <2>1. committed = FALSE
    BY <1>4
  <2> HIDE DEF committed
  <2>2. r = Message("PRE_ACCEPT_RESPONSE", p, l, cmd.ballot, s + 1, committed, v)
    BY <1>1, <1>2, Zenon DEF Reply
  <2>3. /\ r.type = "PRE_ACCEPT_RESPONSE" /\ r.to = l /\ r.ballot = c /\ r.seq = s + 1
        /\ r.val = v /\ r.committed = committed
    BY <1>6, <2>2, Zenon DEF Message
  <2> QED
    BY <2>1, <2>3 DEF OfRound
<1> HIDE DEF S, committed
<1>12. \A q \in Nodes : Announcement(l, q, c, s + 1, v) \in msgs'
                        <=> Announcement(l, q, c, s + 1, v) \in msgs
  <2>1. \A q : Announcement(l, q, c, s + 1, v).type = "COMMIT"
    BY Zenon DEF Announcement, Message
  <2>2. \A q : Announcement(l, q, c, s + 1, v) # m
    BY <1>1, <2>1
  <2> QED
    BY <1>7, <1>11, <2>1, <2>2, Zenon
<1>13. Round(l, v, s, c)'
  <2>1. \A q \in Nodes : q # l => Follows(q, s, c)'
    BY <1>9, <1>10, Zenon DEF Round, Follows, Present
  <2>2. \A y \in msgs' : OfRound(y, l, v, s, c)
    BY <1>7, <1>11, Zenon DEF Round
  <2> QED
    BY <1>7, <2>1, <2>2, Zenon DEF Round
<1>14. Stage(l, v, s, b, x, c)'
  <2>1. Unannounced(l, s, b, x) => Unannounced(l, s, b, x)'
    BY <1>7, <1>11, Zenon DEF Unannounced, At
  <2>2. cmds'[l] = cmds[l] /\ committing' = committing /\ run' = run /\ log' = log /\ store' = store
    BY <1>2, <1>7, <1>9, Zenon
  <2>3. Proposing(l, v, s, b, x, c) => Proposing(l, v, s, b, x, c)'
    BY <2>1, <2>2, Zenon DEF Proposing, At, Present
  <2>4. Deciding(l, v, s, b, x, c) => Deciding(l, v, s, b, x, c)'
    BY <2>1, <2>2, Zenon DEF Deciding
  <2>5. ASSUME Announcing(l, v, s, b, x, c) PROVE Announcing(l, v, s, b, x, c)'
    <3>1. ~ At(p, s + 1, c, v)
      BY <1>4 DEF At
    <3> QED
      BY <1>9, <1>12, <2>2, <2>5, <3>1, Zenon DEF Announcing, At
  <2> QED
    BY <2>3, <2>4, <2>5, Zenon DEF Stage
<1> QED
  BY <1>13, <1>14

LEMMA RoundCounts ==
  ASSUME TypeOK, TypeOK', NEW l \in Nodes, NEW v \in Values, NEW s \in Nat, NEW b, NEW x, NEW c \in Nat,
         Round(l, v, s, c), Stage(l, v, s, b, x, c), NEW m \in msgs, NEW p,
         HandlePreAcceptResponse(p, m)
  PROVE  Round(l, v, s, c)' /\ Stage(l, v, s, b, x, c)'
<1>1. m.to = p /\ m.type = "PRE_ACCEPT_RESPONSE" /\ Present(p) /\ m \in Msg
  BY Zenon DEF HandlePreAcceptResponse, ReceiveResponse, Receive, ResponseIgnored, TypeOK
<1>2. p = l /\ m.seq = s + 1 /\ ~ m.committed
  BY <1>1 DEF Round, OfRound
<1>3. Proposing(l, v, s, b, x, c)
  <2>1. cmds[l] # NoCmd
    BY <1>1, <1>2 DEF Present, NoCmd
  <2> QED
    BY <2>1, Zenon DEF Stage, Deciding, Announcing
<1> DEFINE cmd == PreAcceptVoted(l, m)
<1>4. cmd \in Cmd /\ cmd.val = v /\ cmd.ballot = c /\ cmd.status = "PRE_ACCEPTED"
  <2>1. cmd \in Cmd
    BY <1>1, VotedType
  <2>2. cmd.val = cmds[l].val /\ cmd.ballot = cmds[l].ballot /\ cmd.status = cmds[l].status
    BY VotedKeeps
  <2> QED
    BY <1>3, <2>1, <2>2, Zenon DEF Proposing
<1>5. cmd.seq = s + 1 /\ cmd.max_seq = s + 1 /\ ~ cmd.max_seq_committed
  <2>1. cmds[l] \in Cmd
    BY Fields
  <2>2. /\ cmd.seq = cmds[l].seq
        /\ cmd.max_seq = Larger(cmds[l].max_seq, m.seq)
        /\ cmd.max_seq_committed = IF m.seq # cmds[l].max_seq
                                   THEN m.committed /\ Larger(cmds[l].max_seq, m.seq) = m.seq
                                   ELSE cmds[l].max_seq_committed \/ m.committed
    BY <2>1, Zenon DEF PreAcceptVoted, Cmd
  <2>3. cmds[l].seq = s + 1 /\ cmds[l].max_seq \in {0, s + 1} /\ ~ cmds[l].max_seq_committed
    BY <1>3, Zenon DEF Proposing
  <2>4. ~ cmd.max_seq_committed
    BY <1>2, <2>2, <2>3, Zenon
  <2>5. Larger(cmds[l].max_seq, m.seq) = s + 1
    BY <1>2, <2>3, LargerIs
  <2> QED
    BY <2>2, <2>3, <2>4, <2>5, Zenon
<1> HIDE DEF cmd
<1>6. ShortPathOpen(cmd)
  BY <1>5 DEF ShortPathOpen
<1>7. /\ msgs' = msgs \ {m} /\ UNCHANGED <<log, store, run>>
      /\ \/ cmds' = [cmds EXCEPT ![l] = cmd] /\ committing' = committing
         \/ /\ cmds' = [cmds EXCEPT ![l] = NoCmd]
            /\ committing' = [committing EXCEPT ![l] = [cmd |-> cmd, pc |-> "apply"]]
  BY <1>2, <1>6, Zenon DEF HandlePreAcceptResponse, StartCommit, cmd
<1>8. \A q \in Nodes : q # l => cmds'[q] = cmds[q] /\ committing'[q] = committing[q]
  BY <1>7 DEF TypeOK
<1>9. Round(l, v, s, c)'
  BY <1>7, <1>8, ZenonT(60) DEF Round, Follows, Present
<1>10. Unannounced(l, s, b, x)'
  BY <1>3, <1>7, Zenon DEF Proposing, Unannounced, At
<1>11. CASE cmds' = [cmds EXCEPT ![l] = cmd] /\ committing' = committing
  <2>1. cmds'[l] = cmd
    BY <1>11 DEF TypeOK
  <2>2. Present(l)'
    BY <1>4, <2>1 DEF Present
  <2>3. cmds'[l].max_seq \in {0, s + 1}
    BY <1>5, <2>1
  <2>4. Proposing(l, v, s, b, x, c)'
    BY <1>3, <1>4, <1>5, <1>7, <1>10, <1>11, <2>1, <2>2, <2>3, Zenon DEF Proposing, At
  <2> QED
    BY <1>9, <2>4, Zenon DEF Stage
<1>12. CASE /\ cmds' = [cmds EXCEPT ![l] = NoCmd]
            /\ committing' = [committing EXCEPT ![l] = [cmd |-> cmd, pc |-> "apply"]]
  <2>1. cmds'[l] = NoCmd /\ committing'[l].cmd = cmd /\ committing'[l].pc = "apply"
    BY <1>12 DEF TypeOK
  <2>2. committing'[l].pc # "none" /\ committing'[l].pc # "record"
    BY <2>1
  <2>3. Deciding(l, v, s, b, x, c)'
    BY <1>4, <1>5, <1>10, <2>1, <2>2, Zenon DEF Deciding
  <2> QED
    BY <1>9, <2>3, Zenon DEF Stage
<1> QED
  BY <1>7, <1>11, <1>12

LEMMA RoundLearns ==
  ASSUME TypeOK, TypeOK', Faults = {},
         NEW l \in Nodes, NEW v \in Values, NEW s \in Nat, NEW b, NEW x, NEW c \in Nat,
         Round(l, v, s, c), Stage(l, v, s, b, x, c), NEW m \in msgs, NEW p,
         HandleCommit(p, m) \/ IgnoreCommit(p, m)
  PROVE  Round(l, v, s, c)' /\ Stage(l, v, s, b, x, c)'
<1>1. m.to = p /\ m.type = "COMMIT" /\ p \in Nodes
  <2>1. m.to = p /\ m.type = "COMMIT"
    BY DEF HandleCommit, IgnoreCommit, Receive
  <2> QED
    BY <2>1, MsgFields DEF TypeOK
<1>2. p # l /\ m.ballot = c /\ m.seq = s + 1 /\ m.val = v /\ m = Announcement(l, p, c, s + 1, v)
  BY <1>1 DEF Round, OfRound
<1>3. Announcing(l, v, s, b, x, c) /\ At(p, s, b, x)
  <2>1. Announcing(l, v, s, b, x, c)
    BY <1>1, Zenon DEF Stage, Proposing, Deciding, Unannounced
  <2> QED
    BY <1>1, <1>2, <2>1, Zenon DEF Announcing
<1>4. log[p].seq = s /\ (Present(p) => cmds[p].seq = s /\ cmds[p].val = NoVal) /\ Follows(p, s, c)
  <2>1. Follows(p, s, c) /\ log[p].seq = s
    BY <1>1, <1>2, <1>3, Zenon DEF Round, At
  <2>2. cmds[p] = NoCmd => ~ Present(p)
    BY DEF NoCmd, Present
  <2> QED
    BY <2>1, <2>2, Zenon DEF Follows
<1>5. ~ CommitIgnored(p, m)
  BY <1>2, <1>4 DEF CommitIgnored
<1>6. /\ store' = [store EXCEPT ![p] = v]
      /\ log' = Logged(p, c, s + 1)
      /\ msgs' = msgs \ {m} /\ committing' = committing
      /\ IF Present(p) /\ cmds[p].seq <= m.seq
         THEN cmds' = [cmds EXCEPT ![p] = NoCmd] /\ run' = Destroyed(run, cmds[p])
         ELSE UNCHANGED <<cmds, run>>
  BY <1>2, <1>5, ZenonT(60) DEF HandleCommit, IgnoreCommit
<1>7. /\ log'[p].seq = s + 1 /\ log'[p].ballot = c /\ store'[p] = v
      /\ \A q \in Nodes : q # p => log'[q] = log[q] /\ store'[q] = store[q]
  BY <1>1, <1>6 DEF Logged, TypeOK
<1>8. cmds'[p] = NoCmd /\ (\A q \in Nodes : q # p => cmds'[q] = cmds[q]) /\ run' = run
  <2>1. CASE Present(p)
    <3>1. cmds[p].seq <= m.seq
      BY <1>2, <1>4, <2>1
    <3>2. \A w \in Values : Destroyed(run, cmds[p])[w] = run[w]
      BY <1>4, <2>1, ValuesAssumption DEF Destroyed
    <3>3. run \in [Values -> Call] /\ Destroyed(run, cmds[p]) \in [Values -> Call]
      BY DestroyedType DEF TypeOK
    <3>4. Destroyed(run, cmds[p]) = run
      BY <3>2, <3>3
    <3> QED
      BY <1>1, <1>6, <2>1, <3>1, <3>4 DEF TypeOK
  <2>2. CASE ~ Present(p)
    BY <1>4, <1>6, <2>2, Zenon DEF Follows
  <2> QED
    BY <2>1, <2>2
<1>9. Round(l, v, s, c)'
  BY <1>6, <1>8, Zenon DEF Round, Follows, Present
<1>10. ASSUME NEW q \in Nodes, q # p
       PROVE  Announcement(l, q, c, s + 1, v) \in msgs' <=> Announcement(l, q, c, s + 1, v) \in msgs
  <2>1. Announcement(l, q, c, s + 1, v).to = q /\ m.to = p
    BY <1>1, Zenon DEF Announcement, Message
  <2> QED
    BY <1>6, <1>10, <2>1, Zenon
<1>11. At(p, s + 1, c, v)' /\ Announcement(l, p, c, s + 1, v) \notin msgs'
  BY <1>2, <1>6, <1>7, Zenon DEF At
<1>12. Announcing(l, v, s, b, x, c)'
  BY <1>2, <1>3, <1>6, <1>7, <1>8, <1>10, <1>11, ZenonT(60) DEF Announcing, At
<1> QED
  BY <1>9, <1>12, Zenon DEF Stage

LEMMA RoundCommits ==
  ASSUME TypeOK, TypeOK', Faults = {},
         NEW l \in Nodes, NEW v \in Values, NEW s \in Nat, NEW b, NEW x, NEW c \in Nat,
         Round(l, v, s, c), Stage(l, v, s, b, x, c), NEW n \in Nodes, Committer(n)
  PROVE  Round(l, v, s, c)' /\ Stage(l, v, s, b, x, c)'
<1>1. committing[n].pc # "none"
  BY Zenon DEF Committer, CommitApply, CommitRecord
<1>2. n = l /\ Deciding(l, v, s, b, x, c)
  BY <1>1, Zenon DEF Round, Stage, Proposing, Announcing
<1>3. /\ committing[l].cmd.val = v /\ committing[l].cmd.seq = s + 1 /\ committing[l].cmd.ballot = c
      /\ v # NoVal
  BY <1>2, ValuesAssumption, Zenon DEF Deciding
<1>4. CASE CommitApply(l)
  <2>1. /\ store' = [store EXCEPT ![l] = v]
        /\ committing' = [committing EXCEPT ![l].pc = "record"]
        /\ UNCHANGED <<run, cmds, log, msgs>>
    BY <1>3, <1>4, Zenon DEF CommitApply
  <2>2. /\ store'[l] = v /\ committing'[l].pc = "record" /\ committing'[l].cmd = committing[l].cmd
        /\ \A p \in Nodes : p # l => committing'[p] = committing[p] /\ store'[p] = store[p]
    BY <2>1 DEF TypeOK, Committing
  <2>3. Round(l, v, s, c)'
    BY <2>1, <2>2, Zenon DEF Round, Follows, Present
  <2>4. Unannounced(l, s, b, x)'
    BY <1>2, <2>1, <2>2, Zenon DEF Deciding, Unannounced, At
  <2>5. committing'[l].pc # "none"
    BY <2>2
  <2>6. Deciding(l, v, s, b, x, c)'
    BY <1>2, <2>1, <2>2, <2>4, <2>5, Zenon DEF Deciding
  <2> QED
    BY <2>3, <2>6, Zenon DEF Stage
<1>5. CASE CommitRecord(l)
  <2> DEFINE cmd == committing[l].cmd
             sent == ToOthers("COMMIT", l, c, s + 1, TRUE, v)
  <2>1. /\ log' = Logged(l, c, s + 1)
        /\ msgs' = msgs \cup sent
        /\ committing' = [committing EXCEPT ![l] = Idle]
        /\ run' = Destroyed(run, cmd)
        /\ UNCHANGED <<cmds, store>>
        /\ committing[l].pc = "record"
    BY <1>3, <1>5, Zenon DEF CommitRecord
  <2>2. /\ log'[l].seq = s + 1 /\ log'[l].ballot = c
        /\ \A p \in Nodes : p # l => log'[p] = log[p]
    BY <2>1 DEF Logged, TypeOK
  <2>3. /\ committing'[l].pc = "none"
        /\ \A p \in Nodes : p # l => committing'[p] = committing[p]
    BY <2>1 DEF TypeOK, Idle
  <2>4. At(l, s + 1, c, v)'
    BY <1>2, <2>1, <2>2, Zenon DEF At, Deciding
  <2>5. \A p \in Nodes : p # l => Announcement(l, p, c, s + 1, v) \in sent
    BY Zenon DEF Announcement, ToOthers
  <2>6. ASSUME NEW y \in sent PROVE OfRound(y, l, v, s, c)
    <3>1. PICK p \in Nodes : p # l /\ y = Announcement(l, p, c, s + 1, v)
      BY <2>6, Zenon DEF Announcement, ToOthers
    <3>2. y.ballot = c /\ y.seq = s + 1 /\ y.val = v /\ y.type = "COMMIT" /\ y.to = p
      BY <3>1, Zenon DEF Announcement, Message
    <3> QED
      BY <3>1, <3>2, Zenon DEF OfRound
  <2> HIDE DEF sent
  <2>7. /\ \A w \in Values : w # v => run'[w] = run[w]
        /\ run'[v].pc # "dead"
    <3>1. \A w \in Values : cmd.val = w => w = v
      BY <1>3
    <3>2. \A w \in Values : w # v => run'[w] = run[w]
      BY <2>1, <3>1 DEF Destroyed
    <3>3. run[v] \in Call
      BY DEF TypeOK
    <3>4. run'[v] = run[v] \/ run'[v] = [run[v] EXCEPT !.pc = "woken"]
      BY <2>1 DEF Destroyed
    <3>5. run[v].pc # "dead"
      BY Zenon DEF Round
    <3> QED
      BY <3>2, <3>3, <3>4, <3>5 DEF Call
  <2>8. Round(l, v, s, c)'
    <3>1. \A y \in msgs' : OfRound(y, l, v, s, c)
      BY <2>1, <2>6, Zenon DEF Round
    <3>2. \A p \in Nodes : p # l => committing'[p].pc = "none" /\ Follows(p, s, c)'
      BY <2>1, <2>3, ZenonT(60) DEF Round, Follows, Present
    <3> QED
      BY <2>7, <3>1, <3>2, Zenon DEF Round
  <2>9. Announcing(l, v, s, b, x, c)'
    BY <1>2, <2>1, <2>2, <2>3, <2>4, <2>5, Zenon DEF Announcing, Deciding, Unannounced, At
  <2> QED
    BY <2>8, <2>9, Zenon DEF Stage
<1> QED
  BY <1>2, <1>4, <1>5, Zenon DEF Committer

LEMMA RoundNext ==
  ASSUME TypeOK, TypeOK', Faults = {}, RoundInv, [SequentialNext]_vars
  PROVE  RoundInv'
<1>1. ASSUME NEW n \in Leaders, NEW v \in Values, RunCommand(n, v), SequentialNext PROVE RoundInv'
  <2>1. run[v].pc = "idle" /\ run'[v].pc # "idle"
    BY <1>1 DEF RunCommand, Destroyed
  <2>2. Quiet
    BY <1>1, <2>1, Zenon DEF SequentialNext
  <2>3. \E s \in Nat, b \in Nat, x \in Values \cup {NoVal} : Rested(s, b, x)
    <3>1. ASSUME NEW l \in Nodes, NEW w \in Values, NEW s \in Nat, NEW b \in Nat,
                 NEW x \in Values \cup {NoVal}, NEW c \in Nat,
                 Round(l, w, s, c), Stage(l, w, s, b, x, c)
          PROVE  \E i \in Nat, j \in Nat, y \in Values \cup {NoVal} : Rested(i, j, y)
      <4>1. Rested(s + 1, c, w) /\ s + 1 \in Nat /\ w \in Values \cup {NoVal}
        BY <2>2, <3>1, RoundEnds
      <4> QED
        BY <4>1, Zenon
    <3> QED
      BY <3>1, Zenon DEF RoundInv
  <2>4. PICK s \in Nat, b \in Nat, x \in Values \cup {NoVal} : Rested(s, b, x)
    BY <2>3, Zenon
  <2>5. n \in Nodes /\ ballot[n] \in Nat
    BY LeadersAssumption, NumericFacts DEF Numeric, Nodes
  <2>6. PICK c \in Nat : c = ballot[n]
    BY <2>5, Zenon
  <2>7. Round(n, v, s, c)' /\ Proposing(n, v, s, b, x, c)'
    BY <1>1, <2>4, <2>5, <2>6, RoundBegins, Zenon
  <2> QED
    BY <2>5, <2>7, Zenon DEF RoundInv, Stage
<1>2. ASSUME NEW s \in Nat, NEW b \in Nat, NEW x \in Values \cup {NoVal}, Rested(s, b, x), Next,
             \A n \in Leaders, v \in Values : ~ RunCommand(n, v)
      PROVE  FALSE
  <2>1. msgs = {} /\ (\A n \in Nodes : committing[n].pc = "none")
        /\ \A v \in Values : run[v].pc \in {"idle", "returned"}
    BY <1>2, Zenon DEF Rested
  <2>2. \A v \in Values : ~ Caller(v)
    BY <2>1 DEF Caller, CheckCommand, WaitCommand, ReturnCommand
  <2>3. \A n \in Nodes : ~ (Committer(n) \/ Expire(n) \/ Restart(n))
    BY <2>1, Zenon DEF Committer, CommitApply, CommitRecord, Expire, Restart
  <2> QED
    BY <1>2, <2>1, <2>2, <2>3, Zenon DEF Next
<1>3. ASSUME NEW l \in Nodes, NEW v \in Values, NEW s \in Nat, NEW b \in Nat,
             NEW x \in Values \cup {NoVal}, NEW c \in Nat,
             Round(l, v, s, c), Stage(l, v, s, b, x, c), Next,
             \A n \in Leaders, w \in Values : ~ RunCommand(n, w)
      PROVE  RoundInv'
  <2>1. ASSUME NEW w \in Values, Caller(w)
        PROVE  Round(l, v, s, c)' /\ Stage(l, v, s, b, x, c)'
    BY <1>3, <2>1, RoundCaller
  <2>2. ASSUME NEW n \in Nodes, Committer(n) \/ Expire(n) \/ Restart(n)
        PROVE  Round(l, v, s, c)' /\ Stage(l, v, s, b, x, c)'
    <3>1. ~ Expire(n) /\ ~ Restart(n)
      BY DEF Expire, Restart
    <3> QED
      BY <1>3, <2>2, <3>1, RoundCommits
  <2>3. ASSUME NEW m \in msgs, Handle(m.to, m) \/ UpdateBallotEarly(m.to, m) \/ Lose(m)
        PROVE  Round(l, v, s, c)' /\ Stage(l, v, s, b, x, c)'
    <3>1. ~ Lose(m)
      BY DEF Lose
    <3>2. m.type # "ACCEPT" /\ m.type # "ACCEPT_RESPONSE"
      BY <1>3 DEF Round, OfRound
    <3>3. ~ HandleAccept(m.to, m) /\ ~ IgnoreAccept(m.to, m) /\ ~ HandleAcceptResponse(m.to, m)
      BY <3>2, Zenon DEF HandleAccept, IgnoreAccept, HandleAcceptResponse, ReceiveResponse, Receive
    <3>4. CASE HandlePreAccept(m.to, m)
      BY <1>3, <3>4, RoundAdopts
    <3>5. CASE HandlePreAcceptResponse(m.to, m)
      BY <1>3, <3>5, RoundCounts
    <3>6. CASE HandleCommit(m.to, m) \/ IgnoreCommit(m.to, m)
      BY <1>3, <3>6, RoundLearns
    <3>7. CASE IgnorePreAccept(m.to, m) \/ IgnoreResponse(m.to, m) \/ UpdateBallotEarly(m.to, m)
      BY <1>3, <3>7, RoundMessage
    <3> QED
      BY <2>3, <3>1, <3>3, <3>4, <3>5, <3>6, <3>7, Zenon DEF Handle
  <2>4. Round(l, v, s, c)' /\ Stage(l, v, s, b, x, c)'
    BY <1>3, <2>1, <2>2, <2>3, Zenon DEF Next
  <2> QED
    BY <2>4, Zenon DEF RoundInv
<1>4. CASE UNCHANGED vars
  <2>1. UNCHANGED <<cmds, log, store, committing, run, msgs>>
    BY <1>4 DEF vars
  <2>2. ASSUME NEW s \in Nat, NEW b \in Nat, NEW x \in Values \cup {NoVal}, Rested(s, b, x)
        PROVE  RoundInv'
    <3>1. Rested(s, b, x)'
      BY <2>1, <2>2, Zenon DEF Rested, At
    <3> QED
      BY <3>1, Zenon DEF RoundInv
  <2>3. ASSUME NEW l \in Nodes, NEW v \in Values, NEW s \in Nat, NEW b \in Nat,
               NEW x \in Values \cup {NoVal}, NEW c \in Nat,
               Round(l, v, s, c), Stage(l, v, s, b, x, c)
        PROVE  RoundInv'
    <3>1. /\ msgs' \subseteq msgs
          /\ \A y \in msgs : y.type = "COMMIT" => y \in msgs'
      BY <2>1
    <3>2. /\ run'[v].pc # "dead" /\ \A w \in Values : w # v => run'[w] = run[w]
          /\ Proposing(l, v, s, b, x, c) =>
                run'[v].node = l /\ run'[v].pc \in {"sending", "checked", "waiting"}
      BY <2>1, <2>3, Zenon DEF Round, Proposing
    <3>3. Round(l, v, s, c)' /\ Stage(l, v, s, b, x, c)'
      BY <2>1, <2>3, <3>1, <3>2, RoundStands, Zenon
    <3> QED
      BY <3>3, Zenon DEF RoundInv
  <2> QED
    BY <2>2, <2>3, Zenon DEF RoundInv
<1> QED
  BY <1>1, <1>2, <1>3, <1>4, ZenonT(60) DEF SequentialNext, RoundInv

(* Commands issued one after the other, with nothing lost, expiring, failing or
   crashing: whenever everything sent has been handled all logs hold the seq and
   the ballot of the last command and all stores its value. *)
THEOREM ReplicasAlign == ASSUME Faults = {} PROVE SequentialSpec => []Aligned
<1> DEFINE Inv == TypeOK /\ RoundInv
<1>1. Init => Inv
  <2> SUFFICES ASSUME Init PROVE RoundInv
    BY InitType
  <2>1. Rested(0, 0, NoVal)
    BY DEF Init, Rested, At, Idle
  <2> QED
    BY <2>1 DEF RoundInv
<1>2. Inv /\ [SequentialNext]_vars => Inv'
  <2> SUFFICES ASSUME Inv, [SequentialNext]_vars PROVE Inv'
    OBVIOUS
  <2>1. TypeOK'
    BY NextType DEF SequentialNext
  <2> QED
    BY <2>1, RoundNext
<1>3. Inv => Aligned
  <2> SUFFICES ASSUME RoundInv, Quiet
               PROVE  \E s, b, x : Rested(s, b, x)
    BY Zenon DEF Aligned, Rested, At
  <2>1. ASSUME NEW l \in Nodes, NEW w \in Values, NEW s \in Nat, NEW b \in Nat,
               NEW x \in Values \cup {NoVal}, NEW c \in Nat,
               Round(l, w, s, c), Stage(l, w, s, b, x, c)
        PROVE  Rested(s + 1, c, w)
    BY <2>1, RoundEnds
  <2> QED
    BY <2>1, ZenonT(60) DEF RoundInv
<1> HIDE DEF Inv
<1> QED
  BY <1>1, <1>2, <1>3, PTL DEF SequentialSpec

-----------------------------------------------------------------------------
(* Votes, whatever fails *)

(* Replica n has asked under message m, or m answers it. *)
Asked(n, m) == \/ Live(m) /\ m.from = n
               \/ IsResponse(m) /\ m.to = n

Asker(n, m) == IF m.from = n THEN m.to ELSE m.from

Distinct(votes) == \A i, j \in 1 .. Len(votes) : votes[i].peer = votes[j].peer => i = j

(* Peer p has voted, is asked or answers under the ballot of n's entry, and
   it is one of the three. *)
VotesOnce(n) ==
  /\ Distinct(cmds[n].votes)
  /\ \A m \in msgs : Asked(n, m) /\ m.ballot = cmds[n].ballot =>
        \A i \in 1 .. Len(cmds[n].votes) : cmds[n].votes[i].peer # Asker(n, m)
  /\ \A m, x \in msgs : /\ Asked(n, m) /\ m.ballot = cmds[n].ballot
                        /\ Asked(n, x) /\ x.ballot = cmds[n].ballot
                        /\ Asker(n, x) = Asker(n, m)
                        => x = m

Elected(n) ==
  /\ Distinct(committing[n].cmd.votes)
  /\ Len(committing[n].cmd.votes) >= Quorum

VoteInv == \A n \in Nodes : (Own(n) => VotesOnce(n)) /\ (OwnCommit(n) => Elected(n))

(* A replica whose own entry keeps its ballot and its votes, and that no new
   message concerns. *)
LEMMA VotesKept ==
  ASSUME NEW n \in Nodes, VotesOnce(n),
         cmds'[n].ballot = cmds[n].ballot, cmds'[n].votes = cmds[n].votes,
         \A x \in msgs' : Asked(n, x) => x \in msgs
  PROVE  VotesOnce(n)'
<1>1. Distinct(cmds'[n].votes)
  BY Zenon DEF VotesOnce
<1>2. ASSUME NEW m \in msgs', Asked(n, m), m.ballot = cmds'[n].ballot
      PROVE  /\ m \in msgs
             /\ \A i \in 1 .. Len(cmds'[n].votes) : cmds'[n].votes[i].peer # Asker(n, m)
  BY <1>2, Zenon DEF VotesOnce
<1>3. ASSUME NEW m \in msgs', NEW x \in msgs', Asked(n, m), m.ballot = cmds'[n].ballot,
             Asked(n, x), x.ballot = cmds'[n].ballot, Asker(n, x) = Asker(n, m)
      PROVE  x = m
  BY <1>2, <1>3, Zenon DEF VotesOnce
<1> QED
  BY <1>1, <1>2, <1>3, Zenon DEF VotesOnce

LEMMA PassiveVotes ==
  ASSUME VoteInv,
         \A p \in Nodes : Own(p)' => /\ Own(p)
                                     /\ cmds'[p].ballot = cmds[p].ballot
                                     /\ cmds'[p].votes = cmds[p].votes,
         \A p \in Nodes : OwnCommit(p)' => /\ OwnCommit(p)
                                           /\ committing'[p].cmd = committing[p].cmd,
         \A p \in Nodes : \A x \in msgs' : Asked(p, x) => x \in msgs
  PROVE  VoteInv'
<1>1. ASSUME NEW p \in Nodes, Own(p)' PROVE VotesOnce(p)'
  BY <1>1, VotesKept, Zenon DEF VoteInv
<1>2. ASSUME NEW p \in Nodes, OwnCommit(p)' PROVE Elected(p)'
  BY <1>2, Zenon DEF VoteInv, Elected
<1> QED
  BY <1>1, <1>2, Zenon DEF VoteInv

(* Steps that neither propose nor vote. *)
LEMMA OtherVotes ==
  ASSUME TypeOK, TypeOK', VoteInv,
         \/ \E v \in Values : Caller(v)
         \/ \E n \in Nodes : Committer(n) \/ Expire(n)
         \/ \E m \in msgs : \/ IgnorePreAccept(m.to, m) \/ IgnoreAccept(m.to, m)
                            \/ IgnoreCommit(m.to, m) \/ IgnoreResponse(m.to, m)
                            \/ UpdateBallotEarly(m.to, m) \/ HandleCommit(m.to, m) \/ Lose(m)
         \/ UNCHANGED vars
  PROVE  VoteInv'
<1>1. \E n \in Nodes : cmds' \in {cmds, [cmds EXCEPT ![n] = NoCmd]}
  <2>1. 0 \in Nodes
    BY NAssumption DEF Nodes
  <2>2. \A m \in msgs : m.to \in Nodes
    BY MsgFields DEF TypeOK
  <2> QED
    BY <2>1, <2>2, ZenonT(60) DEF Caller, CheckCommand, WaitCommand, ReturnCommand, Committer,
       CommitApply, CommitRecord, Expire, IgnorePreAccept, IgnoreAccept, IgnoreCommit,
       IgnoreResponse, Ignored, UpdateBallotEarly, HandleCommit, Lose, vars
<1>2. \A p \in Nodes : cmds'[p] = cmds[p] \/ cmds'[p] = NoCmd
  BY <1>1 DEF TypeOK
<1>3. \A p \in Nodes : Own(p)' => Own(p) /\ cmds'[p] = cmds[p]
  <2>1. NoCmd.status = "absent"
    BY DEF NoCmd
  <2> QED
    BY <1>2, <2>1, Zenon DEF Own, Present
<1>4. \/ committing' = committing
      \/ \E n \in Nodes : committing' \in {[committing EXCEPT ![n].pc = "record"],
                                           [committing EXCEPT ![n] = Idle]}
                          /\ committing[n].pc # "none"
  <2>1. ASSUME NEW n \in Nodes, CommitApply(n)
        PROVE  committing' \in {[committing EXCEPT ![n].pc = "record"],
                                [committing EXCEPT ![n] = Idle]}
               /\ committing[n].pc # "none"
    BY <2>1, Zenon DEF CommitApply
  <2>2. ASSUME NEW n \in Nodes, CommitRecord(n)
        PROVE  committing' = [committing EXCEPT ![n] = Idle] /\ committing[n].pc # "none"
    BY <2>2, Zenon DEF CommitRecord
  <2> QED
    BY <2>1, <2>2, ZenonT(60) DEF Caller, CheckCommand, WaitCommand, ReturnCommand, Committer,
       Expire, IgnorePreAccept, IgnoreAccept, IgnoreCommit,
       IgnoreResponse, Ignored, UpdateBallotEarly, HandleCommit, Lose, vars
<1>5. \A p \in Nodes : OwnCommit(p)' => OwnCommit(p) /\ committing'[p].cmd = committing[p].cmd
  <2>1. Idle.pc = "none"
    BY DEF Idle
  <2>2. ASSUME NEW n \in Nodes, committing' = [committing EXCEPT ![n].pc = "record"],
               committing[n].pc # "none", NEW p \in Nodes, OwnCommit(p)'
        PROVE  OwnCommit(p) /\ committing'[p].cmd = committing[p].cmd
    <3>1. /\ committing'[p].cmd = committing[p].cmd
          /\ p # n => committing'[p] = committing[p]
      BY <2>2 DEF TypeOK, Committing
    <3> QED
      BY <2>2, <3>1, Zenon DEF OwnCommit
  <2>3. ASSUME NEW n \in Nodes, committing' = [committing EXCEPT ![n] = Idle],
               NEW p \in Nodes, OwnCommit(p)'
        PROVE  OwnCommit(p) /\ committing'[p].cmd = committing[p].cmd
    <3>1. IF p = n THEN committing'[p] = Idle ELSE committing'[p] = committing[p]
      BY <2>3 DEF TypeOK
    <3> QED
      BY <2>1, <2>3, <3>1, Zenon DEF OwnCommit
  <2> QED
    BY <1>4, <2>2, <2>3, Zenon DEF OwnCommit
<1>6. \A p \in Nodes : \A x \in msgs' : Asked(p, x) => x \in msgs
  <2>1. ASSUME NEW n \in Nodes, CommitRecord(n), NEW x \in msgs', x \notin msgs
        PROVE  x.type = "COMMIT"
    <3>1. x \in ToOthers("COMMIT", n, committing[n].cmd.ballot, committing[n].cmd.seq, TRUE,
                         committing[n].cmd.val)
      BY <2>1, Zenon DEF CommitRecord
    <3> QED
      BY <3>1 DEF ToOthers, Message
  <2>2. \/ msgs' \subseteq msgs
        \/ \E n \in Nodes : CommitRecord(n)
    BY ZenonT(60) DEF Caller, CheckCommand, WaitCommand, ReturnCommand, Committer,
       CommitApply, Expire, IgnorePreAccept, IgnoreAccept, IgnoreCommit,
       IgnoreResponse, Ignored, UpdateBallotEarly, HandleCommit, Lose, vars
  <2>3. ASSUME NEW x \in msgs', x.type = "COMMIT", NEW p \in Nodes PROVE ~ Asked(p, x)
    BY <2>3 DEF Asked, Live, IsRequest, IsResponse
  <2> QED
    BY <2>1, <2>2, <2>3, Zenon
<1> QED
  BY <1>3, <1>5, <1>6, PassiveVotes, Zenon

LEMMA SentToOthers ==
  ASSUME NEW type \in {"PRE_ACCEPT", "ACCEPT"}, NEW n, NEW b, NEW s, NEW committed, NEW v
  PROVE  /\ \A x \in ToOthers(type, n, b, s, committed, v) :
               IsRequest(x) /\ ~ IsResponse(x) /\ x.from = n /\ x.ballot = b
         /\ \A x, y \in ToOthers(type, n, b, s, committed, v) : x.to = y.to => x = y
<1> DEFINE M(p) == Message(type, n, p, b, s, committed, v)
<1>1. \A p : M(p).type = type /\ M(p).from = n /\ M(p).to = p /\ M(p).ballot = b
  BY Zenon DEF Message
<1>2. \A x \in ToOthers(type, n, b, s, committed, v) : \E p \in Nodes \ {n} : x = M(p)
  BY Zenon DEF ToOthers
<1> HIDE DEF M
<1>3. \A x \in ToOthers(type, n, b, s, committed, v) : x.type = type /\ x.from = n /\ x.ballot = b
  BY <1>1, <1>2, Zenon
<1>4. \A x : x.type = type => IsRequest(x) /\ ~ IsResponse(x)
  BY DEF IsRequest, IsResponse
<1>5. \A x \in ToOthers(type, n, b, s, committed, v) : x = M(x.to)
  BY <1>1, <1>2, Zenon
<1>6. ASSUME NEW x \in ToOthers(type, n, b, s, committed, v),
             NEW y \in ToOthers(type, n, b, s, committed, v), x.to = y.to
      PROVE  x = y
  BY <1>5, <1>6, Zenon
<1> QED
  BY <1>3, <1>4, <1>6, Zenon

(* The replica that opens a round has asked every peer once, and nobody has
   voted. *)
LEMMA RoundOpens ==
  ASSUME NEW n, cmds'[n].votes = << >>,
         NEW type \in {"PRE_ACCEPT", "ACCEPT"}, NEW s, NEW committed, NEW v, NEW b, NEW old,
         msgs' = old \cup ToOthers(type, n, b, s, committed, v),
         \A x \in old : Asked(n, x) => x.ballot # cmds'[n].ballot
  PROVE  VotesOnce(n)'
<1> DEFINE sent == ToOthers(type, n, b, s, committed, v)
<1>1. \A x \in sent : x.from = n
  BY SentToOthers, Zenon
<1>2. \A x, y \in sent : x.to = y.to => x = y
  BY SentToOthers, Zenon
<1>3. Len(cmds'[n].votes) = 0 /\ 1 .. 0 = {}
  BY SMT
<1> HIDE DEF sent
<1>4. \A i : i \notin 1 .. Len(cmds'[n].votes)
  BY <1>3, Zenon
<1>5. Distinct(cmds'[n].votes)
  BY <1>4, Zenon DEF Distinct
<1>6. \A x \in msgs' : Asked(n, x) /\ x.ballot = cmds'[n].ballot => x \in sent
  BY Zenon DEF sent
<1>7. ASSUME NEW x \in sent, NEW y \in sent, Asker(n, x) = Asker(n, y) PROVE x = y
  BY <1>1, <1>2, <1>7, Zenon DEF Asker
<1> QED
  BY <1>4, <1>5, <1>6, <1>7, Zenon DEF VotesOnce

LEMMA OthersUnasked ==
  ASSUME NEW type \in {"PRE_ACCEPT", "ACCEPT"}, NEW n, NEW b, NEW s, NEW committed, NEW v,
         NEW x \in ToOthers(type, n, b, s, committed, v), NEW p, p # n
  PROVE  ~ Asked(p, x)
<1>1. ~ IsResponse(x) /\ x.from = n
  BY SentToOthers, Zenon
<1> QED
  BY <1>1, Zenon DEF Asked

LEMMA ProposeVotes ==
  ASSUME TypeOK, TypeOK', VoteInv, NEW n \in Nodes, NEW v \in Values, RunCommand(n, v), msgs = {}
  PROVE  VoteInv'
<1>1. PICK seq : /\ cmds' = [cmds EXCEPT ![n] = [ZeroCmd EXCEPT !.val = v, !.seq = seq,
                                                   !.ballot = ballot[n], !.status = "PRE_ACCEPTED"]]
                 /\ msgs' = msgs \cup ToOthers("PRE_ACCEPT", n, ballot[n], seq, FALSE, v)
                 /\ committing' = committing
  BY Zenon DEF RunCommand
<1>2. cmds'[n].votes = << >> /\ \A p \in Nodes \ {n} : cmds'[p] = cmds[p]
  BY <1>1 DEF TypeOK, ZeroCmd, NoCmd
<1>3. VotesOnce(n)'
  <2>1. \A x \in msgs : Asked(n, x) => x.ballot # cmds'[n].ballot
    OBVIOUS
  <2> QED
    BY <1>1, <1>2, <2>1, RoundOpens, ZenonT(60)
<1>4. ASSUME NEW p \in Nodes, p # n, Own(p)' PROVE VotesOnce(p)'
  <2>1. Own(p) /\ cmds'[p] = cmds[p]
    BY <1>2, <1>4, Zenon DEF Own, Present
  <2>2. \A x \in msgs' : Asked(p, x) => x \in msgs
    BY <1>1, <1>4, OthersUnasked, Zenon
  <2> QED
    BY <2>1, <2>2, VotesKept, Zenon DEF VoteInv
<1>5. ASSUME NEW p \in Nodes, OwnCommit(p)' PROVE Elected(p)'
  BY <1>1, <1>5, Zenon DEF VoteInv, Elected, OwnCommit
<1> QED
  BY <1>3, <1>4, <1>5, Zenon DEF VoteInv

LEMMA AdoptVotes ==
  ASSUME TypeOK, TypeOK', LifeInv, LifeInv', VoteInv, NEW n, NEW m,
         HandlePreAccept(n, m) \/ HandleAccept(n, m)
  PROVE  VoteInv'
<1>1. m \in msgs /\ m.to = n /\ IsRequest(m)
  BY DEF HandlePreAccept, HandleAccept, Receive, IsRequest
<1>2. n \in Nodes /\ m.from # n /\ IS_MY_BALLOT(m.from, m.ballot) /\ m.from \in Nodes
  BY <1>1, NumericFacts, Zenon DEF Numeric, LifeInv, LiveMessages
<1>3. PICK new, S : Adopted(n, m, new, S)
  BY AdoptedEntry, Zenon DEF LifeInv
<1>4. /\ cmds'[n] = new /\ \A p \in Nodes \ {n} : cmds'[p] = cmds[p]
      /\ msgs' = (msgs \ {m}) \cup S /\ committing' = committing
      /\ Answer(m, new.ballot, S)
  BY <1>2, <1>3 DEF TypeOK, Adopted
<1>5. \A r \in S : Live(m) /\ IsResponse(r) /\ ~ IsRequest(r) /\ r.from = n /\ r.to = m.from
                    /\ r.ballot = new.ballot
  <2>1. \A r : IsResponse(r) => ~ IsRequest(r)
    BY DEF IsResponse, IsRequest
  <2> QED
    BY <1>1, <1>4, <2>1, Zenon DEF Answer, Live
<1>6. ASSUME Own(n)' PROVE VotesOnce(n)'
  <2>1. Own(n) /\ cmds'[n].votes = cmds[n].votes
    BY <1>3, <1>4, <1>6, Zenon DEF Adopted, Own, Present
  <2>2. \A x \in msgs' : Asked(n, x) => x \in msgs
    BY <1>2, <1>4, <1>5, Zenon DEF Asked, Live
  <2>3. CASE cmds'[n].ballot = cmds[n].ballot
    BY <1>2, <2>1, <2>2, <2>3, VotesKept, Zenon DEF VoteInv
  <2>4. CASE cmds'[n].ballot = m.ballot
    <3>1. ~ IS_MY_BALLOT(n, cmds'[n].ballot)
      BY <1>2, <2>4, OneOwner, Zenon
    <3>2. \A x \in msgs' : Asked(n, x) => x.ballot < cmds'[n].ballot
      BY <1>2, <1>6, <3>1, Zenon DEF LifeInv, LiveOutbids, Asked
    <3>3. \A x \in msgs' : x.ballot \in Nat /\ cmds'[n].ballot \in Nat
      <4>1. Numeric'
        BY NumericFacts, PTL
      <4> QED
        BY <1>2, <4>1, Zenon DEF Numeric
    <3>4. \A x \in msgs' : Asked(n, x) => x.ballot # cmds'[n].ballot
      BY <3>2, <3>3
    <3>5. Distinct(cmds'[n].votes)
      BY <1>2, <2>1, Zenon DEF VoteInv, VotesOnce
    <3> QED
      BY <3>4, <3>5, Zenon DEF VotesOnce
  <2> QED
    BY <1>3, <1>4, <2>3, <2>4, Zenon DEF Adopted
<1>7. ASSUME NEW p \in Nodes, p # n, Own(p)' PROVE VotesOnce(p)'
  <2>1. Own(p) /\ cmds'[p] = cmds[p] /\ VotesOnce(p)
    BY <1>4, <1>7, Zenon DEF Own, Present, VoteInv
  <2>2. CASE \A r \in S : ~ (p = m.from /\ r.ballot = cmds[p].ballot)
    <3>1. \A x \in msgs' : Asked(p, x) /\ x.ballot = cmds'[p].ballot => x \in msgs
      BY <1>4, <1>5, <2>1, <2>2, Zenon DEF Asked, Live
    <3> QED
      BY <2>1, <3>1, Zenon DEF VotesOnce
  <2>3. ASSUME NEW r \in S, p = m.from, r.ballot = cmds[p].ballot PROVE VotesOnce(p)'
    <3>1. Asked(p, m) /\ Asked(p, r) /\ Asker(p, m) = n /\ Asker(p, r) = n
      BY <1>1, <1>2, <1>5, <2>3, Zenon DEF Asked, Asker
    <3>2. m.ballot = cmds[p].ballot
      <4>1. /\ m.ballot \in Nat /\ cmds[p].ballot \in Nat /\ cmds[n].ballot \in Nat
            /\ m.ballot >= cmds[n].ballot /\ m.ballot <= cmds[p].ballot
        <5>1. m.ballot \in Nat /\ cmds[p].ballot \in Nat /\ cmds[n].ballot \in Nat
          BY <1>1, <1>2, NumericFacts, Zenon DEF Numeric
        <5>2. m.ballot < cmds[p].ballot \/ m.ballot = cmds[p].ballot
          BY <1>1, <2>1, <3>1, Zenon DEF LifeInv, LiveOutbids, Asked
        <5>3. m.ballot >= cmds[n].ballot
          BY HandledOutbids, Zenon DEF LifeInv
        <5> QED
          BY <5>1, <5>2, <5>3
      <4>2. new.ballot = cmds[p].ballot
        BY <1>5, <2>3, Zenon
      <4>3. new.ballot = m.ballot \/ new.ballot = cmds[n].ballot
        BY <1>3, Zenon DEF Adopted
      <4> QED
        BY <4>1, <4>2, <4>3
    <3>3. ASSUME NEW x \in msgs', Asked(p, x), x.ballot = cmds'[p].ballot, Asker(p, x) = n
          PROVE  x = r
      <4>1. x \in msgs \ {m} \/ x \in S
        BY <1>4
      <4>2. x \notin msgs \ {m}
        BY <1>1, <2>1, <3>1, <3>2, <3>3, Zenon DEF VotesOnce
      <4> QED
        BY <1>4, <2>3, <4>1, <4>2, Zenon DEF Answer
    <3>4. \A x \in msgs' : Asker(p, x) # n /\ Asked(p, x) => x \in msgs
      BY <1>4, <1>5, <2>3, Zenon DEF Asker
    <3>5. \A i \in 1 .. Len(cmds[p].votes) : cmds[p].votes[i].peer # n
      BY <1>1, <2>1, <3>1, <3>2, Zenon DEF VotesOnce
    <3>6. ASSUME NEW x \in msgs', Asked(p, x), x.ballot = cmds'[p].ballot
          PROVE  \A i \in 1 .. Len(cmds'[p].votes) : cmds'[p].votes[i].peer # Asker(p, x)
      BY <2>1, <3>4, <3>5, <3>6, Zenon DEF VotesOnce
    <3>7. ASSUME NEW x \in msgs', Asked(p, x), x.ballot = cmds'[p].ballot,
                 NEW y \in msgs', Asked(p, y), y.ballot = cmds'[p].ballot,
                 Asker(p, y) = Asker(p, x)
          PROVE  y = x
      <4>1. CASE Asker(p, x) = n
        BY <3>3, <3>7, <4>1, Zenon
      <4>2. CASE Asker(p, x) # n
        BY <2>1, <3>4, <3>7, <4>2, Zenon DEF VotesOnce
      <4> QED
        BY <4>1, <4>2
    <3> QED
      BY <2>1, <3>6, <3>7, Zenon DEF VotesOnce
  <2> QED
    BY <2>2, <2>3, Zenon
<1>8. ASSUME NEW p \in Nodes, OwnCommit(p)' PROVE Elected(p)'
  BY <1>4, <1>8, Zenon DEF VoteInv, Elected, OwnCommit
<1> QED
  BY <1>6, <1>7, <1>8, Zenon DEF VoteInv

LEMMA DistinctAppend ==
  ASSUME NEW T, NEW votes \in Seq(T), NEW e \in T, Distinct(votes),
         \A i \in 1 .. Len(votes) : votes[i].peer # e.peer
  PROVE  /\ Distinct(Append(votes, e))
         /\ \A i \in 1 .. Len(Append(votes, e)) :
               \/ Append(votes, e)[i].peer = e.peer
               \/ \E j \in 1 .. Len(votes) : Append(votes, e)[i].peer = votes[j].peer
<1> DEFINE more == Append(votes, e)
<1>1. /\ Len(votes) \in Nat /\ Len(more) = Len(votes) + 1
      /\ more[Len(votes) + 1] = e
      /\ \A i \in 1 .. Len(votes) : more[i] = votes[i]
  OBVIOUS
<1> HIDE DEF more
<1>2. \A i \in 1 .. Len(more) : i \in 1 .. Len(votes) \/ i = Len(votes) + 1
  BY <1>1
<1>3. ASSUME NEW i \in 1 .. Len(more), NEW j \in 1 .. Len(more), more[i].peer = more[j].peer
      PROVE  i = j
  BY <1>1, <1>2, <1>3, Zenon DEF Distinct
<1>4. ASSUME NEW i \in 1 .. Len(more)
      PROVE  more[i].peer = e.peer \/ \E j \in 1 .. Len(votes) : more[i].peer = votes[j].peer
  BY <1>1, <1>2, Zenon
<1> QED
  BY <1>3, <1>4, Zenon DEF Distinct, more

-----------------------------------------------------------------------------
(* How many they are *)

(* The definition of Cardinality, under a name of its own: the library of
   theorems instantiates FiniteSets once more. *)
Sized(S) == LET CS[T \in SUBSET S] == IF T = {} THEN 0 ELSE 1 + CS[T \ {CHOOSE x : x \in T}]
            IN  CS[S]

LEMMA CardinalityHere == \A S : Cardinality(S) = Sized(S)
  BY DEF Cardinality, Sized

LOCAL INSTANCE FiniteSetTheorems

LEMMA CardinalityThere == \A S : Cardinality(S) = Sized(S)
  BY DEF Cardinality, Sized

LEMMA DistinctCount ==
  ASSUME NEW n \in Nat, NEW f, \A i, j \in 1 .. n : f[i] = f[j] => i = j
  PROVE  Sized({f[i] : i \in 1 .. n}) = n
<1> DEFINE S == {f[i] : i \in 1 .. n}
           g == [i \in 1 .. n |-> f[i]]
<1>1. g \in Bijection(1 .. n, S)
  <2>1. g \in [1 .. n -> S]
    BY Zenon
  <2>2. \A i, j \in 1 .. n : g[i] = g[j] => i = j
    BY Zenon
  <2>3. \A x \in S : \E i \in 1 .. n : g[i] = x
    BY Zenon
  <2> HIDE DEF g, S
  <2> QED
    BY <2>1, <2>2, <2>3, Zenon DEF Bijection, Injection, Surjection, IsInjective
<1>2. ExistsBijection(1 .. n, S)
  BY <1>1, Zenon DEF ExistsBijection
<1>3. IsFiniteSet(1 .. n) /\ Cardinality(1 .. n) = n
  BY FS_Interval
<1> QED
  BY <1>2, <1>3, FS_Bijection, CardinalityThere

LEMMA VotersCount ==
  ASSUME TypeOK, VoteInv PROVE CommitHasQuorum
<1> DEFINE Voters(n) == {committing[n].cmd.votes[i].peer : i \in 1 .. Len(committing[n].cmd.votes)}
<1>1. ASSUME NEW n \in Nodes, OwnCommit(n) PROVE 2 * (Sized(Voters(n)) + 1) > N
  <2> DEFINE votes == committing[n].cmd.votes
             f == [i \in 1 .. Len(votes) |-> votes[i].peer]
  <2>1. Distinct(votes) /\ Len(votes) >= Quorum
    BY <1>1, Zenon DEF VoteInv, Elected
  <2>2. Len(votes) \in Nat
    <3>1. votes \in Seq([seq : Nat, ballot : Ballot, peer : Nodes])
      BY Fields, Zenon DEF Cmd
    <3> QED
      BY <3>1
  <2>3. Voters(n) = {f[i] : i \in 1 .. Len(votes)}
    BY Zenon
  <2> HIDE DEF votes
  <2>4. \A i, j \in 1 .. Len(votes) : f[i] = f[j] => i = j
    BY <2>1, Zenon DEF Distinct
  <2> HIDE DEF f, Voters
  <2>5. Sized(Voters(n)) = Len(votes)
    BY <2>2, <2>3, <2>4, DistinctCount
  <2>6. 2 * (Len(votes) + 1) > N
    BY <2>1, <2>2, NAssumption DEF Quorum
  <2> QED
    BY <2>5, <2>6
<1>2. SUFFICES \A n \in Nodes : OwnCommit(n) => 2 * (Sized(Voters(n)) + 1) > N
  BY CardinalityHere DEF CommitHasQuorum
<1> HIDE DEF Voters
<1> QED
  BY <1>1, Zenon

(* An answer that is counted. *)
LEMMA CountedAnswer ==
  ASSUME TypeOK, NEW n, NEW m, HandlePreAcceptResponse(n, m) \/ HandleAcceptResponse(n, m)
  PROVE  \E cmd \in {PreAcceptVoted(n, m), AcceptVoted(n, m)} :
            \/ /\ cmds' = [cmds EXCEPT ![n] = cmd]
               /\ msgs' = msgs \ {m}
               /\ UNCHANGED <<committing, commits>>
            \/ Len(cmd.votes) >= Quorum /\ StartCommit(n, m, cmd)
            \/ \E s : StartAccept(n, m, cmd, s)
<1>1. CASE HandlePreAcceptResponse(n, m)
  BY <1>1, Zenon DEF HandlePreAcceptResponse
<1>2. CASE HandleAcceptResponse(n, m)
  <2> DEFINE cmd == AcceptVoted(n, m)
  <2>1. \/ /\ cmds' = [cmds EXCEPT ![n] = cmd]
           /\ msgs' = msgs \ {m}
           /\ UNCHANGED <<committing, commits>>
        \/ count_ok(cmd, m) >= Quorum /\ StartCommit(n, m, cmd)
        \/ \E s : StartAccept(n, m, cmd, s)
    BY <1>2, Zenon DEF HandleAcceptResponse
  <2>2. n \in Nodes /\ m \in Msg
    BY <1>2, MsgFields, Zenon DEF HandleAcceptResponse, ReceiveResponse, Receive, TypeOK
  <2>3. Len(cmd.votes) \in Nat
    <3>1. cmd \in Cmd
      BY <2>2, VotedType
    <3> HIDE DEF cmd
    <3>2. cmd.votes \in Seq([seq : Nat, ballot : Ballot, peer : Nodes])
      BY <3>1, Zenon DEF Cmd
    <3> QED
      BY <3>2
  <2> HIDE DEF cmd
  <2>4. count_ok(cmd, m) <= Len(cmd.votes) /\ count_ok(cmd, m) \in Nat
    <3> DEFINE K == {i \in 1 .. Len(cmd.votes) :
                        cmd.votes[i].seq = m.seq /\ cmd.votes[i].ballot = m.ballot}
    <3>1. count_ok(cmd, m) = Sized(K)
      BY CardinalityHere DEF count_ok
    <3>2. K \subseteq 1 .. Len(cmd.votes)
      OBVIOUS
    <3> HIDE DEF K
    <3>3. IsFiniteSet(1 .. Len(cmd.votes)) /\ Cardinality(1 .. Len(cmd.votes)) = Len(cmd.votes)
      BY <2>3, FS_Interval
    <3>4. Cardinality(K) <= Len(cmd.votes) /\ Cardinality(K) \in Nat
      BY <3>2, <3>3, FS_Subset, FS_CardinalityType, Zenon
    <3> QED
      BY <3>1, <3>4, CardinalityThere
  <2>5. Quorum \in Nat
    BY NAssumption DEF Quorum
  <2>6. count_ok(cmd, m) >= Quorum => Len(cmd.votes) >= Quorum
    BY <2>3, <2>4, <2>5
  <2> QED
    BY <2>1, <2>6, Zenon DEF cmd
<1> QED
  BY <1>1, <1>2, Zenon

LEMMA ResponseVotes ==
  ASSUME TypeOK, TypeOK', LifeInv, VoteInv, NEW n, NEW m,
         HandlePreAcceptResponse(n, m) \/ HandleAcceptResponse(n, m)
  PROVE  VoteInv'
<1>1. /\ m \in msgs /\ m.to = n /\ IsResponse(m) /\ m.type # "COMMIT"
      /\ Present(n) /\ ~ (m.ballot < cmds[n].ballot)
      /\ ballot' = [ballot EXCEPT ![n] = update_ballot(n, ballot[n], m.ballot)]
  BY SMTT(60) DEF HandlePreAcceptResponse, HandleAcceptResponse, ReceiveResponse, Receive, IsResponse,
         ResponseIgnored
<1>2. n \in Nodes /\ m \in Msg /\ m.from # n
  BY <1>1, MsgFields, Zenon DEF TypeOK, LifeInv, LiveMessages
<1>3. m.ballot < ballot'[n] /\ m.ballot \in Nat
  BY <1>1, ReceivedBallots, NumericFacts, ZenonT(60) DEF Numeric, LifeInv, LiveMessages
<1>4. PICK cmd \in {PreAcceptVoted(n, m), AcceptVoted(n, m)} :
         \/ /\ cmds' = [cmds EXCEPT ![n] = cmd]
            /\ msgs' = msgs \ {m}
            /\ UNCHANGED <<committing, commits>>
         \/ Len(cmd.votes) >= Quorum /\ StartCommit(n, m, cmd)
         \/ \E s : StartAccept(n, m, cmd, s)
  BY CountedAnswer, Zenon
<1>5. /\ cmd \in Cmd /\ cmd.val = cmds[n].val /\ cmd.ballot = cmds[n].ballot
      /\ cmd.status = cmds[n].status
  <2>1. cmd \in Cmd
    BY <1>2, VotedType
  <2> QED
    BY <1>2, <2>1, VotedKeeps, ZenonT(60)
<1>6. cmd.votes = Append(cmds[n].votes, Vote(m))
  <2>1. cmds[n] \in Cmd
    BY <1>2, Fields
  <2> QED
    BY <2>1, Zenon DEF PreAcceptVoted, AcceptVoted, Cmd
<1>7. ASSUME Own(n)
      PROVE  /\ m.ballot = cmds[n].ballot
             /\ Distinct(cmd.votes)
             /\ \A x \in msgs \ {m} : Asked(n, x) /\ x.ballot = cmds[n].ballot =>
                   \A i \in 1 .. Len(cmd.votes) : cmd.votes[i].peer # Asker(n, x)
             /\ \A x \in msgs : Asked(n, x) => x.ballot < ballot'[n]
  <2>1. m.ballot = cmds[n].ballot
    BY <1>1, <1>2, <1>7, Zenon DEF LifeInv, LiveOutbids
  <2>2. Asked(n, m) /\ Asker(n, m) = m.from
    BY <1>1, <1>2, Zenon DEF Asked, Asker
  <2>3. VotesOnce(n)
    BY <1>2, <1>7, Zenon DEF VoteInv
  <2> DEFINE votes == cmds[n].votes
             T == [seq : Nat, ballot : Ballot, peer : Nodes]
  <2>4. votes \in Seq(T) /\ Vote(m) \in T /\ Vote(m).peer = m.from
    <3>1. votes \in Seq(T)
      BY <1>2, Fields, Zenon DEF Cmd
    <3>2. Vote(m) \in T
      BY <1>2, MsgFields, Zenon DEF Vote, Msg
    <3> QED
      BY <3>1, <3>2, Zenon DEF Vote
  <2>5. \A i \in 1 .. Len(votes) : votes[i].peer # Vote(m).peer
    BY <1>1, <2>1, <2>2, <2>3, <2>4, Zenon DEF VotesOnce
  <2>6. Distinct(votes)
    BY <2>3, Zenon DEF VotesOnce
  <2> HIDE DEF votes, T
  <2>7. /\ Distinct(cmd.votes)
        /\ \A i \in 1 .. Len(cmd.votes) :
               \/ cmd.votes[i].peer = m.from
               \/ \E j \in 1 .. Len(votes) : cmd.votes[i].peer = votes[j].peer
    <3>1. cmd.votes = Append(votes, Vote(m))
      BY <1>6, Zenon DEF votes
    <3>2. /\ Distinct(Append(votes, Vote(m)))
          /\ \A i \in 1 .. Len(Append(votes, Vote(m))) :
               \/ Append(votes, Vote(m))[i].peer = Vote(m).peer
               \/ \E j \in 1 .. Len(votes) : Append(votes, Vote(m))[i].peer = votes[j].peer
      BY <2>4, <2>5, <2>6, DistinctAppend
    <3> QED
      BY <2>4, <3>1, <3>2, Zenon
  <2>8. ASSUME NEW x \in msgs \ {m}, Asked(n, x), x.ballot = cmds[n].ballot
        PROVE  /\ Asker(n, x) # m.from
               /\ \A j \in 1 .. Len(votes) : votes[j].peer # Asker(n, x)
    BY <1>1, <2>1, <2>2, <2>3, <2>8, Zenon DEF VotesOnce, votes
  <2>9. ASSUME NEW x \in msgs, Asked(n, x) PROVE x.ballot < ballot'[n]
    <3>1. x.ballot < cmds[n].ballot \/ x.ballot = cmds[n].ballot
      BY <1>2, <1>7, <2>9, Zenon DEF LifeInv, LiveOutbids, Asked
    <3>2. x.ballot \in Nat /\ ballot'[n] \in Nat
      <4>1. Numeric /\ Numeric'
        BY NumericFacts, PTL
      <4> QED
        BY <1>2, <4>1, Zenon DEF Numeric
    <3> QED
      BY <1>3, <2>1, <3>1, <3>2
  <2> QED
    BY <2>1, <2>7, <2>8, <2>9, ZenonT(60)
<1>8. CASE /\ cmds' = [cmds EXCEPT ![n] = cmd]
           /\ msgs' = msgs \ {m}
           /\ UNCHANGED <<committing, commits>>
  <2>1. cmds'[n] = cmd /\ \A p \in Nodes \ {n} : cmds'[p] = cmds[p]
    BY <1>2, <1>8 DEF TypeOK
  <2>2. ASSUME Own(n)' PROVE VotesOnce(n)'
    <3>1. Own(n) /\ VotesOnce(n)
      BY <1>2, <1>5, <2>1, <2>2, Zenon DEF Own, Present, VoteInv
    <3> QED
      BY <1>5, <1>7, <1>8, <2>1, <3>1, ZenonT(60) DEF VotesOnce
  <2>3. ASSUME NEW p \in Nodes, p # n, Own(p)' PROVE VotesOnce(p)'
    <3>1. Own(p) /\ cmds'[p] = cmds[p]
      BY <2>1, <2>3, Zenon DEF Own, Present
    <3> QED
      BY <1>8, <3>1, VotesKept, Zenon DEF VoteInv
  <2>4. ASSUME NEW p \in Nodes, OwnCommit(p)' PROVE Elected(p)'
    BY <1>8, <2>4, Zenon DEF VoteInv, Elected, OwnCommit
  <2> QED
    BY <2>2, <2>3, <2>4, Zenon DEF VoteInv
<1>9. CASE Len(cmd.votes) >= Quorum /\ StartCommit(n, m, cmd)
  <2>1. /\ cmds'[n] = NoCmd /\ committing'[n].cmd = cmd /\ msgs' \subseteq msgs
        /\ \A p \in Nodes \ {n} : cmds'[p] = cmds[p] /\ committing'[p] = committing[p]
    BY <1>2, <1>9 DEF StartCommit, TypeOK
  <2>2. ~ Own(n)'
    BY <2>1 DEF Own, Present, NoCmd
  <2>3. ASSUME NEW p \in Nodes, p # n, Own(p)' PROVE VotesOnce(p)'
    <3>1. Own(p) /\ cmds'[p] = cmds[p]
      BY <2>1, <2>3, Zenon DEF Own, Present
    <3> QED
      BY <2>1, <3>1, VotesKept, Zenon DEF VoteInv
  <2>4. ASSUME OwnCommit(n)' PROVE Elected(n)'
    <3>1. Own(n)
      BY <1>1, <1>5, <2>1, <2>4, Zenon DEF Own, OwnCommit
    <3> QED
      BY <1>7, <1>9, <2>1, <3>1, Zenon DEF Elected
  <2>5. ASSUME NEW p \in Nodes, p # n, OwnCommit(p)' PROVE Elected(p)'
    BY <2>1, <2>5, Zenon DEF VoteInv, Elected, OwnCommit
  <2> QED
    BY <2>2, <2>3, <2>4, <2>5, Zenon DEF VoteInv
<1>10. ASSUME NEW s, StartAccept(n, m, cmd, s) PROVE VoteInv'
  <2> DEFINE new == [cmd EXCEPT !.votes = << >>, !.max_seq = 0, !.seq = s,
                                !.ballot = ballot'[n], !.status = "ACCEPTED"]
             sent == ToOthers("ACCEPT", n, ballot'[n], s, FALSE, cmd.val)
  <2>1. /\ cmds' = [cmds EXCEPT ![n] = new]
        /\ msgs' = (msgs \ {m}) \cup sent
        /\ committing' = committing
    BY <1>10, ZenonT(60) DEF StartAccept
  <2>2. new.votes = << >> /\ new.ballot = ballot'[n] /\ new.val = cmd.val
    BY <1>5, Zenon DEF Cmd
  <2> HIDE DEF new
  <2>3. cmds'[n] = new /\ \A p \in Nodes \ {n} : cmds'[p] = cmds[p]
    BY <1>2, <2>1 DEF TypeOK
  <2>4. ASSUME Own(n)' PROVE VotesOnce(n)'
    <3>1. Own(n)
      BY <1>1, <1>5, <2>2, <2>3, <2>4, Zenon DEF Own
    <3>2. \A x \in msgs \ {m} : Asked(n, x) => x.ballot # cmds'[n].ballot
      <4>1. \A x \in msgs : x.ballot \in Nat /\ ballot'[n] \in Nat
        <5>1. Numeric /\ Numeric'
          BY NumericFacts, PTL
        <5> QED
          BY <1>2, <5>1, Zenon DEF Numeric
      <4> QED
        BY <1>7, <2>2, <2>3, <3>1, <4>1
    <3>3. cmds'[n].votes = << >>
      BY <2>2, <2>3, Zenon
    <3> QED
      BY <2>1, <3>2, <3>3, RoundOpens, ZenonT(60)
  <2>5. ASSUME NEW p \in Nodes, p # n, Own(p)' PROVE VotesOnce(p)'
    <3>1. Own(p) /\ cmds'[p] = cmds[p]
      BY <2>3, <2>5, Zenon DEF Own, Present
    <3>2. \A x \in msgs' : Asked(p, x) => x \in msgs
      BY <2>1, <2>5, OthersUnasked, Zenon
    <3> QED
      BY <3>1, <3>2, VotesKept, Zenon DEF VoteInv
  <2>6. ASSUME NEW p \in Nodes, OwnCommit(p)' PROVE Elected(p)'
    BY <2>1, <2>6, Zenon DEF VoteInv, Elected, OwnCommit
  <2> QED
    BY <2>4, <2>5, <2>6, Zenon DEF VoteInv
<1> QED
  BY <1>4, <1>8, <1>9, <1>10, Zenon

LEMMA RestartVotes ==
  ASSUME TypeOK, TypeOK', VoteInv, NEW n \in Nodes, Restart(n)
  PROVE  VoteInv'
<1>1. /\ cmds' = [cmds EXCEPT ![n] = NoCmd]
      /\ committing' = [committing EXCEPT ![n] = Idle]
      /\ msgs' = {[m EXCEPT !.closed = @ \/ m.from = n] : m \in {x \in msgs : x.to # n}}
  BY Zenon DEF Restart
<1>2. /\ cmds'[n] = NoCmd /\ committing'[n] = Idle
      /\ \A p \in Nodes \ {n} : cmds'[p] = cmds[p] /\ committing'[p] = committing[p]
  BY <1>1, SMTT(60) DEF TypeOK
<1>3. ~ Own(n)' /\ ~ OwnCommit(n)'
  BY <1>2 DEF Own, Present, OwnCommit, NoCmd, Idle
<1> DEFINE Closed(m) == [m EXCEPT !.closed = @ \/ m.from = n]
<1>4. ASSUME NEW m \in msgs
      PROVE  /\ Closed(m).type = m.type /\ Closed(m).from = m.from /\ Closed(m).to = m.to
             /\ Closed(m).ballot = m.ballot
             /\ m.closed => Closed(m).closed
  <2>1. m \in Msg
    BY DEF TypeOK
  <2> QED
    BY <2>1, Zenon DEF Msg
<1>5. \A x \in msgs' : \E m \in msgs : x = Closed(m)
  BY <1>1, Zenon
<1> HIDE DEF Closed
<1>6. ASSUME NEW p \in Nodes, NEW m \in msgs
      PROVE  /\ Asked(p, Closed(m)) => Asked(p, m)
             /\ Asker(p, Closed(m)) = Asker(p, m)
  <2>1. IsRequest(Closed(m)) = IsRequest(m) /\ IsResponse(Closed(m)) = IsResponse(m)
    BY <1>4, Zenon DEF IsRequest, IsResponse
  <2> QED
    BY <1>4, <2>1, Zenon DEF Asked, Asker, Live
<1>7. ASSUME NEW p \in Nodes, p # n, Own(p)' PROVE VotesOnce(p)'
  <2>1. Own(p) /\ cmds'[p] = cmds[p] /\ VotesOnce(p)
    BY <1>2, <1>7, Zenon DEF Own, Present, VoteInv
  <2>2. ASSUME NEW x \in msgs', Asked(p, x), x.ballot = cmds'[p].ballot
        PROVE  \A i \in 1 .. Len(cmds'[p].votes) : cmds'[p].votes[i].peer # Asker(p, x)
    <3>1. PICK m \in msgs : x = Closed(m)
      BY <1>5, Zenon
    <3>2. Asked(p, m) /\ Asker(p, x) = Asker(p, m) /\ m.ballot = cmds[p].ballot
      BY <1>4, <1>6, <2>1, <2>2, <3>1, Zenon
    <3> QED
      BY <2>1, <3>2, Zenon DEF VotesOnce
  <2>3. ASSUME NEW x \in msgs', Asked(p, x), x.ballot = cmds'[p].ballot,
               NEW y \in msgs', Asked(p, y), y.ballot = cmds'[p].ballot,
               Asker(p, y) = Asker(p, x)
        PROVE  y = x
    <3>1. PICK m \in msgs : x = Closed(m)
      BY <1>5, Zenon
    <3>2. PICK q \in msgs : y = Closed(q)
      BY <1>5, Zenon
    <3>3. Asked(p, m) /\ Asker(p, x) = Asker(p, m) /\ m.ballot = cmds[p].ballot
      BY <1>4, <1>6, <2>1, <2>3, <3>1, Zenon
    <3>4. Asked(p, q) /\ Asker(p, y) = Asker(p, q) /\ q.ballot = cmds[p].ballot
      BY <1>4, <1>6, <2>1, <2>3, <3>2, Zenon
    <3> QED
      BY <2>1, <2>3, <3>1, <3>2, <3>3, <3>4, Zenon DEF VotesOnce
  <2> QED
    BY <2>1, <2>2, <2>3, Zenon DEF VotesOnce
<1>8. ASSUME NEW p \in Nodes, p # n, OwnCommit(p)' PROVE Elected(p)'
  BY <1>2, <1>8, Zenon DEF VoteInv, Elected, OwnCommit
<1> QED
  BY <1>3, <1>7, <1>8, Zenon DEF VoteInv

LEMMA NextVotes ==
  ASSUME TypeOK, TypeOK', LifeInv, LifeInv', VoteInv, [SequentialNext]_vars
  PROVE  VoteInv'
<1>1. ASSUME NEW n \in Leaders, NEW v \in Values, RunCommand(n, v), SequentialNext PROVE VoteInv'
  <2>1. run[v].pc = "idle" /\ run'[v].pc # "idle"
    BY <1>1 DEF RunCommand, Destroyed
  <2>2. msgs = {}
    BY <1>1, <2>1, Zenon DEF SequentialNext, Quiet
  <2>3. n \in Nodes
    BY LeadersAssumption DEF Nodes
  <2> QED
    BY <1>1, <2>2, <2>3, ProposeVotes, Zenon
<1>2. ASSUME NEW n \in Nodes, Restart(n) PROVE VoteInv'
  BY <1>2, RestartVotes
<1>3. ASSUME NEW m \in msgs, Handle(m.to, m) PROVE VoteInv'
  BY <1>3, AdoptVotes, ResponseVotes, OtherVotes, ZenonT(60) DEF Handle
<1>4. ASSUME \/ \E v \in Values : Caller(v)
             \/ \E n \in Nodes : Committer(n) \/ Expire(n)
             \/ \E m \in msgs : UpdateBallotEarly(m.to, m) \/ Lose(m)
             \/ UNCHANGED vars
      PROVE  VoteInv'
  BY <1>4, OtherVotes, ZenonT(60)
<1> QED
  BY <1>1, <1>2, <1>3, <1>4, ZenonT(60) DEF SequentialNext, Next

(* When commands are issued one after the other, whatever is lost, expires,
   fails or crashes, a leader commits only with the votes of a majority of
   distinct replicas: no answer is counted twice, neither within a round nor
   from an earlier one. *)
THEOREM MajorityVoted == SequentialSpec => []CommitHasQuorum
<1> DEFINE Inv == TypeOK /\ LifeInv /\ VoteInv
<1>1. Init => Inv
  <2>1. Init => VoteInv
    BY DEF Init, VoteInv, Own, Present, OwnCommit, NoCmd, Idle
  <2> QED
    BY <2>1, InitType, InitBallots
<1>2. Inv /\ [SequentialNext]_vars => Inv'
  <2> SUFFICES ASSUME Inv, [SequentialNext]_vars PROVE Inv'
    OBVIOUS
  <2>1. [Next]_vars
    BY DEF SequentialNext
  <2>2. TypeOK'
    BY <2>1, NextType
  <2>3. LifeInv'
    BY <2>1, <2>2, NextBallots, RestartBallots DEF Kept
  <2> QED
    BY <2>2, <2>3, NextVotes
<1>3. Inv => CommitHasQuorum
  BY VotersCount
<1> HIDE DEF Inv
<1> QED
  BY <1>1, <1>2, <1>3, PTL DEF SequentialSpec
==============================================================================
