------------------------------- MODULE Reader -------------------------------
(* The asynchronous reader of the messages between nodes (src/async_reader.c).
   A stream of messages reaches it in segments of any size.  Whenever some bytes
   arrive, and also when its owner is done with a message,
   async_read_context_update takes as much as it can make sense of out of the
   ring buffer, calls back with the data of the records, and leaves its context
   such that the next call can go on.

   Bytes are numbers, and lengths are encoded as on the wire.  An action is one
   branch of async_read_context_update or of the loops it calls; pc says which
   comes next, "wait" that the call has returned. *)
EXTENDS Integers, Sequences, SequencesExt

CONSTANTS
    Messages,       \* the messages: [version : 1..3, records : Seq(Seq(0..255)), end : 0..255]
    MaxMessages,    \* how many of them the stream has at most
    Wrap            \* the range of a uint16_t: 2^16

ASSUME ReaderBounds == MaxMessages \in Nat /\ Wrap \in Nat

VARIABLES
    msgs,           \* the messages of the stream
    rest,           \* the bytes of the stream that have not arrived
    buf,            \* ctx->buf
    ctx,            \* the context
    cur,            \* the records of this message the callback was given so far
    read,           \* the messages the callback was told are complete
    pc              \* "wait", "update", "record", "length", "data"

vars == <<msgs, rest, buf, ctx, cur, read, pc>>
-----------------------------------------------------------------------------
(* The wire *)

NOOP == 144
RSEP == 128
EOM == 0
MAGIC == <<115, 104, 99>>
SHC_PROTOCOL_VERSION == 2

Word(n) == <<n \div 256, n % 256>>
DoubleWord(n) == Word(n \div 65536) \o Word(n % 65536)
Number(bytes) == FoldLeft(LAMBDA n, b : 256 * n + b, 0, bytes)

(* A record of version 1 is a chunk, unless it is empty, and an empty chunk; one
   of version 2 has its length first. *)
Record(version, data) ==
    IF version < 2
    THEN (IF data = << >> THEN << >> ELSE Word(Len(data)) \o data) \o Word(0)
    ELSE DoubleWord(Len(data)) \o data

(* A message after a NOOP such as a pool of connections sends.  It is well formed
   if its version is known and its last byte is the end of a message. *)
build_message(m) ==
    <<NOOP>> \o MAGIC \o <<m.version, 1>>
    \o Record(m.version, m.records[1])
    \o FlattenSeq([i \in 1 .. Len(m.records) - 1 |-> <<RSEP>> \o Record(m.version, m.records[i + 1])])
    \o <<m.end>>

WellFormed(m) == m.version <= SHC_PROTOCOL_VERSION /\ m.end = EOM

Stream(ms) == FlattenSeq([i \in DOMAIN ms |-> build_message(ms[i])])
-----------------------------------------------------------------------------
(* The context as async_read_context_create makes it, and as the next update
   finds it after a message. *)
Fresh == [state |-> "NONE", version |-> 0, magic |-> << >>,
          rnum |-> 0, rlen |-> 0, clen |-> 0, coff |-> 0, chunk |-> << >>]

Init ==
    /\ msgs \in UNION {[1..n -> Messages] : n \in 1..MaxMessages}
    /\ rest = Stream(msgs)
    /\ buf = << >>
    /\ ctx = Fresh
    /\ cur = << >> /\ read = << >>
    /\ pc = "wait"

Take(n) == SubSeq(buf, 1, n)
Drop(n) == SubSeq(buf, n + 1, Len(buf))

(* The callback with data of record idx: it is added to what came before. *)
cb(idx, data) ==
    cur' = [i \in 1 .. (IF idx < Len(cur) THEN Len(cur) ELSE idx + 1) |->
               (IF i \in DOMAIN cur THEN cur[i] ELSE << >>)
               \o (IF i = idx + 1 THEN data ELSE << >>)]

Call == UNCHANGED <<msgs, rest>>
Silent == UNCHANGED <<cur, read>>
Return == pc' = "wait"

(* async_read_context_input_data: a segment arrives.  After an error the owner
   closes the connection. *)
Input ==
    /\ pc = "wait" /\ ctx.state # "ERR"
    /\ \E n \in 1 .. Len(rest) :
          /\ buf' = buf \o SubSeq(rest, 1, n)
          /\ rest' = SubSeq(rest, n + 1, Len(rest))
    /\ pc' = "update"
    /\ UNCHANGED <<msgs, ctx>> /\ Silent

(* The owner is done with the message that was read. *)
Again ==
    /\ pc = "wait" /\ ctx.state = "DONE" /\ buf # << >>
    /\ pc' = "update"
    /\ UNCHANGED <<buf, ctx>> /\ Call /\ Silent
-----------------------------------------------------------------------------
(* async_read_context_update *)

NextMessage ==
    /\ pc = "update" /\ ctx.state = "DONE"
    /\ ctx' = Fresh
    /\ UNCHANGED <<buf, pc>> /\ Call /\ Silent

(* Nothing, or not enough, is in the buffer, or the state is one that update
   does nothing about. *)
Starved ==
    /\ pc = "update" /\ ctx.state # "DONE"
    /\ \/ buf = << >>
       \/ ctx.state = "MAGIC" /\ Len(buf) < 4 - Len(ctx.magic)
       \/ ctx.state = "RSEP"
    /\ Return
    /\ UNCHANGED <<buf, ctx>> /\ Call /\ Silent

Updating(state) == pc = "update" /\ ctx.state = state /\ buf # << >>

SkipNoop ==
    /\ Updating("NONE") /\ buf[1] = NOOP
    /\ buf' = Drop(1)
    /\ UNCHANGED <<ctx, pc>> /\ Call /\ Silent

FirstByte ==
    /\ Updating("NONE") /\ buf[1] # NOOP
    /\ ctx' = [ctx EXCEPT !.state = "MAGIC", !.magic = Take(1)]
    /\ buf' = Drop(1)
    /\ UNCHANGED pc /\ Call /\ Silent

\* Mutated: the first byte of the magic is counted twice.
ReadMagicFour ==
    LET magic == ctx.magic \o Take(4)
        good == SubSeq(magic, 1, 3) = MAGIC /\ magic[4] <= SHC_PROTOCOL_VERSION
    IN  /\ Updating("MAGIC") /\ Len(buf) >= 4
        /\ buf' = Drop(4)
        /\ ctx' = [ctx EXCEPT !.magic = magic, !.version = IF good THEN magic[4] ELSE 0,
                              !.state = IF good THEN "HDR" ELSE "ERR"]
        /\ pc' = IF good THEN "update" ELSE "wait"
        /\ Call /\ Silent

ReadMagic ==
    LET n == 4 - Len(ctx.magic)
        magic == ctx.magic \o Take(n)
        good == SubSeq(magic, 1, 3) = MAGIC /\ magic[4] <= SHC_PROTOCOL_VERSION
    IN  /\ Updating("MAGIC") /\ Len(buf) >= n
        /\ buf' = Drop(n)
        /\ ctx' = [ctx EXCEPT !.magic = magic, !.version = IF good THEN magic[4] ELSE 0,
                              !.state = IF good THEN "HDR" ELSE "ERR"]
        /\ pc' = IF good THEN "update" ELSE "wait"
        /\ Call /\ Silent

ReadHdr ==
    /\ Updating("HDR")
    /\ ctx' = [ctx EXCEPT !.state = "RECORD"]
    /\ buf' = Drop(1)
    /\ pc' = "record"
    /\ Call /\ Silent

ReadRecord ==
    /\ Updating("RECORD")
    /\ pc' = "record"
    /\ UNCHANGED <<buf, ctx>> /\ Call /\ Silent
-----------------------------------------------------------------------------
\* Mutated: the end of a message empties the buffer.
move_to_next_record_clear(c, bytes, next) ==
    /\ Call
    /\ \/ /\ bytes = << >>
          /\ ctx' = [c EXCEPT !.state = "RSEP"]
          /\ buf' = bytes /\ Return /\ Silent
       \/ /\ bytes # << >> /\ bytes[1] = RSEP
          /\ ctx' = [c EXCEPT !.rnum = @ + 1, !.rlen = 0]
          /\ cb(c.rnum, << >>)
          /\ buf' = Tail(bytes) /\ pc' = next /\ UNCHANGED read
       \/ /\ bytes # << >> /\ bytes[1] # RSEP
          /\ ctx' = [c EXCEPT !.state = "DONE"]
          /\ read' = Append(read, cur) /\ cur' = << >>
          /\ buf' = << >> /\ Return

(* async_read_move_to_next_record with context c, as which it goes on at next
   after a separator.  The callback for DONE is that of update. *)
move_to_next_record(c, bytes, next) ==
    /\ Call
    /\ \/ /\ bytes = << >>
          /\ ctx' = [c EXCEPT !.state = "RSEP"]
          /\ buf' = bytes /\ Return /\ Silent
       \/ /\ bytes # << >> /\ bytes[1] = RSEP
          /\ ctx' = [c EXCEPT !.rnum = @ + 1, !.rlen = 0]
          /\ cb(c.rnum, << >>)
          /\ buf' = Tail(bytes) /\ pc' = next /\ UNCHANGED read
       \/ /\ bytes # << >> /\ bytes[1] = EOM
          /\ ctx' = [c EXCEPT !.state = "DONE"]
          /\ read' = Append(read, cur) /\ cur' = << >>
          /\ buf' = Tail(bytes) /\ Return
       \/ /\ bytes # << >> /\ bytes[1] \notin {RSEP, EOM}
          /\ ctx' = [c EXCEPT !.state = "ERR"]
          /\ buf' = Tail(bytes) /\ Return /\ Silent

V1 == ctx.version < 2
ToRead(n) == IF Len(buf) < n THEN Len(buf) ELSE n

(* async_read_parse_protocol_v1: a chunk is handed over when the length of the
   next one is there. *)
V1Chunk ==
    /\ pc = "record" /\ V1 /\ ctx.coff = ctx.clen
    /\ Call /\ UNCHANGED read
    /\ IF Len(buf) < 2
       THEN Return /\ UNCHANGED <<buf, ctx, cur>>
       ELSE /\ IF ctx.clen > 0 THEN cb(ctx.rnum, ctx.chunk) ELSE UNCHANGED cur
            /\ ctx' = [ctx EXCEPT !.clen = Number(Take(2)), !.coff = 0, !.chunk = << >>,
                                  !.rlen = @ + Number(Take(2))]
            /\ buf' = Drop(2)
            /\ pc' = "data"

V1Resume ==
    /\ pc = "record" /\ V1 /\ ctx.coff # ctx.clen
    /\ pc' = "data"
    /\ UNCHANGED <<buf, ctx>> /\ Call /\ Silent

\* Mutated: what arrives is always put at the start of the chunk.
V1DataOver ==
    LET rb == ToRead(ctx.clen - ctx.coff)
    IN  /\ pc = "data" /\ V1 /\ ctx.clen > ctx.coff
        /\ ctx' = [ctx EXCEPT !.coff = @ + rb, !.chunk = Take(rb)]
        /\ buf' = Drop(rb)
        /\ pc' = IF buf' = << >> THEN "wait" ELSE "record"
        /\ Call /\ Silent

\* Mutated: the loop is left after a chunk.
V1DataOnce ==
    LET rb == ToRead(ctx.clen - ctx.coff)
    IN  /\ pc = "data" /\ V1 /\ ctx.clen > ctx.coff
        /\ ctx' = [ctx EXCEPT !.coff = @ + rb, !.chunk = @ \o Take(rb)]
        /\ buf' = Drop(rb)
        /\ Return
        /\ Call /\ Silent

V1Data ==
    LET rb == ToRead(ctx.clen - ctx.coff)
    IN  /\ pc = "data" /\ V1 /\ ctx.clen > ctx.coff
        /\ ctx' = [ctx EXCEPT !.coff = @ + rb, !.chunk = @ \o Take(rb)]
        /\ buf' = Drop(rb)
        /\ pc' = IF buf' = << >> THEN "wait" ELSE "record"
        /\ Call /\ Silent

V1End ==
    /\ pc = "data" /\ V1 /\ ctx.clen <= ctx.coff
    /\ move_to_next_record(ctx, buf, "record")

(* async_read_parse_protocol_v2: data are handed over as they come. *)
V2End ==
    /\ pc = "record" /\ ~ V1 /\ ctx.coff = ctx.rlen /\ ctx.rlen > 0
    /\ move_to_next_record(ctx, buf, "length")

V2Record ==
    /\ pc = "record" /\ ~ V1 /\ (ctx.coff # ctx.rlen \/ ctx.rlen = 0)
    /\ pc' = IF ctx.coff = ctx.rlen THEN "length" ELSE "data"
    /\ UNCHANGED <<buf, ctx>> /\ Call /\ Silent

V2Length ==
    LET rlen == Number(Take(4))
    IN  /\ pc = "length"
        /\ IF Len(buf) < 4
           THEN Return /\ UNCHANGED <<buf, ctx>> /\ Call /\ Silent
           ELSE IF rlen = 0
           THEN move_to_next_record([ctx EXCEPT !.clen = 0, !.coff = 0], Drop(4), "data")
           ELSE /\ ctx' = [ctx EXCEPT !.rlen = rlen, !.clen = rlen % Wrap, !.coff = 0]
                /\ buf' = Drop(4)
                /\ pc' = "data"
                /\ Call /\ Silent

V2Data ==
    LET rb == ToRead(ctx.rlen - ctx.coff)
    IN  /\ pc = "data" /\ ~ V1 /\ ctx.rlen > ctx.coff
        /\ cb(ctx.rnum, Take(rb))
        /\ ctx' = [ctx EXCEPT !.coff = (@ + rb) % Wrap]
        /\ buf' = Drop(rb)
        /\ pc' = IF buf' = << >> THEN "wait" ELSE "record"
        /\ Call /\ UNCHANGED read

V2Loop ==
    /\ pc = "data" /\ ~ V1 /\ ctx.rlen <= ctx.coff
    /\ pc' = "record"
    /\ UNCHANGED <<buf, ctx>> /\ Call /\ Silent
-----------------------------------------------------------------------------
Update == NextMessage \/ Starved \/ SkipNoop \/ FirstByte \/ ReadMagic \/ ReadHdr \/ ReadRecord
Parse == V1Chunk \/ V1Resume \/ V1Data \/ V1End
         \/ V2End \/ V2Record \/ V2Length \/ V2Data \/ V2Loop

Next == Input \/ Again \/ Update \/ Parse

Spec == Init /\ [][Next]_vars

(* The stream arrives, the owner comes back for more, and the code runs. *)
FairSpec == Spec /\ WF_vars(Next)
-----------------------------------------------------------------------------
(* Properties *)

Bytes == 0..255

(* The callback is not told of empty records at the end. *)
Same(got, records) ==
    \A i \in 1 .. (IF Len(got) > Len(records) THEN Len(got) ELSE Len(records)) :
        (IF i \in DOMAIN got THEN got[i] ELSE << >>)
            = (IF i \in DOMAIN records THEN records[i] ELSE << >>)

Following == msgs[Len(read) + 1].records

(* Wherever the segments end, the callback is given the messages of the stream,
   in order, each with its records; of the message that follows, it was given
   whole records and then a part of one. *)
Faithful ==
    /\ Len(read) <= Len(msgs)
    /\ \A k \in DOMAIN read : Same(read[k], msgs[k].records)
    /\ cur # << >> =>
          /\ Len(read) < Len(msgs) /\ Len(cur) <= Len(Following)
          /\ \A i \in DOMAIN cur : IF i < Len(cur) THEN cur[i] = Following[i]
                                                   ELSE IsPrefix(cur[i], Following[i])

(* DONE is reached at the end of a message: what is left is the rest of the
   stream, to the byte. *)
NothingSwallowed ==
    ctx.state = "DONE" => buf \o rest = Stream(SubSeq(msgs, Len(read) + 1, Len(msgs)))

(* A message is refused if, and only if, it is not well formed. *)
OnlyBrokenRefused ==
    /\ \A k \in DOMAIN read : WellFormed(msgs[k])
    /\ ctx.state = "ERR" => ~ WellFormed(msgs[Len(read) + 1])

AllRead == Len(read) = Len(msgs) \/ ctx.state = "ERR"

(* The separator after an empty record was not there in time; nothing brings
   the reader out of this state. *)
Stalled == ctx.state = "RSEP"

(* The length after a separator was not there in time: the offset is that of the
   record before, and the loop of version 2 never ends. *)
Spinning == ctx.version = 2 /\ ctx.state = "RECORD" /\ ctx.rlen = 0 /\ ctx.coff > 0

(* Every message is read or refused in the end, unless a segment ends where the
   reader does not expect it to. *)
ReadUnlessCut == <>(AllRead \/ Stalled \/ Spinning)
=============================================================================
