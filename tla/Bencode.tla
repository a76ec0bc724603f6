------------------------------- MODULE Bencode -------------------------------
(***************************************************************************)
(* lib/bendy: the bencode reader and writer every other codec of the       *)
(* program is built on.  One StateTracker, shared by both, decides which   *)
(* token may come next; the Decoder hands out List and Dict decoders that  *)
(* borrow it, may be left half read, and read themselves to the end when   *)
(* they are dropped; the Encoder writes dictionaries that are already      *)
(* sorted, or collects and sorts the pairs first.                          *)
(*                                                                         *)
(* A behaviour encodes a value or takes a byte string as it comes, then a  *)
(* client reads it: it asks the innermost open object for its next item,   *)
(* drops that object, or asks for its raw bytes, in every order.  Bytes    *)
(* are their ASCII codes.  An integer keeps its text, as Token::Num does.  *)
(***************************************************************************)
EXTENDS Integers, Sequences, SequencesExt, FiniteSetsExt

CONSTANTS Documents,   \* byte strings given to the decoder
          Values,      \* values given to the encoder
          MaxDepth     \* max_depth of the trackers

VARIABLES value,       \* the value source encodes, <<>> or <<value>>
          ordered,     \* must_order of the decoder
          source,      \* the bytes being read
          dec,         \* the Decoder: its offset, its tracker, the tokens read
          open,        \* the List and Dict decoders the client holds
          raw,         \* the slices into_raw returned
          done         \* there is nothing (more) to read

benVars == <<value, ordered, source, dec, open, raw, done>>

Digits == 48..57
Minus == 45
Colon == 58
CharD == 100
CharE == 101
CharI == 105
CharL == 108

Tok(k, s) == [k |-> k, s |-> s]

(***************************************************************************)
(* StateTracker.                                                           *)
(***************************************************************************)
LexLess(a, b) == \/ IsStrictPrefix(a, b)
                 \/ \E i \in 1..Min({Len(a), Len(b)}) :
                       a[i] < b[i] /\ \A j \in 1..(i - 1) : a[j] = b[j]

SeqState == [k |-> "Seq", last |-> <<>>]
MapKey(last) == [k |-> "MapKey", last |-> last]
MapValue(key) == [k |-> "MapValue", last |-> <<key>>]
FailedState == [k |-> "Failed", last |-> <<>>]

Peek(st) == IF st = <<>> THEN "None" ELSE Last(st).k

Failed(st) == Peek(st) = "Failed"

latch_err(st) == IF Failed(st) THEN st ELSE Append(st, FailedState)

observe_eof(st) == IF st = <<>> THEN st ELSE latch_err(st)

Nest(st, max, s) == IF Len(st) >= max THEN latch_err(st) ELSE Append(st, s)

Nested(st, max, tok) ==
  CASE tok.k = "List" -> Nest(st, max, SeqState)
    [] tok.k = "Dict" -> Nest(st, max, MapKey(<<>>))
    [] OTHER -> st

\* Mutant: a repeated key counts as sorted.
KeyMayRepeat(must_order, last, key) ==
  must_order /\ last # <<>> /\ LexLess(key, last[1])

OutOfOrder(must_order, last, key) ==
  must_order /\ last # <<>> /\ ~LexLess(last[1], key)

observe_token(st, must_order, max, tok) ==
  LET below == IF st = <<>> THEN <<>> ELSE Front(st)
      last == IF st = <<>> THEN <<>> ELSE Last(st).last
  IN CASE Peek(st) = "None" /\ tok.k = "End" -> latch_err(st)
       [] Peek(st) \in {"Seq", "MapKey"} /\ tok.k = "End" -> below
       [] Peek(st) = "MapKey" /\ tok.k = "String" ->
            IF OutOfOrder(must_order, last, tok.s)
              THEN latch_err(below)
              ELSE Append(below, MapValue(tok.s))
       [] Peek(st) = "MapKey" /\ tok.k # "String" -> latch_err(st)
       [] Peek(st) = "MapValue" /\ tok.k = "End" -> latch_err(st)
       [] Peek(st) = "MapValue" /\ tok.k # "End" ->
            Nested(Append(below, MapKey(last)), max, tok)
       [] OTHER -> Nested(st, max, tok)

(***************************************************************************)
(* The Encoder: its tracker and its output.                                *)
(***************************************************************************)
Decimal(n) == IF n < 10 THEN <<48 + n>> ELSE <<48 + (n \div 10), 48 + (n % 10)>>

Text(tok) == CASE tok.k = "List" -> <<CharL>>
               [] tok.k = "Dict" -> <<CharD>>
               [] tok.k = "End" -> <<CharE>>
               [] tok.k = "Num" -> <<CharI>> \o tok.s \o <<CharE>>
               [] tok.k = "String" -> Decimal(Len(tok.s)) \o <<Colon>> \o tok.s

NewEncoder(max) == [st |-> <<>>, max |-> max, out |-> <<>>]

emit_text(e, tok, bytes) ==
  IF Failed(e.st) THEN e
  ELSE LET st == observe_token(e.st, TRUE, e.max, tok)
       IN [e EXCEPT !.st = st, !.out = IF Failed(st) THEN @ ELSE @ \o bytes]

emit_token(e, tok) == emit_text(e, tok, Text(tok))

\* What the pairs of an UnsortedDictEncoder come to, the values being encoded as
\* encs: content sorted by key, or an error when a value failed to encode or a key
\* came twice.
Collected(pairs, encs) ==
  LET bad == \/ \E i \in DOMAIN pairs : encs[i].st # <<>>
             \/ \E i, j \in DOMAIN pairs : i # j /\ pairs[i][1] = pairs[j][1]
      content == SetToSortSeq({<<pairs[i][1], encs[i].out>> : i \in DOMAIN pairs},
                              LAMBDA x, y : LexLess(x[1], y[1]))
  IN [bad |-> bad, content |-> content]

remaining_depth(e) == e.max - Len(e.st)

RECURSIVE emit(_, _)
emit_unsorted(e, pairs) ==
  LET begun == emit_token(e, Tok("Dict", <<>>))
      all == Collected(pairs, [i \in DOMAIN pairs |->
                                  emit(NewEncoder(remaining_depth(begun)), pairs[i][2])])
  IN IF Failed(begun.st) THEN begun
     ELSE IF all.bad THEN [begun EXCEPT !.st = latch_err(@)]
     ELSE emit_token(
            FoldLeft(LAMBDA acc, kv :
                       emit_text(emit_token(acc, Tok("String", kv[1])),
                                 Tok("Num", <<>>), kv[2]),
                     begun, all.content),
            Tok("End", <<>>))

emit_dict(e, pairs) ==
  emit_token(FoldLeft(LAMBDA acc, kv :
                        emit(emit_token(acc, Tok("String", kv[1])), kv[2]),
                      emit_token(e, Tok("Dict", <<>>)), pairs),
             Tok("End", <<>>))

emit_list(e, items) ==
  emit_token(FoldLeft(emit, emit_token(e, Tok("List", <<>>)), items),
             Tok("End", <<>>))

emit(e, v) ==
  CASE v.t = "int" -> emit_token(e, Tok("Num", v.text))
    [] v.t = "str" -> emit_token(e, Tok("String", v.text))
    [] v.t = "list" -> emit_list(e, v.items)
    [] v.t = "dict" -> emit_dict(e, v.pairs)
    [] v.t = "unsorted" -> emit_unsorted(e, v.pairs)

\* to_bencode: the finished encoder, refused unless its tracker is empty.
Encode(v) == emit(NewEncoder(MaxDepth), v)

Refused(e) == e.st # <<>>

get_output(e) == IF Refused(e) THEN <<>> ELSE e.out

(***************************************************************************)
(* The Decoder.                                                            *)
(***************************************************************************)
IntState(state, c, terminator) ==
  CASE state = "Start" /\ c = Minus -> "Sign"
    [] state = "Start" /\ c = 48 -> "Zero"
    [] state \in {"Start", "Sign"} /\ c \in Digits \ {48} -> "Digits"
    [] state = "Digits" /\ c \in Digits -> "Digits"
    [] state \in {"Zero", "Digits"} /\ c = terminator -> "Success"
    [] OTHER -> "Error"

\* The number of bytes of the integer at off, the terminator included, and 0
\* when there is no integer there.
take_int(off, terminator) ==
  LET n == Len(source) - off
      state[i \in 0..n] ==
        IF i = 0 THEN "Start"
        ELSE IF state[i - 1] \in {"Success", "Error"} THEN "Error"
        ELSE IntState(state[i - 1], source[off + i], terminator)
      ends == {i \in 0..n : state[i] = "Success"}
  IN IF ends = {} THEN 0 ELSE Min(ends)

Number(text) == FoldLeft(LAMBDA n, c : 10 * n + (c - 48), 0, text)

Slice(from, to) == SubSeq(source, from + 1, to)

NoToken == Tok("Error", <<>>)

raw_next_token(off) ==
  LET c == source[off + 1]
      num == take_int(off + 1, CharE)
      len == take_int(off, Colon)
      size == Number(Slice(off, off + len - 1))
  IN CASE c = CharE -> [tok |-> Tok("End", <<>>), off |-> off + 1]
       [] c = CharL -> [tok |-> Tok("List", <<>>), off |-> off + 1]
       [] c = CharD -> [tok |-> Tok("Dict", <<>>), off |-> off + 1]
       [] c = CharI /\ num # 0 ->
            [tok |-> Tok("Num", Slice(off + 1, off + num)), off |-> off + 1 + num]
       [] c \in Digits /\ len # 0 /\ off + len + size <= Len(source) ->
            [tok |-> Tok("String", Slice(off + len, off + len + size)),
             off |-> off + len + size]
       [] OTHER -> [tok |-> NoToken, off |-> off]

next_token(d) ==
  IF Failed(d.st) THEN d
  ELSE IF d.off = Len(source) THEN [d EXCEPT !.st = observe_eof(@)]
  ELSE LET r == raw_next_token(d.off)
           st == IF r.tok = NoToken THEN latch_err(d.st)
                 ELSE observe_token(d.st, ordered, MaxDepth, r.tok)
       IN [off |-> r.off, st |-> st,
           toks |-> IF Failed(st) THEN d.toks ELSE Append(d.toks, r.tok)]

\* The rest of the object at nesting level n, objects inside it included: each
\* is dropped as soon as it is handed out, and reads itself to its end.
RECURSIVE consume(_, _)
consume(d, n) == IF Failed(d.st) \/ Len(d.st) < n THEN d
                 ELSE consume(next_token(d), n)

\* Mutant: dropping an object leaves the decoder where it is.
consume_nothing(d, obj) == d

consume_all(d, obj) == IF obj.finished THEN d ELSE consume(d, obj.level)

\* The object a token starts, <<>> for one that is read whole.
Opened(d) ==
  IF ~Failed(d.st) /\ d.toks # <<>> /\ Last(d.toks).k \in {"List", "Dict"}
    THEN <<[k |-> Last(d.toks).k, start |-> d.off - 1, level |-> Len(d.st),
            finished |-> FALSE]>>
    ELSE <<>>

\* The token was an End, or the bytes are used up.
NoItem(d, e) == ~Failed(e.st) /\ (e.toks = d.toks \/ Last(e.toks).k = "End")

(***************************************************************************)
(* The client.                                                             *)
(***************************************************************************)
\* Decoder::next_object and ListDecoder::next_object.
NextObject ==
  /\ ~done /\ ~Failed(dec.st)
  /\ open # <<>> => Last(open).k = "List" /\ ~Last(open).finished
  /\ LET e == next_token(dec)
     IN /\ dec' = e
        /\ open' = IF NoItem(dec, e)
                     THEN IF open = <<>> THEN open
                          ELSE [open EXCEPT ![Len(open)].finished = TRUE]
                     ELSE open \o Opened(e)
        /\ done' = (open = <<>> /\ NoItem(dec, e))
  /\ UNCHANGED <<value, ordered, source, raw>>

\* DictDecoder::next_pair: the key, then the value.
NextPair ==
  /\ ~done /\ ~Failed(dec.st)
  /\ open # <<>> /\ Last(open).k = "Dict" /\ ~Last(open).finished
  /\ LET key == next_token(dec)
         val == next_token(key)
     IN IF NoItem(dec, key)
          THEN /\ dec' = key
               /\ open' = [open EXCEPT ![Len(open)].finished = TRUE]
          ELSE /\ dec' = val
               /\ open' = open \o Opened(val)
  /\ UNCHANGED <<value, ordered, source, raw, done>>

DropObject ==
  /\ open # <<>>
  /\ dec' = consume_all(dec, Last(open))
  /\ open' = Front(open)
  /\ UNCHANGED <<value, ordered, source, raw, done>>

IntoRaw ==
  /\ open # <<>> /\ ~Failed(dec.st)
  /\ LET d == consume_all(dec, Last(open))
     IN /\ dec' = d
        /\ raw' = IF Failed(d.st) THEN raw
                  ELSE Append(raw, Slice(Last(open).start, d.off))
  /\ open' = Front(open)
  /\ UNCHANGED <<value, ordered, source, done>>

BenInit ==
  /\ \/ \E v \in Values : /\ value = <<v>>
                          /\ source = get_output(Encode(v))
                          /\ done = Refused(Encode(v))
     \/ value = <<>> /\ source \in Documents /\ done = FALSE
  /\ ordered \in BOOLEAN
  /\ dec = [off |-> 0, st |-> <<>>, toks |-> <<>>]
  /\ open = <<>> /\ raw = <<>>

BenNext == NextObject \/ NextPair \/ DropObject \/ IntoRaw

-----------------------------------------------------------------------------
BenTypeOK ==
  /\ dec.off \in 0..Len(source)
  /\ \A i \in DOMAIN dec.st :
       /\ dec.st[i].k \in {"Seq", "MapKey", "MapValue", "Failed"}
       /\ dec.st[i].k = "Failed" => i = Len(dec.st)
  /\ \A i \in DOMAIN open : open[i].level \in 1..MaxDepth
  /\ done => open = <<>>

\* What a stream of tokens must look like, told without a stack: Depth(i) is
\* the number of objects open before token i, and Child(j, i) says that token i
\* starts an item of the object token j opened.
Opener(ts, i) == ts[i].k \in {"List", "Dict"}
Depth(ts, i) == Cardinality({j \in 1..(i - 1) : Opener(ts, j)})
                  - Cardinality({j \in 1..(i - 1) : ts[j].k = "End"})
Child(ts, j, i) == /\ j < i /\ ts[i].k # "End"
                   /\ Depth(ts, i) = Depth(ts, j) + 1
                   /\ \A h \in (j + 1)..i : Depth(ts, h) > Depth(ts, j)
Children(ts, j) == SetToSortSeq({i \in DOMAIN ts : Child(ts, j, i)}, <)

Valid(ts, sorted) ==
  /\ \A i \in DOMAIN ts : Depth(ts, i + 1) >= 0
  /\ Depth(ts, Len(ts) + 1) = 0
  /\ \A i \in DOMAIN ts : Opener(ts, i) => Depth(ts, i) < MaxDepth
  /\ \A j \in DOMAIN ts : ts[j].k = "Dict" =>
       LET c == Children(ts, j)
       IN /\ Len(c) % 2 = 0
          /\ \A n \in 1..(Len(c) \div 2) : ts[c[2 * n - 1]].k = "String"
          /\ sorted => \A n \in 1..(Len(c) \div 2 - 1) :
                         LexLess(ts[c[2 * n - 1]].s, ts[c[2 * n + 1]].s)

\* Whatever the client reads, drops or takes raw, the objects it still holds are
\* the objects the tracker is inside of, level by level: a half-read or dropped
\* object never leaves its parent reading from the wrong place
\* (decoder.rs: DictDecoder and ListDecoder, Drop).  What into_raw returned, the
\* bytes an info hash is computed from, is one whole object and nothing else.
OpenTracked ==
  /\ LET held == SelectSeq(open, LAMBDA o : ~o.finished)
     IN ~Failed(dec.st) =>
          /\ Len(held) = Len(dec.st)
          /\ \A i \in DOMAIN held :
               dec.st[i].k = IF held[i].k = "List" THEN "Seq" ELSE "MapKey"
  /\ \A i \in DOMAIN raw :
       \E a, b \in DOMAIN dec.toks :
         LET whole == SubSeq(dec.toks, a, b)
         IN /\ a <= b /\ Opener(dec.toks, a) /\ Valid(whole, ordered)
            /\ \A h \in 2..Len(whole) : Depth(whole, h) > 0
            /\ raw[i] = FlattenSeq([h \in DOMAIN whole |-> Text(whole[h])])

\* The tokens of a value, each dictionary in key order.
RECURSIVE TokensOf(_)
TokensOf(v) ==
  CASE v.t = "int" -> <<Tok("Num", v.text)>>
    [] v.t = "str" -> <<Tok("String", v.text)>>
    [] v.t = "list" ->
         <<Tok("List", <<>>)>>
           \o FlattenSeq([i \in DOMAIN v.items |-> TokensOf(v.items[i])])
           \o <<Tok("End", <<>>)>>
    [] OTHER ->
         LET ps == SortSeq(v.pairs, LAMBDA x, y : LexLess(x[1], y[1]))
         IN <<Tok("Dict", <<>>)>>
              \o FlattenSeq([i \in DOMAIN ps |->
                               <<Tok("String", ps[i][1])>> \o TokensOf(ps[i][2])])
              \o <<Tok("End", <<>>)>>

RECURSIVE SortedAsGiven(_)
SortedAsGiven(v) ==
  CASE v.t \in {"int", "str"} -> TRUE
    [] v.t = "list" -> \A i \in DOMAIN v.items : SortedAsGiven(v.items[i])
    [] OTHER -> /\ v.t = "dict" => \A i, j \in DOMAIN v.pairs :
                                     i < j => LexLess(v.pairs[i][1], v.pairs[j][1])
                /\ \A i \in DOMAIN v.pairs : SortedAsGiven(v.pairs[i][2])

\* The encoder writes exactly the values whose tokens are valid in key order and
\* whose sorted dictionaries came sorted (a repeated key, an unsorted emit_dict
\* and too deep a nesting are refused, nothing else is), and the decoder reads
\* every one of them back, in either order mode, without an error.  A document read
\* to its end without an error is a valid stream of tokens (Decoder::tokens says
\* so), and its tokens written again are the same bytes: no two spellings of one
\* value are both accepted.
RoundTrip ==
  /\ value # <<>> =>
       /\ Refused(Encode(value[1]))
            <=> ~(SortedAsGiven(value[1]) /\ Valid(TokensOf(value[1]), TRUE))
       /\ ~Failed(dec.st)
       /\ done /\ ~Refused(Encode(value[1])) => dec.toks = TokensOf(value[1])
  /\ done /\ value = <<>> =>
       /\ Valid(dec.toks, ordered)
       /\ FlattenSeq([i \in DOMAIN dec.toks |-> Text(dec.toks[i])]) = source
=============================================================================
