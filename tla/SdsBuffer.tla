------------------------------ MODULE SdsBuffer ------------------------------
(***************************************************************************)
(* One sds string and the calls that change it.  The functions of sds.c    *)
(* are operators from the string they are given to the one they return; a  *)
(* program calls them in any order.  sdscatfmt and sdscatrepr append piece *)
(* by piece, so they are a first step and one step for each piece.         *)
(*                                                                         *)
(* Widths are parameters: Limit[t] is 2^5, 2^8, 2^16 and 2^32 in the code, *)
(* SDS_TYPE_64 holds every length.  An allocation that fails leaves the    *)
(* string as it is (NULL is returned), so it is no step here.              *)
(***************************************************************************)
EXTENDS SdsText

CONSTANTS
  Limit,             \* the lengths a header of type 5, 8, 16, 32 can hold are below
  SDS_MAX_PREALLOC,
  SDS_LLSTR_SIZE,    \* the buffer a number is printed to
  StaticBuf,         \* the buffer sdscatvprintf tries first, 1024 in the code
  SizeMod,           \* the values of a size_t are below, 2^64
  Text,              \* bound of the model: texts a program passes
  Number,            \* bound of the model: numbers a program prints
  Format,            \* bound of the model: formats with their arguments, as pieces
  MaxLen             \* bound of the model: length of the string

Types == {5, 8, 16, 32, 64}

Piece == [kind : {"byte"}, value : Byte] \cup [kind : {"text"}, value : Seq(Byte)]
           \cup [kind : {"number"}, value : Number]

ASSUME SdsAssumption ==
  /\ Limit \in [{5, 8, 16, 32} -> Nat \ {0}]
  /\ Limit[5] < Limit[8] /\ Limit[8] < Limit[16] /\ Limit[16] < Limit[32]
  /\ SDS_MAX_PREALLOC \in Nat
  /\ SDS_LLSTR_SIZE \in Nat
  /\ StaticBuf \in Nat \ {0}
  /\ SizeMod \in Nat /\ SDS_MAX_PREALLOC + 18 <= SizeMod  \* 17 for the header, 1 for NUL
  /\ Text \subseteq Seq(Byte)
  /\ Number \subseteq Int
  /\ Format \subseteq Seq(Piece)
  /\ MaxLen \in Nat

\* A program's numbers, long long or unsigned long long, are above -10^19 and
\* below 10^20, and SDS_LLSTR_SIZE is 21.
ASSUME NumbersInRange ==
  /\ SDS_LLSTR_SIZE >= 2
  /\ \A v \in Number : -Pow10[SDS_LLSTR_SIZE - 2] < v /\ v < Pow10[SDS_LLSTR_SIZE - 1]

VARIABLES
  s,     \* the string: header (type, len, alloc), how many bytes are allocated
         \* behind the header (room), the bytes written so far from the start
         \* (mem), and how many writes have left the room (over)
  todo   \* what a call of sdscatfmt or sdscatrepr has still to append

vars == <<s, todo>>

NoCall == [op |-> "none", rest |-> <<>>]

-----------------------------------------------------------------------------
(* The header *)

\* A field keeps the low bits of what is stored in it.
Field(type, n) == IF type = 64 THEN n ELSE n % Limit[type]

sdslen(x) == x.len
sdsalloc(x) == IF x.type = 5 THEN x.len ELSE x.alloc
sdsavail(x) == IF x.type = 5 THEN 0 ELSE x.alloc - x.len
sdssetlen(x, n) == [x EXCEPT !.len = Field(x.type, n)]
sdsinclen(x, n) == [x EXCEPT !.len = Field(x.type, x.len + n)]
sdssetalloc(x, n) == IF x.type = 5 THEN x ELSE [x EXCEPT !.alloc = Field(x.type, n)]

sdsReqType(n) ==
  CHOOSE t \in Types : /\ t = 64 \/ n < Limit[t]
                       /\ \A u \in Types : u = 64 \/ n < Limit[u] => t <= u

Content(x) == SubSeq(x.mem, 1, x.len)

\* Bytes are written at an offset.  What stood behind them is never read again.
Write(x, offset, bytes) ==
  [x EXCEPT !.mem = SubSeq(@, 1, offset) \o bytes,
            !.over = @ + (IF offset + Len(bytes) <= x.room THEN 0 ELSE 1)]

-----------------------------------------------------------------------------
(* Allocation *)

\* Type 5 is not good at appending: an empty string gets type 8.
sdsnewlen(init) ==
  LET type == IF init = <<>> /\ sdsReqType(0) = 5 THEN 8 ELSE sdsReqType(Len(init))
      fresh == [type |-> type, len |-> 0, alloc |-> 0, room |-> Len(init) + 1, mem |-> <<>>, over |-> 0]
  IN  Write(sdssetalloc(sdssetlen(fresh, Len(init)), Len(init)), 0, init \o <<NUL>>)

\* The string moves to a header of another type, with the byte behind it.
Moved(x, type, size) ==
  LET copied == IF x.len < Len(x.mem) THEN x.len + 1 ELSE x.len
  IN  sdssetlen([x EXCEPT !.type = type, !.room = size + 1, !.mem = SubSeq(@, 1, copied)], x.len)

\* Mutant: the type is chosen for what is asked, not for what is allocated.
sdsMakeRoomForReq(x, addlen) ==
  LET reqlen == x.len + addlen
      newlen == IF reqlen < SDS_MAX_PREALLOC THEN 2 * reqlen ELSE reqlen + SDS_MAX_PREALLOC
      type == IF sdsReqType(reqlen) = 5 THEN 8 ELSE sdsReqType(reqlen)
      bigger == IF type = x.type THEN [x EXCEPT !.room = newlen + 1] ELSE Moved(x, type, newlen)
  IN  IF sdsavail(x) >= addlen THEN x ELSE sdssetalloc(bigger, newlen)

\* Mutant: a short string stays in type 5, which knows of no free space.
sdsMakeRoomForFive(x, addlen) ==
  LET reqlen == x.len + addlen
      newlen == IF reqlen < SDS_MAX_PREALLOC THEN 2 * reqlen ELSE reqlen + SDS_MAX_PREALLOC
      type == sdsReqType(newlen)
      bigger == IF type = x.type THEN [x EXCEPT !.room = newlen + 1] ELSE Moved(x, type, newlen)
  IN  IF sdsavail(x) >= addlen THEN x ELSE sdssetalloc(bigger, newlen)

sdsMakeRoomFor(x, addlen) ==
  LET reqlen == x.len + addlen
      newlen == IF reqlen < SDS_MAX_PREALLOC THEN 2 * reqlen ELSE reqlen + SDS_MAX_PREALLOC
      type == IF sdsReqType(newlen) = 5 THEN 8 ELSE sdsReqType(newlen)
      bigger == IF type = x.type THEN [x EXCEPT !.room = newlen + 1] ELSE Moved(x, type, newlen)
  IN  IF sdsavail(x) >= addlen THEN x ELSE sdssetalloc(bigger, newlen)

sdsHdrSize(type) ==
  CASE type = 5 -> 1 [] type = 8 -> 3 [] type = 16 -> 5 [] type = 32 -> 9 [] type = 64 -> 17

\* Mutant: the assertion comes before the header is added.
GrownSizesNoHeader(len, addlen) ==
  LET reqlen == (len + addlen) % SizeMod
      newlen == (IF reqlen < SDS_MAX_PREALLOC THEN 2 * reqlen ELSE reqlen + SDS_MAX_PREALLOC) % SizeMod
      type == IF sdsReqType(newlen) = 5 THEN 8 ELSE sdsReqType(newlen)
      size == (sdsHdrSize(type) + newlen + 1) % SizeMod
  IN  [newlen |-> newlen, type |-> type, size |-> size, asserts |-> (newlen + 1) % SizeMod > reqlen]

\* What sdsMakeRoomFor computes in size_t, and whether its assertion holds; where
\* it does not the program ends, so sdsMakeRoomFor above has no overflow.
GrownSizes(len, addlen) ==
  LET reqlen == (len + addlen) % SizeMod
      newlen == (IF reqlen < SDS_MAX_PREALLOC THEN 2 * reqlen ELSE reqlen + SDS_MAX_PREALLOC) % SizeMod
      type == IF sdsReqType(newlen) = 5 THEN 8 ELSE sdsReqType(newlen)
      size == (sdsHdrSize(type) + newlen + 1) % SizeMod
  IN  [newlen |-> newlen, type |-> type, size |-> size, asserts |-> size > reqlen]

\* The header shrinks only if that gets it down to type 5 or 8.
sdsRemoveFreeSpace(x) ==
  LET type == sdsReqType(x.len)
      smaller == IF type = x.type \/ type > 8 THEN [x EXCEPT !.room = x.len + 1] ELSE Moved(x, type, x.len)
  IN  IF sdsavail(x) = 0 THEN x ELSE sdssetalloc(smaller, x.len)

-----------------------------------------------------------------------------
(* Appending and overwriting *)

sdscatlen(x, t) ==
  sdssetlen(Write(sdsMakeRoomFor(x, Len(t)), x.len, t \o <<NUL>>), x.len + Len(t))

\* Mutant: room is made as if the string filled its space.
sdscpylenFull(x, t) ==
  LET y == IF sdsalloc(x) < Len(t) THEN sdsMakeRoomFor(x, Len(t) - sdsalloc(x)) ELSE x
  IN  sdssetlen(Write(y, 0, t \o <<NUL>>), Len(t))

sdscpylen(x, t) ==
  LET y == IF sdsalloc(x) < Len(t) THEN sdsMakeRoomFor(x, Len(t) - x.len) ELSE x
  IN  sdssetlen(Write(y, 0, t \o <<NUL>>), Len(t))

sdsgrowzero(x, n) ==
  LET zeros == [i \in 1..(n - x.len + 1) |-> NUL]
  IN  IF n <= x.len THEN x
      ELSE sdssetlen(Write(sdsMakeRoomFor(x, n - x.len), x.len, zeros), n)

\* Mutant: the space is taken for the free space.
IncrLenAssertsAlloc(x, incr) ==
  \/ incr > 0 /\ IF x.type = 5 THEN x.len + incr < Limit[5] ELSE sdsalloc(x) >= incr
  \/ incr = 0 /\ x.type # 5
  \/ incr < 0 /\ x.len >= -incr

\* The assertions of sdsIncrLen; in type 5 not even 0 is accepted.  The casts to
\* unsigned int keep the value of an increment that an int can hold.
IncrLenAsserts(x, incr) ==
  \/ incr > 0 /\ IF x.type = 5 THEN x.len + incr < Limit[5] ELSE sdsavail(x) >= incr
  \/ incr = 0 /\ x.type # 5
  \/ incr < 0 /\ x.len >= -incr

sdsIncrLen(x, incr) ==
  LET y == sdsinclen(x, incr) IN Write(y, y.len, <<NUL>>)

\* One turn of the loop of sdscatfmt: a literal byte, or a text or a number,
\* which makes room for itself.
FmtPiece(x, piece) ==
  LET y == IF sdsavail(x) = 0 THEN sdsMakeRoomFor(x, 1) ELSE x
      bytes == CASE piece.kind = "byte" -> <<piece.value>>
                 [] piece.kind = "text" -> piece.value
                 [] piece.kind = "number" -> sdsll2str(piece.value)
      z == IF piece.kind # "byte" /\ sdsavail(y) < Len(bytes) THEN sdsMakeRoomFor(y, Len(bytes)) ELSE y
      written == Write(z, x.len, bytes)
      fits == piece.kind = "number" => Len(bytes) + 1 <= SDS_LLSTR_SIZE
  IN  sdsinclen([written EXCEPT !.over = @ + (IF fits THEN 0 ELSE 1)], Len(bytes))

\* Mutant: a text that fills the buffer is taken to fit, its NUL is not counted.
sdscatvprintfFull(x, text, fmtlen) ==
  LET first == IF 2 * fmtlen > StaticBuf THEN 2 * fmtlen ELSE StaticBuf
      buflen == IF Len(text) > first THEN Len(text) + 1 ELSE first
  IN  sdscatlen(x, SubSeq(vsnprintf(text, buflen), 1, Len(text)))

\* text is what the format prints, of which vsnprintf returns the length; with a
\* buffer that was too small the loop prints once more.
sdscatvprintf(x, text, fmtlen) ==
  LET first == IF 2 * fmtlen > StaticBuf THEN 2 * fmtlen ELSE StaticBuf
      buflen == IF Len(text) >= first THEN Len(text) + 1 ELSE first
  IN  sdscatlen(x, SubSeq(vsnprintf(text, buflen), 1, Len(text)))

-----------------------------------------------------------------------------
(* Cutting down, in place *)

\* s[n] = '\0' and sdssetlen(s, n) after the bytes were moved to the front.
Cut(x, bytes) == sdssetlen(Write(x, 0, bytes \o <<NUL>>), Len(bytes))

sdsclear(x) == Cut(x, <<>>)

sdstrim(x, cset) == Cut(x, Trimmed(Content(x), cset))

sdsrange(x, start, end) == IF x.len = 0 THEN x ELSE Cut(x, Ranged(Content(x), start, end))

\* strlen: up to the first NUL.
sdsupdatelen(x) ==
  LET reallen == Min({i \in DOMAIN x.mem : x.mem[i] = NUL}) - 1
  IN  sdssetlen([x EXCEPT !.mem = SubSeq(@, 1, reallen + 1)], reallen)

sdsmapchars(x, from, to) ==
  [x EXCEPT !.mem = Mapped(Content(x), from, to) \o SubSeq(@, x.len + 1, Len(@))]

-----------------------------------------------------------------------------
(* The program *)

Init == s = sdsnewlen(<<>>) /\ todo = NoCall

\* A call that returns a string; the program goes on with that one.
Call(x) == todo = NoCall /\ s' = x /\ UNCHANGED todo

New == \E t \in Text : Call(sdsnewlen(t))
Dup == Call(sdsnewlen(Content(s)))
MakeRoom == \E n \in 0..MaxLen : s.len + n <= MaxLen /\ Call(sdsMakeRoomFor(s, n))
RemoveFreeSpace == Call(sdsRemoveFreeSpace(s))
Cat == \E t \in Text : s.len + Len(t) <= MaxLen /\ Call(sdscatlen(s, t))
Cpy == \E t \in Text : Call(sdscpylen(s, t))
GrowZero == \E n \in 0..MaxLen : Call(sdsgrowzero(s, n))

\* The lengths of the formats are bounded like their texts.
Printf ==
  \E t \in Text, n \in 0..MaxLen : s.len + Len(t) <= MaxLen /\ Call(sdscatvprintf(s, t, n))

FromLongLong == \E v \in Number : Call(sdsnewlen(sdsll2str(v)))

\* The program has written t into the free space and tells the string.
Filled ==
  \E t \in Text :
    /\ Len(t) <= sdsavail(s) /\ s.len + Len(t) <= MaxLen
    /\ IncrLenAsserts(s, Len(t))
    /\ Call(sdsIncrLen(Write(s, s.len, t), Len(t)))

Shorten == \E n \in 1..MaxLen : IncrLenAsserts(s, -n) /\ Call(sdsIncrLen(s, -n))
Clear == Call(sdsclear(s))
Trim == \E t \in Text : Call(sdstrim(s, Range(t)))
Crop == \E start, end \in (-MaxLen)..MaxLen : Call(sdsrange(s, start, end))
UpdateLen == Call(sdsupdatelen(s))
MapChars == \E f, t \in Text : Len(f) = Len(t) /\ Call(sdsmapchars(s, f, t))
ToLower == Call(sdsmapchars(s, UpperCase, LowerCase))
ToUpper == Call(sdsmapchars(s, LowerCase, UpperCase))

\* The free space sdscatfmt starts with: twice the format, in which a byte is
\* one character and the others two.
FormatLen(pieces) == Len(pieces) + Cardinality({i \in DOMAIN pieces : pieces[i].kind # "byte"})

PieceLen(piece) ==
  CASE piece.kind = "byte" -> 1
    [] piece.kind = "text" -> Len(piece.value)
    [] piece.kind = "number" -> Len(sdsll2str(piece.value))

sdscatfmt ==
  \E format \in Format :
    /\ todo = NoCall
    /\ s.len + FoldLeft(LAMBDA n, piece : n + PieceLen(piece), 0, format) <= MaxLen
    /\ s' = sdsMakeRoomFor(s, s.len + 2 * FormatLen(format))
    /\ todo' = [op |-> "fmt", rest |-> format]

sdscatfmtLoop ==
  /\ todo.op = "fmt" /\ todo.rest # <<>>
  /\ s' = FmtPiece(s, Head(todo.rest))
  /\ todo' = [todo EXCEPT !.rest = Tail(@)]

sdscatfmtEnd ==
  /\ todo.op = "fmt" /\ todo.rest = <<>>
  /\ s' = Write(s, s.len, <<NUL>>)
  /\ todo' = NoCall

sdscatrepr ==
  \E t \in Text :
    /\ todo = NoCall
    /\ s.len + Len(FlattenSeq(ReprPieces(t))) <= MaxLen
    /\ todo' = [op |-> "repr", rest |-> ReprPieces(t)]
    /\ UNCHANGED s

\* Mutant: the loop does not stop behind the closing quote.
sdscatreprLoopOn ==
  /\ todo.op = "repr"
  /\ s' = sdscatlen(s, Head(todo.rest))
  /\ todo' = [todo EXCEPT !.rest = Tail(@)]

sdscatreprLoop ==
  /\ todo.op = "repr"
  /\ s' = sdscatlen(s, Head(todo.rest))
  /\ todo' = IF Len(todo.rest) = 1 THEN NoCall ELSE [todo EXCEPT !.rest = Tail(@)]

Next ==
  \/ New \/ Dup \/ MakeRoom \/ RemoveFreeSpace
  \/ Cat \/ Cpy \/ GrowZero \/ Filled
  \/ Shorten \/ Clear \/ Trim \/ Crop \/ UpdateLen \/ MapChars
  \/ Printf \/ FromLongLong \/ ToLower \/ ToUpper
  \/ sdscatfmt \/ sdscatfmtLoop \/ sdscatfmtEnd
  \/ sdscatrepr \/ sdscatreprLoop

Spec == Init /\ [][Next]_vars

-----------------------------------------------------------------------------
(* Properties *)

SdsTypeOK ==
  /\ s \in [type : Types, len : Nat, alloc : Nat, room : Nat, mem : Seq(Byte), over : Nat]
  /\ todo \in {NoCall} \cup [op : {"fmt"}, rest : Seq(Piece)]
                        \cup [op : {"repr"}, rest : Seq(Seq(Byte)) \ {<<>>}]

\* What the header says is true, through every change of type: the length is
\* within the space, the space is really allocated, and no write has left it.
Sound(x) ==
  /\ x.len <= sdsalloc(x)
  /\ sdsalloc(x) + 1 <= x.room
  /\ x.type # 64 => sdsalloc(x) < Limit[x.type]
  /\ x.len <= Len(x.mem)
  /\ x.over = 0

Terminated(x) == x.len < Len(x.mem) /\ x.mem[x.len + 1] = NUL

\* At rest, and between the pieces of sdscatrepr, the string also ends in NUL,
\* so that it can be used as a C string.
HeaderSound == Sound(s) /\ (todo.op # "fmt" => Terminated(s))

\* After sdsMakeRoomFor the program can fill what it has asked for.
RoomMade ==
  \A n \in 0..MaxLen :
    LET x == sdsMakeRoomFor(s, n) IN sdsavail(x) >= n /\ Content(x) = Content(s)

\* The calls that lengthen or replace the string do so to its content, whatever
\* header the string had, and those that give back space lose none of it.
ContentKept ==
  todo.op # "fmt" =>
    /\ \A t \in Text :
         /\ Content(sdscatlen(s, t)) = Content(s) \o t
         /\ Content(sdscpylen(s, t)) = t /\ Sound(sdscpylen(s, t))
    /\ \A n \in 0..MaxLen :
         Content(sdsgrowzero(s, n)) = Content(s) \o [i \in 1..(n - s.len) |-> NUL]
    /\ Content(sdsRemoveFreeSpace(s)) = Content(s) /\ sdsavail(sdsRemoveFreeSpace(s)) = 0
    /\ Content(sdsnewlen(Content(s))) = Content(s)

\* sdsrange keeps the bytes whose index, from the front or from the back, is
\* between the two given; an index before the first byte means the first byte.
RangeKeepsBetween ==
  LET index(i) == IF i < 0 THEN Max({s.len + i, 0}) ELSE i
      between(a, b) == {i \in 1..s.len : index(a) < i /\ i <= index(b) + 1}
  IN  \A a, b \in (-MaxLen - 1)..(MaxLen + 1) :
        LET r == Content(sdsrange(s, a, b))
        IN  /\ Len(r) = Cardinality(between(a, b))
            /\ \A i \in between(a, b) : r[i - Min(between(a, b)) + 1] = s.mem[i]

\* What sdscatrepr appends is read back by sdssplitargs as the same bytes, the
\* quotes and escapes in it included, also as one of several arguments.
QuotingRoundTrip ==
  LET quoted == FlattenSeq(ReprPieces(Content(s)))
      read == sdssplitargs(quoted \o <<Space>> \o quoted)
  IN  read.in = "end" /\ read.argv = <<Content(s), Content(s)>>

\* Splitting at a separator and joining with it is the identity, the separator is
\* in no token, and every token is written inside the array of tokens, through all
\* the times it grows (three copies of the content have up to 13 tokens).
SplitSound ==
  \A sep \in Text \ {<<>>} :
    LET text == Content(s) \o Content(s) \o Content(s)
        split == sdssplitlen(text, sep)
        tokens == [i \in DOMAIN split |-> split[i].token]
    IN  /\ sdsjoinsds(tokens, sep) = text
        /\ \A i \in DOMAIN tokens : \A j \in 0..(Len(tokens[i]) - Len(sep)) :
             SubSeq(tokens[i], j + 1, j + Len(sep)) # sep
        /\ \A i \in DOMAIN split : split[i].fits

\* An increment that passes the assertion of sdsIncrLen, up into the free space or
\* down, leaves a true header and writes its NUL inside the allocation, also one
\* past the last that fits.  Type 5 cannot tell its space, so the assertion says
\* nothing of an increment upwards there; a string that room was made in has another.
IncrLenGuarded ==
  \A incr \in (-s.len - 1)..(sdsavail(s) + 1) :
    IncrLenAsserts(s, incr) /\ (s.type = 5 => incr < 0) =>
      LET x == sdsIncrLen(Write(s, s.len, [i \in 1..incr |-> Space]), incr)
      IN  x.len = s.len + incr /\ Sound(x) /\ Terminated(x)

\* When the length asked for is a size_t, the assertion of sdsMakeRoomFor stops every
\* growth whose space or bytes to allocate are not.
GrowthNeverWraps ==
  \A addlen \in 0..(SizeMod - 1 - s.len) :
    LET grown == GrownSizes(s.len, addlen)
    IN  grown.asserts =>
          /\ grown.newlen >= s.len + addlen
          /\ grown.size = sdsHdrSize(grown.type) + grown.newlen + 1

\* What is printed is appended whole, whichever buffer it goes through.
PrintfWhole ==
  todo.op # "fmt" => \A t \in Text, n \in 0..MaxLen : Content(sdscatvprintf(s, t, n)) = Content(s) \o t

\* sdscatfmt appends the decimal digits of a number, the smallest one included.
NumbersPrinted ==
  \A v \in Number :
    LET x == FmtPiece(s, [kind |-> "number", value |-> v])
        digits == SubSeq(x.mem, s.len + (IF v < 0 THEN 2 ELSE 1), x.len)
        value[i \in 0..Len(digits)] == IF i = 0 THEN 0 ELSE 10 * value[i - 1] + digits[i] - 48
    IN  /\ v < 0 => x.mem[s.len + 1] = 45
        /\ value[Len(digits)] = IF v < 0 THEN -v ELSE v
        /\ Len(digits) > 1 => digits[1] # 48
=============================================================================
