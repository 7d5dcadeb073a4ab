------------------------------- MODULE SdsText -------------------------------
(***************************************************************************)
(* The functions of sds.c that compute on bytes and keep no state: quoting *)
(* and reading back (sdscatrepr, sdssplitargs), splitting and joining,     *)
(* cutting, replacing and printing numbers.  A text is a sequence of byte  *)
(* values; where the code takes a C string the text ends at the first NUL. *)
(***************************************************************************)
EXTENDS Integers, SequencesExt

Byte == 0..255
NUL == 0
Space == 32
DQuote == 34
SQuote == 39
Backslash == 92
LetterX == 120

isspace(c) == c \in {Space} \cup 9..13
isprint(c) == c \in 32..126

\* The letters of \a \b \t \n \r by the bytes they stand for.
Escape == [c \in {7, 8, 9, 10, 13} |->
             CASE c = 7 -> 97 [] c = 8 -> 98 [] c = 9 -> 116 [] c = 10 -> 110 [] c = 13 -> 114]

HexDigit(n) == IF n < 10 THEN 48 + n ELSE 87 + n

is_hex_digit(c) == c \in 48..57 \cup 65..70 \cup 97..102

hex_digit_to_int(c) ==
  CASE c \in 48..57  -> c - 48
    [] c \in 65..70  -> c - 55
    [] c \in 97..102 -> c - 87

-----------------------------------------------------------------------------
(* Quoting: sdscatrepr appends these pieces one by one. *)

\* Mutant: a backslash in the text is not escaped.
ReprByteRaw(c) ==
  CASE c = DQuote              -> <<Backslash, c>>
    [] c \in DOMAIN Escape     -> <<Backslash, Escape[c]>>
    [] isprint(c) /\ c # DQuote -> <<c>>
    [] OTHER                   -> <<Backslash, LetterX, HexDigit(c \div 16), HexDigit(c % 16)>>

ReprByte(c) ==
  CASE c \in {Backslash, DQuote} -> <<Backslash, c>>
    [] c \in DOMAIN Escape       -> <<Backslash, Escape[c]>>
    [] isprint(c) /\ c \notin {Backslash, DQuote} -> <<c>>
    [] OTHER -> <<Backslash, LetterX, HexDigit(c \div 16), HexDigit(c % 16)>>

ReprPieces(p) == <<<<DQuote>>>> \o [i \in DOMAIN p |-> ReprByte(p[i])] \o <<<<DQuote>>>>

-----------------------------------------------------------------------------
(* sdssplitargs, a scanner.  st.in says what it is in: between tokens, in a    *)
(* token, in one of the kinds of quotes of a token, at the end, or at an error *)
(* (the code frees all tokens and returns NULL).                               *)

At(line, p) == IF p \in DOMAIN line THEN line[p] ELSE NUL

\* The scanner goes n bytes on and takes the byte c, or finishes the token.
Take(st, n, c) == [st EXCEPT !.p = @ + n, !.current = Append(@, c)]
Done(st, n) ==
  [st EXCEPT !.p = @ + n, !.in = "blanks", !.current = <<>>, !.argv = Append(@, st.current)]
Enter(st, n, in) == [st EXCEPT !.p = @ + n, !.in = in]

\* What an escaped letter stands for.
Unescape(c) ==
  IF \E b \in DOMAIN Escape : Escape[b] = c THEN CHOOSE b \in DOMAIN Escape : Escape[b] = c ELSE c

InBlanks(st, c) ==
  CASE c = NUL     -> Enter(st, 0, "end")
    [] isspace(c)  -> Enter(st, 1, "blanks")
    [] OTHER       -> Enter(st, 0, "token")

InToken(st, c) ==
  CASE c = NUL                  -> Done(st, 0)
    [] c \in {Space, 9, 10, 13} -> Done(st, 1)
    [] c = DQuote               -> Enter(st, 1, "inq")
    [] c = SQuote               -> Enter(st, 1, "insq")
    [] OTHER                    -> Take(st, 1, c)

\* A closing quote is followed by a space or by nothing; quotes are closed.
Closing(st, next) ==
  IF next = NUL \/ isspace(next) THEN Done(st, 1) ELSE Enter(st, 0, "error")

\* n2 and n3 are the bytes behind next.
InQuotes(st, c, next, n2, n3) ==
  LET hex == c = Backslash /\ next = LetterX /\ is_hex_digit(n2) /\ is_hex_digit(n3)
  IN  CASE hex -> Take(st, 4, hex_digit_to_int(n2) * 16 + hex_digit_to_int(n3))
        [] ~hex /\ c = Backslash /\ next # NUL -> Take(st, 2, Unescape(next))
        [] c = DQuote -> Closing(st, next)
        [] c = NUL -> Enter(st, 0, "error")
        [] OTHER -> Take(st, 1, c)

InSingleQuotes(st, c, next) ==
  CASE c = Backslash /\ next = SQuote -> Take(st, 2, SQuote)
    [] c = SQuote -> Closing(st, next)
    [] c = NUL -> Enter(st, 0, "error")
    [] OTHER -> Take(st, 1, c)

\* Where the scanner stops, at the end or at an error.
sdssplitargs(line) ==
  LET at(p) == At(line, p)
      step(st) ==
        CASE st.in = "blanks" -> InBlanks(st, at(st.p))
          [] st.in = "token"  -> InToken(st, at(st.p))
          [] st.in = "inq"    -> InQuotes(st, at(st.p), at(st.p + 1), at(st.p + 2), at(st.p + 3))
          [] st.in = "insq"   -> InSingleQuotes(st, at(st.p), at(st.p + 1))
      State == [p : Nat, in : {"blanks", "token", "inq", "insq", "end", "error"},
                current : Seq(Byte), argv : Seq(Seq(Byte))]
      scan[st \in State] == IF st.in \in {"end", "error"} THEN st ELSE scan[step(st)]
  IN  scan[[p |-> 1, in |-> "blanks", current |-> <<>>, argv |-> <<>>]]

-----------------------------------------------------------------------------
(* Splitting and joining *)

\* Mutant: room for the next element is made, and not for the final one.
sdssplitlenTight(s, sep) ==
  LET State == [j : 0..Len(s), start : 0..Len(s), n : Nat, slots : Nat]
      scan[at \in State] ==
        LET room == IF at.slots < at.n + 1 THEN 2 * at.slots ELSE at.slots
        IN  CASE at.j >= Len(s) - (Len(sep) - 1) ->
                   <<[token |-> SubSeq(s, at.start + 1, Len(s)), fits |-> at.n < at.slots]>>
              [] at.j < Len(s) - (Len(sep) - 1) /\ SubSeq(s, at.j + 1, at.j + Len(sep)) = sep ->
                   <<[token |-> SubSeq(s, at.start + 1, at.j), fits |-> at.n < room]>>
                     \o scan[[j |-> at.j + Len(sep), start |-> at.j + Len(sep), n |-> at.n + 1, slots |-> room]]
              [] OTHER -> scan[[j |-> at.j + 1, start |-> at.start, n |-> at.n, slots |-> room]]
  IN  IF sep = <<>> \/ s = <<>> THEN <<>>
      ELSE scan[[j |-> 0, start |-> 0, n |-> 0, slots |-> 5]]

\* The tokens, each with whether it fits in the array at the time; none for an
\* empty text.  j and start are as in the code, from 0, and n is elements.
sdssplitlen(s, sep) ==
  LET State == [j : 0..Len(s), start : 0..Len(s), n : Nat, slots : Nat]
      scan[at \in State] ==
        LET room == IF at.slots < at.n + 2 THEN 2 * at.slots ELSE at.slots
        IN  CASE at.j >= Len(s) - (Len(sep) - 1) ->
                   <<[token |-> SubSeq(s, at.start + 1, Len(s)), fits |-> at.n < at.slots]>>
              [] at.j < Len(s) - (Len(sep) - 1) /\ SubSeq(s, at.j + 1, at.j + Len(sep)) = sep ->
                   <<[token |-> SubSeq(s, at.start + 1, at.j), fits |-> at.n < room]>>
                     \o scan[[j |-> at.j + Len(sep), start |-> at.j + Len(sep), n |-> at.n + 1, slots |-> room]]
              [] OTHER -> scan[[j |-> at.j + 1, start |-> at.start, n |-> at.n, slots |-> room]]
  IN  IF sep = <<>> \/ s = <<>> THEN <<>>
      ELSE scan[[j |-> 0, start |-> 0, n |-> 0, slots |-> 5]]

sdsjoinsds(argv, sep) ==
  FlattenSeq([j \in DOMAIN argv |-> IF j = Len(argv) THEN argv[j] ELSE argv[j] \o sep])

-----------------------------------------------------------------------------
(* Cutting, replacing, printing *)

\* strchr finds the NUL that ends cset, too.
Trimmed(s, cset) ==
  LET kept == {i \in DOMAIN s : s[i] \notin cset \cup {NUL}}
  IN  IF kept = {} THEN <<>> ELSE SubSeq(s, Min(kept), Max(kept))

\* Mutant: an end behind the text is not moved to its last byte.
RangeUnclamped(s, start, end) ==
  LET first == IF start < 0 THEN Max({Len(s) + start, 0}) ELSE start
      last == IF end < 0 THEN Max({Len(s) + end, 0}) ELSE end
  IN  IF first > last \/ first >= Len(s) THEN <<>>
      ELSE SubSeq(s \o [i \in 1..(last + 1) |-> NUL], first + 1, last + 1)

\* The part of a non-empty s between two indices from 0, or from -1 for the last.
Ranged(s, start, end) ==
  LET first == IF start < 0 THEN Max({Len(s) + start, 0}) ELSE start
      last == IF end < 0 THEN Max({Len(s) + end, 0}) ELSE end
  IN  IF first > last \/ first >= Len(s) THEN <<>>
      ELSE SubSeq(s, first + 1, IF last >= Len(s) THEN Len(s) ELSE last + 1)

Mapped(s, from, to) ==
  [j \in DOMAIN s |->
     IF \E i \in DOMAIN from : from[i] = s[j] THEN to[Min({i \in DOMAIN from : from[i] = s[j]})] ELSE s[j]]

\* The letters A-Z and a-z, for toupper and tolower.
UpperCase == [i \in 1..26 |-> 64 + i]
LowerCase == [i \in 1..26 |-> 96 + i]

\* The digits of v, the last one first.
DigitsReversed[v \in Nat] ==
  <<48 + (v % 10)>> \o (IF v \div 10 = 0 THEN <<>> ELSE DigitsReversed[v \div 10])

\* The powers of ten, which say how many digits a number has.
Pow10[n \in Nat] == IF n = 0 THEN 1 ELSE 10 * Pow10[n - 1]

\* Mutant: the sign is put down before the string is reversed.
sdsll2strSign(value) ==
  IF value < 0 THEN Reverse(<<45>> \o DigitsReversed[-value]) ELSE Reverse(DigitsReversed[value])

\* The code goes round the overflow of -LLONG_MIN.
sdsll2str(value) ==
  IF value < 0 THEN Reverse(DigitsReversed[-value] \o <<45>>) ELSE Reverse(DigitsReversed[value])

\* Printing to a buffer of size buflen: what does not fit is cut off.
vsnprintf(text, buflen) == SubSeq(text, 1, Min({Len(text), buflen - 1})) \o <<NUL>>
=============================================================================
