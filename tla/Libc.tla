-------------------------------- MODULE Libc --------------------------------
(***************************************************************************)
(* Functions of the user library whose result is a matter of arithmetic:   *)
(* gmtime_r, mktime and strftime, strtoul, getopt, bsearch, qsort,         *)
(* snprintf with sscanf, the streams and the environment (lib/libc.c,      *)
(* lib/stdlib.c, lib/stdio.c), floating point left out. Each is written as *)
(* the code computes it; the reference beside it says what it is to        *)
(* compute in another way.                                                 *)
(*                                                                         *)
(* Text is a sequence of one-character strings. An unsigned long has       *)
(* WordBits bits, an int IntBits.                                          *)
(***************************************************************************)
EXTENDS Integers, Sequences, SequencesExt, FiniteSets, FiniteSetsExt

CONSTANTS WordBits, IntBits,
          Days,          \* days since 1970-01-01 that gmtime_r is asked about
          Seconds,       \* seconds of the day
          Numerals,      \* texts strtoul is given
          Arguments,     \* argument lists getopt is given
          Tables,        \* sorted tables bsearch is given
          Arrays,        \* what qsort is given to sort
          TextWords,     \* strings printed by %s
          FileTexts,     \* what is written to streams
          EnvSize,       \* ENV_SIZE
          Widths, Precisions, BufSizes

VARIABLE call   \* the last call: its function, its arguments, its result

Ulong == 2 ^ WordBits

Uint == 2 ^ IntBits

-----------------------------------------------------------------------------
(* The calendar.                                                           *)

IsLeapYear(y) == (y % 4 = 0 /\ y % 100 # 0) \/ y % 400 = 0

\* What the loops over whole years add up: days from 1970 to the start of y.
YearStart(y) == 365 * (y - 1970) + Cardinality({z \in 1970 .. y - 1 : IsLeapYear(z)})

MonthDays(y, m) ==
    <<31, 28, 31, 30, 31, 30, 31, 31, 30, 31, 30, 31>>[m + 1]
      + IF m = 1 /\ IsLeapYear(y) THEN 1 ELSE 0

\* The year the loop of gmtime_r stops in.
FindYear(t) ==
    LET y == CHOOSE y \in 1970 + t \div 366 .. 1970 + t \div 365 :
                YearStart(y) <= t /\ t < YearStart(y + 1)
    IN  [year |-> y, yday |-> t - YearStart(y)]

RECURSIVE FindMonth(_, _, _)
FindMonth(t, y, m) ==
    IF t < MonthDays(y, m) THEN [mon |-> m, mday |-> t + 1]
    ELSE FindMonth(t - MonthDays(y, m), y, m + 1)

\* A time is a day and the second in it (time_t has 64 bits, TLC's integers 32).
Gmtime(day, s) ==
    LET y == FindYear(day)
        m == FindMonth(y.yday, y.year, 0)
    IN  [year |-> y.year, mon |-> m.mon, mday |-> m.mday, yday |-> y.yday,
         wday |-> (day + 4) % 7, hour |-> s \div 3600,
         min |-> (s \div 60) % 60, sec |-> s % 60]

MktimeForgetsLeapDay(tm) ==
    LET months == FoldLeft(LAMBDA d, m : d + MonthDays(1970, m), 0,
                       [i \in 1 .. tm.mon |-> i - 1])
    IN  <<YearStart(tm.year) + months + tm.mday - 1, tm.hour * 3600 + tm.min * 60 + tm.sec>>

Mktime(tm) ==
    LET months == FoldLeft(LAMBDA d, m : d + MonthDays(tm.year, m), 0,
                       [i \in 1 .. tm.mon |-> i - 1])
    IN  <<YearStart(tm.year) + months + tm.mday - 1, tm.hour * 3600 + tm.min * 60 + tm.sec>>

\* The day number of a date, without a loop: years that begin in March.
DayNumber(y, m, d) ==
    LET a == IF m < 2 THEN y - 1 ELSE y
        b == (m + 10) % 12
    IN  365 * a + a \div 4 - a \div 100 + a \div 400
          + (153 * b + 2) \div 5 + d - 719469

-----------------------------------------------------------------------------
(* Numbers from text.                                                      *)

DigitChars == <<"0", "1", "2", "3", "4", "5", "6", "7", "8", "9",
            "a", "b", "c", "d", "e", "f">>

\* A letter that is no digit of any base here is worth more than all of them.
DigitVal(c) ==
    IF c \in ToSet(DigitChars) THEN (CHOOSE i \in 1 .. 16 : DigitChars[i] = c) - 1
    ELSE IF c = "x" THEN 33 ELSE 99

CharAt(s, i) == IF i <= Len(s) THEN s[i] ELSE "end"

FirstNot(s, from, c) == Min({i \in from .. Len(s) + 1 : CharAt(s, i) # c})

\* The digit loop of strtoul: any is -1 once the value no longer fits.
RECURSIVE Accumulate(_, _, _, _, _)
Accumulate(s, i, base, any, acc) ==
    LET c == DigitVal(CharAt(s, i))
        cutoff == (Ulong - 1) \div base
    IN  IF c >= base THEN [any |-> any, acc |-> acc]
        ELSE IF any < 0 \/ acc > cutoff
                \/ (acc = cutoff /\ c > (Ulong - 1) % base)
        THEN Accumulate(s, i + 1, base, -1, acc)
        ELSE Accumulate(s, i + 1, base, 1, acc * base + c)

Strtoul(s, base) ==
    LET i == FirstNot(s, 1, " ")
        neg == CharAt(s, i) = "-"
        j == IF CharAt(s, i) \in {"-", "+"} THEN i + 1 ELSE i
        hex == base \in {0, 16} /\ CharAt(s, j) = "0" /\ CharAt(s, j + 1) = "x"
        b == IF hex THEN 16 ELSE IF base # 0 THEN base
             ELSE IF CharAt(s, j) = "0" THEN 8 ELSE 10
        r == Accumulate(s, IF hex THEN j + 2 ELSE j, b, 0, 0)
    IN  IF r.any < 0 THEN Ulong - 1
        ELSE IF neg THEN (Ulong - r.acc) % Ulong ELSE r.acc

\* The value of a numeral: its digits weighted by their places, with no word
\* width.
NumeralValue(ds, base) ==
    FoldLeft(LAMBDA a, c : a * base + DigitVal(c), 0, ds)

DigitsFrom(s, i, base) ==
    LET stop == Min({j \in i .. Len(s) + 1 : DigitVal(CharAt(s, j)) >= base})
    IN  SubSeq(s, i, stop - 1)

-----------------------------------------------------------------------------
(* snprintf and sscanf.                                                    *)

RECURSIVE DigitsOf(_, _)
DigitsOf(v, base) ==
    IF v < base THEN <<DigitChars[v + 1]>>
    ELSE Append(DigitsOf(v \div base, base), DigitChars[(v % base) + 1])

Repeat(c, n) == [i \in 1 .. n |-> c]

\* print_int: the flag "0" turns padding off and puts nothing in its place.
PrintInt(v, base, neg, width, precision, flag) ==
    LET ds == DigitsOf(v, base)
        body == Max({precision, Len(ds)}) + IF neg THEN 1 ELSE 0
        pad == Repeat(" ", width - body)
    IN  (IF flag = "" THEN pad ELSE <<>>)
          \o (IF neg THEN <<"-">> ELSE <<>>)
          \o Repeat("0", precision - Len(ds)) \o ds
          \o (IF flag = "-" THEN pad ELSE <<>>)

Base(conv) == IF conv = "o" THEN 8 ELSE IF conv = "x" THEN 16 ELSE 10

\* A format is a sequence of characters and conversions.
Conv(conv, width, precision, flag) ==
    [conv |-> conv, width |-> width, precision |-> precision, flag |-> flag]

Plain(c) == Conv("plain", 0, -1, c)

\* One item of format_parser, by its switch: c and s take their argument as it
\* is, s cut to the precision and padded to the width.
Printed(f, v) ==
    LET s == IF f.conv = "s" /\ f.precision >= 0
             THEN SubSeq(v, 1, Min({Len(v), f.precision})) ELSE v
        pad == Repeat(" ", f.width - Len(s))
        neg == f.conv = "d" /\ v < 0
    IN  CASE f.conv = "plain" -> <<f.flag>>
          [] f.conv = "c" -> v
          [] f.conv = "s" -> IF f.flag = "-" THEN s \o pad ELSE pad \o s
          [] OTHER -> PrintInt(IF neg THEN -v ELSE v, Base(f.conv), neg, f.width,
                               f.precision, f.flag)

\* The conversions of a format take the arguments in order.
RECURSIVE FormatParser(_, _)
FormatParser(fmt, args) ==
    IF fmt = <<>> THEN <<>>
    ELSE IF Head(fmt).conv = "plain"
    THEN Printed(Head(fmt), <<>>) \o FormatParser(Tail(fmt), args)
    ELSE Printed(Head(fmt), Head(args)) \o FormatParser(Tail(fmt), Tail(args))

\* snprintf: what the buffer holds before its NUL, and the count returned.
Snprintf(size, fmt, args) ==
    LET text == FormatParser(fmt, args)
    IN  [text |-> SubSeq(text, 1, Min({Len(text), size - 1})),
         count |-> Len(text)]

\* One conversion of scan_parser from place i of s: whether it matched, the
\* value stored, and the place after it. An int is stored modulo its width. A
\* width limits nothing: counted down to zero it means no limit.
Scanned(s, i, conv) ==
    LET k == FirstNot(s, i, " ")
        neg == CharAt(s, k) = "-"
        j == IF CharAt(s, k) \in {"-", "+"} THEN k + 1 ELSE k
        ds == DigitsFrom(s, j, Base(conv))
        v == NumeralValue(ds, Base(conv))
        stop == Min({m \in k .. Len(s) + 1 : CharAt(s, m) \in {" ", "end"}})
    IN  CASE conv = "c" -> [ok |-> TRUE, val |-> <<CharAt(s, i)>>,
                           next |-> Min({i, Len(s)}) + 1]
          [] conv = "s" -> [ok |-> k <= Len(s), val |-> SubSeq(s, k, stop - 1), next |-> stop]
          [] OTHER -> [ok |-> ds # <<>>, val |-> (IF neg THEN -v ELSE v) % Uint,
                       next |-> j + Len(ds)]

\* scan_parser: the values matched before the first mismatch.
RECURSIVE ScanParser(_, _, _)
ScanParser(s, i, fmt) ==
    IF fmt = <<>> THEN <<>>
    ELSE LET f == Head(fmt)
             r == Scanned(s, i, f.conv)
         IN  IF f = Plain(" ") THEN ScanParser(s, FirstNot(s, i, " "), Tail(fmt))
             ELSE IF f.conv = "plain"
             THEN IF CharAt(s, i) = f.flag THEN ScanParser(s, i + 1, Tail(fmt)) ELSE <<>>
             ELSE IF r.ok THEN <<r.val>> \o ScanParser(s, r.next, Tail(fmt))
             ELSE <<>>

Sscanf(s, fmt) == ScanParser(s, 1, fmt)

-----------------------------------------------------------------------------
(* strftime.                                                               *)

\* append_num, before it is cut to the room left.
Padded(v, width) == Repeat("0", width - Len(DigitsOf(v, 10))) \o DigitsOf(v, 10)

Field(c, tm) ==
    CASE c = "Y" -> Padded(tm.year, 4)
      [] c = "m" -> Padded(tm.mon + 1, 2)
      [] c = "d" -> Padded(tm.mday, 2)
      [] c = "H" -> Padded(tm.hour, 2)
      [] c = "M" -> Padded(tm.min, 2)
      [] c = "S" -> Padded(tm.sec, 2)
      [] OTHER -> <<c>>

\* The loop: it stops when one place is left, for the NUL. The format's items
\* are the letters after % and other characters for themselves.
Strftime(max, fmt, tm) ==
    FoldLeft(LAMBDA out, c : out \o SubSeq(Field(c, tm), 1, Min({Len(Field(c, tm)),
                                                                 max - 1 - Len(out)})),
             <<>>, fmt)

IsoDate == <<"Y", "-", "m", "-", "d", " ", "H", ":", "M", ":", "S">>

-----------------------------------------------------------------------------
(* getopt with the options a, and b that takes an argument.                *)

NoMore == [ret |-> "end", arg |-> <<>>]

\* One call: the option it returns and where optind and next stand after it.
Getopt(args, ind, next) ==
    LET arg == args[ind]
        ds == IF next = <<>> THEN Tail(arg) ELSE next
        c == Head(ds)
        rest == Tail(ds)
        on == IF rest = <<>> THEN ind + 1 ELSE ind
    IN  IF ind > Len(args)
        THEN [opt |-> NoMore, ind |-> ind, next |-> next]
        ELSE IF next = <<>> /\ (arg[1] # "-" \/ Len(arg) = 1)
        THEN [opt |-> NoMore, ind |-> ind, next |-> next]
        ELSE IF next = <<>> /\ arg = <<"-", "-">>
        THEN [opt |-> NoMore, ind |-> ind + 1, next |-> next]
        ELSE IF c \notin {"a", "b"}
        THEN [opt |-> [ret |-> "?", arg |-> <<>>], ind |-> on, next |-> rest]
        ELSE IF c = "a"
        THEN [opt |-> [ret |-> "a", arg |-> <<>>], ind |-> on, next |-> rest]
        ELSE IF rest # <<>>
        THEN [opt |-> [ret |-> "b", arg |-> rest], ind |-> ind + 1, next |-> <<>>]
        ELSE IF ind < Len(args)
        THEN [opt |-> [ret |-> "b", arg |-> args[ind + 1]], ind |-> ind + 2,
              next |-> <<>>]
        ELSE [opt |-> [ret |-> "?", arg |-> <<>>], ind |-> ind, next |-> <<>>]

\* while ((c = getopt(...)) != -1): the options, and the operands left.
RECURSIVE GetoptLoop(_, _, _)
GetoptLoop(args, ind, next) ==
    LET r == Getopt(args, ind, next)
        more == GetoptLoop(args, r.ind, r.next)
    IN  IF r.opt = NoMore
        THEN [opts |-> <<>>, operands |-> SubSeq(args, r.ind, Len(args))]
        ELSE [more EXCEPT !.opts = <<r.opt>> \o @]

\* The list read as a whole: an argument is a run of options up to its first b,
\* which takes the rest of it or the next argument; the operands are one empty
\* text when there is no such argument.
RECURSIVE Options(_)
Options(args) ==
    LET arg == Head(args)
        bs == {i \in 2 .. Len(arg) : arg[i] = "b"}
        b == Min(bs)
        plain(k) == [i \in 1 .. k - 2 |->
                       [ret |-> IF arg[i + 1] = "a" THEN "a" ELSE "?",
                        arg |-> <<>>]]
        after(opts, rest) ==
            [Options(rest) EXCEPT !.opts = opts \o @]
    IN  IF args = <<>> \/ arg[1] # "-" \/ Len(arg) = 1
        THEN [opts |-> <<>>, operands |-> args]
        ELSE IF arg = <<"-", "-">> THEN [opts |-> <<>>, operands |-> Tail(args)]
        ELSE IF bs = {} THEN after(plain(Len(arg) + 1), Tail(args))
        ELSE IF b < Len(arg)
        THEN after(Append(plain(b), [ret |-> "b",
                                     arg |-> SubSeq(arg, b + 1, Len(arg))]),
                   Tail(args))
        ELSE IF Len(args) = 1 THEN [opts |-> <<>>, operands |-> <<<<>>>>]
        ELSE after(Append(plain(b), [ret |-> "b", arg |-> args[2]]),
                   SubSeq(args, 3, Len(args)))

\* No b is left without its argument: getopt returns "?" for that one for ever,
\* without moving on.
Complete(args) == Options(args).operands # <<<<>>>>

-----------------------------------------------------------------------------
(* bsearch; 0 is NULL.                                                     *)

RECURSIVE BsearchIn(_, _, _, _)
BsearchIn(key, a, l, u) ==
    LET i == (l + u) \div 2
    IN  IF l >= u THEN 0
        ELSE IF key < a[i + 1] THEN BsearchIn(key, a, l, i)
        ELSE IF key > a[i + 1] THEN BsearchIn(key, a, i + 1, u)
        ELSE i + 1

Bsearch(key, a) == BsearchIn(key, a, 0, Len(a))

-----------------------------------------------------------------------------
(* qsort.                                                                  *)

Swapped(a, i, j) == [a EXCEPT ![i] = a[j], ![j] = a[i]]

\* The loop of qsort over a[1 .. n]: the pivot is a place, and what lies there
\* changes when it is swapped. The result is the array and the final i.
RECURSIVE PartitionFrom(_, _, _)
PartitionFrom(a, i, j) ==
    LET pivot == a[Len(a) \div 2 + 1]
        l == Min({k \in i .. Len(a) : a[k] >= pivot} \union {Len(a) + 1})
        u == Max({k \in 1 .. j : a[k] <= pivot} \union {0})
    IN  IF l >= u THEN [a |-> a, at |-> l]
        ELSE PartitionFrom(Swapped(a, l, u), l + 1, u - 1)

RECURSIVE Qsort(_)
Qsort(a) ==
    IF Len(a) < 2 THEN a
    ELSE LET p == PartitionFrom(a, 1, Len(a))
         IN  Qsort(SubSeq(p.a, 1, p.at - 1)) \o Qsort(SubSeq(p.a, p.at, Len(a)))

-----------------------------------------------------------------------------
(* Streams. A FILE is its descriptor's file, place and append flag (what   *)
(* open, read, write and lseek make of them), and eof; nothing is buffered.*)

Fopen(mode, old) ==
    [data |-> IF mode = "w" THEN <<>> ELSE old,
     pos |-> IF mode = "a" THEN Len(old) ELSE 0, append |-> mode = "a", eof |-> FALSE]

\* Items of one byte. A read of nothing, at the end of the file, sets eof.
Fread(f, n) ==
    LET got == SubSeq(f.data, f.pos + 1, Min({f.pos + n, Len(f.data)}))
    IN  [f |-> [f EXCEPT !.pos = @ + Len(got), !.eof = @ \/ (n > 0 /\ got = <<>>)],
         got |-> got]

Fwrite(f, s) ==
    LET at == IF f.append THEN Len(f.data) ELSE f.pos
        keep == SubSeq(f.data, at + Len(s) + 1, Len(f.data))
    IN  IF s = <<>> THEN f
        ELSE [f EXCEPT !.data = SubSeq(@, 1, at) \o s \o keep, !.pos = at + Len(s)]

Fgetc(f) == Fread(f, 1)

Fputc(f, c) == Fwrite(f, <<c>>)

\* The loop of fgets, with the line so far.
RECURSIVE FgetsFrom(_, _, _)
FgetsFrom(f, size, line) ==
    LET c == Fgetc(f)
    IN  IF Len(line) >= size - 1 THEN [f |-> f, line |-> line]
        ELSE IF c.got = <<>> THEN [f |-> c.f, line |-> line]
        ELSE IF c.got = <<"nl">> THEN [f |-> c.f, line |-> line \o c.got]
        ELSE FgetsFrom(c.f, size, line \o c.got)

\* NULL only when nothing was read and eof is set, by this call or an earlier one.
Fgets(f, size) ==
    LET r == FgetsFrom(f, size, <<>>)
    IN  [f |-> r.f, line |-> r.line, null |-> r.line = <<>> /\ r.f.eof]

Fputs(f, s) == Fwrite(f, s)

Fseek(f, to) == [f EXCEPT !.pos = to, !.eof = FALSE]

\* while (fgets(...)): the lines, and the stream after them.
RECURSIVE GetLines(_, _)
GetLines(f, size) ==
    LET r == Fgets(f, size)
        more == GetLines(r.f, size)
    IN  IF r.null THEN [f |-> r.f, lines |-> <<>>]
        ELSE [more EXCEPT !.lines = <<r.line>> \o @]

-----------------------------------------------------------------------------
(* The environment: entries "name=value", EnvSize - 1 at most.             *)

Getenv(env, name) ==
    LET hits == {i \in DOMAIN env : env[i].name = name}
    IN  IF hits = {} THEN "null" ELSE env[Min(hits)].value

\* No entry ever matches the string given, which has a "=" and goes on.
Putenv(env, e) == IF Len(env) < EnvSize - 1 THEN Append(env, e) ELSE env

Setenv(env, name, value, overwrite) ==
    IF Getenv(env, name) # "null" /\ ~overwrite THEN env
    ELSE Putenv(env, [name |-> name, value |-> value])

Unsetenv(env, name) ==
    LET hits == {i \in DOMAIN env : env[i].name = name}
    IN  IF hits = {} THEN env ELSE RemoveAt(env, Min(hits))

EnvNames == {"A", "B", "C"}

\* A call of the three; a value "null" is to be removed.
EnvCall(env, c) ==
    IF c.value = "null" THEN Unsetenv(env, c.name)
    ELSE Setenv(env, c.name, c.value, c.overwrite)

EnvCalls == [name : EnvNames, value : {"1", "2"}, overwrite : BOOLEAN]
            \union [name : EnvNames, value : {"null"}, overwrite : {FALSE}]

-----------------------------------------------------------------------------
(* A program calls one function after another.                             *)

NoCall == [fn |-> "none"]

CallGmtime ==
    \E d \in Days, s \in Seconds :
        call' = [fn |-> "gmtime", day |-> d, sec |-> s, tm |-> Gmtime(d, s),
                 back |-> Mktime(Gmtime(d, s))]

CallStrftime ==
    \E d \in {1, 700, 11016}, s \in Seconds, max \in {1, 3, 20, 21} :
        call' = [fn |-> "strftime", max |-> max, tm |-> Gmtime(d, s),
                 text |-> Strftime(max, IsoDate, Gmtime(d, s))]

CallStrtoul ==
    \E s \in Numerals, base \in {0, 10, 16} :
        call' = [fn |-> "strtoul", s |-> s, base |-> base,
                 val |-> Strtoul(s, base)]

CallSnprintf ==
    \E size \in BufSizes, conv \in {"d", "u", "o", "x"}, u \in 0 .. Uint - 1,
       width \in Widths, precision \in Precisions, flag \in {"", "-", "0"} :
        LET v == IF conv = "d" /\ u >= Uint \div 2 THEN u - Uint ELSE u
            fmt == <<Conv(conv, width, precision, flag)>>
            r == Snprintf(size, fmt, <<v>>)
        IN  call' = [fn |-> "snprintf", size |-> size, args |-> <<u>>, fmt |-> fmt,
                     r |-> r, back |-> Sscanf(r.text, fmt)]

\* Two conversions with a character between them.
CallFormat ==
    \E size \in BufSizes, c1, c2 \in {"u", "c", "s"}, w1, w2 \in Widths,
       sep \in {" ", ","}, flag \in {"", "-"} :
        LET values(c) == IF c = "u" THEN {0, Uint - 1} ELSE IF c = "c" THEN {<<"x">>, <<" ">>}
                         ELSE TextWords
            fmt == <<Conv(c1, w1, -1, flag), Plain(sep), Conv(c2, w2, -1, flag)>>
        IN  \E v1 \in values(c1), v2 \in values(c2) :
              LET r == Snprintf(size, fmt, <<v1, v2>>)
              IN  call' = [fn |-> "snprintf", size |-> size, args |-> <<v1, v2>>,
                           fmt |-> fmt, r |-> r, back |-> Sscanf(r.text, fmt)]

CallGetopt ==
    \E args \in Arguments :
        /\ Complete(args)
        /\ call' = [fn |-> "getopt", args |-> args, r |-> GetoptLoop(args, 1, <<>>)]

CallBsearch ==
    \E a \in Tables, key \in 0 .. 4 :
        call' = [fn |-> "bsearch", a |-> a, key |-> key, at |-> Bsearch(key, a)]

CallQsort ==
    \E a \in Arrays : call' = [fn |-> "qsort", a |-> a, r |-> Qsort(a)]

\* A text written at once or character by character to a new file, or at the end
\* of an old one; then read in lines, and once more after a seek.
CallStream ==
    \E mode \in {"w", "a"}, old \in FileTexts, text \in FileTexts, size \in {2, 3, 4} :
        LET f == Fopen(mode, old)
            once == Fputs(f, text)
            each == FoldLeft(Fputc, f, text)
            r == GetLines(Fopen("r", once.data), size)
        IN  \E to \in 0 .. Len(once.data) :
              call' = [fn |-> "stream", size |-> size, to |-> to,
                       text |-> (IF mode = "a" THEN old ELSE <<>>) \o text,
                       same |-> once = each, lines |-> r.lines, eof |-> r.f.eof,
                       again |-> GetLines(Fseek(r.f, to), size).lines]

CallEnv ==
    \E c1, c2, c3 \in EnvCalls :
        call' = [fn |-> "env", did |-> <<c1, c2, c3>>,
                 env |-> FoldLeft(EnvCall, <<>>, <<c1, c2, c3>>)]

Returned == call # NoCall /\ call' = NoCall

LInit == call = NoCall

LNext ==
    \/ call = NoCall /\ CallGmtime
    \/ call = NoCall /\ CallStrtoul
    \/ call = NoCall /\ CallSnprintf
    \/ call = NoCall /\ CallGetopt
    \/ call = NoCall /\ CallBsearch
    \/ call = NoCall /\ CallStrftime
    \/ call = NoCall /\ CallFormat
    \/ call = NoCall /\ CallQsort
    \/ call = NoCall /\ CallStream
    \/ call = NoCall /\ CallEnv
    \/ Returned

LSpec == LInit /\ [][LNext]_call

-----------------------------------------------------------------------------
(* Properties.                                                             *)

\* What sscanf can tell apart: words are not empty, a word runs up to a space,
\* and %c takes the next character, which is to be the one printed.
Readable(fmt, args) ==
    /\ \A i \in DOMAIN args :
          fmt[2 * i - 1].conv \in {"c", "s"} => args[i] \notin {<<>>, <<" ">>}
    /\ Len(fmt) > 1 /\ fmt[1].conv = "s" => fmt[2] = Plain(" ")
    /\ Len(fmt) > 1 /\ fmt[1].width > 0 /\ fmt[1].flag = "-" => fmt[2] = Plain(" ")

\* What the calls of did are to make of the variables, a new one while there is
\* room.
Meant(did) ==
    LET full(v) == Cardinality({x \in EnvNames : v[x] # "null"}) >= EnvSize - 1
    IN  FoldLeft(LAMBDA v, c :
                     IF c.value = "null" THEN [v EXCEPT ![c.name] = "null"]
                     ELSE IF v[c.name] # "null" \/ full(v) THEN v
                     ELSE [v EXCEPT ![c.name] = c.value],
                 [x \in EnvNames |-> "null"], did)

\* No call of did overwrites a variable (setenv would add a second entry, which
\* getenv never finds).
NoneReplaced(did) ==
    \A i \in DOMAIN did :
        did[i].overwrite => Meant(SubSeq(did, 1, i - 1))[did[i].name] = "null"

\* Every call returned what it is for. gmtime_r finds the date whose day number
\* is the one asked for, across leap years and the century, and mktime undoes
\* it. strtoul gives the value of the longest numeral, clamped to an unsigned
\* long and negated in it. What snprintf wrote, sscanf reads back by the same
\* format when it fitted; the count is the length untruncated. strftime's text
\* has each field at its place, cut to the room. getopt gives the options of the
\* whole list and leaves its operands. bsearch finds the key exactly when the
\* table has it. qsort keeps every element, and sorts up to three of them. A file
\* written through a stream is read back by fgets, line by line, each ended by
\* its newline, by the room or by the end of the file, and again from where
\* fseek went, eof forgotten. getenv gives the value set, none after
\* unsetenv or when the environment was full.
ReturnsAsMeant ==
    /\ call.fn = "gmtime" =>
          /\ DayNumber(call.tm.year, call.tm.mon, call.tm.mday) = call.day
          /\ call.tm.mday \in 1 .. MonthDays(call.tm.year, call.tm.mon)
          /\ call.tm.yday = call.day - DayNumber(call.tm.year, 0, 1)
          /\ call.back = <<call.day, call.sec>>
    /\ call.fn = "strtoul" =>
          LET i == FirstNot(call.s, 1, " ")
              j == IF CharAt(call.s, i) \in {"-", "+"} THEN i + 1 ELSE i
              hex == call.base \in {0, 16} /\ SubSeq(call.s \o <<" ", " ">>, j, j + 1)
                                                = <<"0", "x">>
              base == IF hex THEN 16 ELSE IF call.base # 0 THEN call.base
                      ELSE IF CharAt(call.s, j) = "0" THEN 8 ELSE 10
              v == NumeralValue(DigitsFrom(call.s, IF hex THEN j + 2 ELSE j, base),
                                base)
          IN  call.val = IF v >= Ulong THEN Ulong - 1
                         ELSE IF CharAt(call.s, i) = "-" THEN (-v) % Ulong ELSE v
    /\ call.fn = "snprintf" =>
          /\ Len(call.r.text) = Min({call.r.count, call.size - 1})
          /\ \A i \in DOMAIN call.fmt :
                call.fmt[i].flag # "0" /\ call.fmt[i].conv # "c" =>
                    call.r.count >= call.fmt[i].width
          /\ call.r.count < call.size /\ Readable(call.fmt, call.args) =>
                call.back = call.args
    /\ call.fn = "strftime" =>
          LET tm == call.tm
              whole == Strftime(20, IsoDate, tm)
              number(i, n) == NumeralValue(SubSeq(whole, i, i + n - 1), 10)
          IN  /\ call.text = SubSeq(whole, 1, Min({19, call.max - 1}))
              /\ <<number(1, 4), number(6, 2), number(9, 2)>> = <<tm.year, tm.mon + 1, tm.mday>>
              /\ <<number(12, 2), number(15, 2), number(18, 2)>> = <<tm.hour, tm.min, tm.sec>>
    /\ call.fn = "qsort" =>
          /\ Len(call.r) = Len(call.a)
          /\ \A v \in ToSet(call.a) :
                Len(SelectSeq(call.r, LAMBDA x : x = v)) = Len(SelectSeq(call.a, LAMBDA x : x = v))
          /\ Len(call.a) <= 3 => \A i \in 1 .. Len(call.a) - 1 : call.r[i] <= call.r[i + 1]
    /\ call.fn = "stream" =>
          LET all(lines) == FlattenSeq(lines)
          IN  /\ all(call.lines) = call.text /\ call.eof /\ call.same
              /\ \A i \in DOMAIN call.lines :
                    LET line == call.lines[i]
                    IN  /\ Len(line) < call.size
                        /\ \A k \in 1 .. Len(line) - 1 : line[k] # "nl"
                        /\ \/ Last(line) = "nl" \/ Len(line) = call.size - 1
                           \/ i = Len(call.lines)
              /\ all(call.again) = SubSeq(call.text, call.to + 1, Len(call.text))
    /\ call.fn = "env" /\ NoneReplaced(call.did) =>
          \A name \in EnvNames : Getenv(call.env, name) = Meant(call.did)[name]
    /\ call.fn = "getopt" => call.r = Options(call.args)
    /\ call.fn = "bsearch" =>
          IF call.key \in ToSet(call.a) THEN call.at \in DOMAIN call.a
                                             /\ call.a[call.at] = call.key
          ELSE call.at = 0
=============================================================================
