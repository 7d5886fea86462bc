------------------------------ MODULE Strings ------------------------------
(***************************************************************************)
(* libs/string.c and libs/printfmt.c: copying, comparing and searching,    *)
(* strtol and the formatted output of vsnprintf, as the kernel and the     *)
(* user programs use them.  A character is its code; the fixed texts of    *)
(* printfmt.c are one character each.  A state is one call with its        *)
(* result; the properties compare it with what the call is for.            *)
(***************************************************************************)
EXTENDS Integers, Sequences, SequencesExt

CONSTANTS
    Letters,      \* characters of strings, not 0
    MaxString,    \* length of strings
    Cells,        \* cells of a memory that memmove works on
    Numbers,      \* numbers to print and to read
    Widths,       \* field widths, 0 for none
    Sizes,        \* of the buffers of vsnprintf
    INT_BITS,     \* width of an int,
    LONG_BITS     \* ... of a long and a long long

VARIABLES call, result

vars == <<call, result>>

NUL == 0
Tab == 9
Space == 32
Hash == 35
Percent == 37
Star == 42
Plus == 43
Minus == 45
Dot == 46
Zero == 48
Question == 63
Char(digit) == IF digit < 10 THEN Zero + digit ELSE 87 + digit   \* "0123456789abcdef"
BigX == 88
SmallX == 120
E_INVAL == 3
Conv == [c |-> 99, d |-> 100, e |-> 101, l |-> 108, o |-> 111, p |-> 112, s |-> 115,
         u |-> 117, x |-> 120]
Null == <<>>                    \* the pointer: a string has at least its terminator

Text == SeqOf(Letters, MaxString)
CString(t) == Append(t, NUL)
-----------------------------------------------------------------------------
(* string.c, on terminated strings and on a memory *)

RECURSIVE strlen(_)
strlen(s) == IF s[1] = NUL THEN 0 ELSE 1 + strlen(Tail(s))

\* A negative length is a huge one.
RECURSIVE strnlen(_, _)
strnlen(s, len) == IF len = 0 \/ s[1] = NUL THEN 0 ELSE 1 + strnlen(Tail(s), len - 1)

\* What strncpy writes: the string, then its terminator again and again.
RECURSIVE strncpy(_, _)
strncpy(s, len) ==
    IF len = 0 THEN <<>>
    ELSE <<s[1]>> \o strncpy(IF s[1] # NUL THEN Tail(s) ELSE s, len - 1)

RECURSIVE strcpy(_)
strcpy(s) == IF s[1] = NUL THEN <<NUL>> ELSE <<s[1]>> \o strcpy(Tail(s))

strcat(dst, src) == SubSeq(dst, 1, strlen(dst)) \o strcpy(src)

RECURSIVE strcmp(_, _)
strcmp(a, b) == IF a[1] # NUL /\ a[1] = b[1] THEN strcmp(Tail(a), Tail(b)) ELSE a[1] - b[1]

RECURSIVE strncmp(_, _, _)
strncmp(a, b, n) ==
    IF n > 0 /\ a[1] # NUL /\ a[1] = b[1] THEN strncmp(Tail(a), Tail(b), n - 1)
    ELSE IF n = 0 THEN 0 ELSE a[1] - b[1]

\* The index of c, or of the terminator; strchr returns NULL there.
RECURSIVE strfind(_, _)
strfind(s, c) == IF s[1] = NUL \/ s[1] = c THEN 1 ELSE 1 + strfind(Tail(s), c)

strchr(s, c) == IF s[strfind(s, c)] = NUL THEN 0 ELSE strfind(s, c)

RECURSIVE CopyUp(_, _, _, _)
CopyUp(m, d, s, n) ==
    IF n = 0 THEN m ELSE CopyUp([m EXCEPT ![d] = m[s]], d + 1, s + 1, n - 1)

RECURSIVE CopyDown(_, _, _, _)
CopyDown(m, d, s, n) ==
    IF n = 0 THEN m ELSE CopyDown([m EXCEPT ![d - 1] = m[s - 1]], d - 1, s - 1, n - 1)

\* Fault: always from the front.
memmove_up(m, d, s, n) == CopyUp(m, d, s, n)

memmove(m, d, s, n) ==
    IF s < d /\ s + n > d THEN CopyDown(m, d + n, s + n, n) ELSE CopyUp(m, d, s, n)

\* strtol as three steps on [s, base, neg]: blanks and sign, prefix, digits.
RECURSIVE Blanks(_)
Blanks(s) == IF s[1] \in {Space, Tab} THEN Blanks(Tail(s)) ELSE s

Sign(s) == [s |-> IF s[1] \in {Plus, Minus} THEN Tail(s) ELSE s, neg |-> s[1] = Minus]

Prefix(s, base) ==
    IF base \in {0, 16} /\ s[1] = Zero /\ s[2] = SmallX
    THEN [s |-> SubSeq(s, 3, Len(s)), base |-> 16]
    ELSE IF base = 0 /\ s[1] = Zero THEN [s |-> Tail(s), base |-> 8]
    ELSE [s |-> s, base |-> IF base = 0 THEN 10 ELSE base]

DigitOf(c) == CASE c \in 48 .. 57 -> c - 48
                [] c \in 97 .. 122 -> c - 97 + 10
                [] c \in 65 .. 90 -> c - 65 + 10
                [] OTHER -> 99

RECURSIVE Digits(_, _, _)
Digits(s, base, val) ==
    IF DigitOf(s[1]) >= base THEN [val |-> val, end |-> s]
    ELSE Digits(Tail(s), base, val * base + DigitOf(s[1]))

strtol(text, base) ==
    LET signed == Sign(Blanks(text))
        number == Prefix(signed.s, base)
        read == Digits(number.s, number.base, 0)
    IN  [read EXCEPT !.val = IF signed.neg THEN -@ ELSE @]
-----------------------------------------------------------------------------
(* printfmt.c *)

Fill(c, n) == IF n <= 0 THEN <<>> ELSE [i \in 1 .. n |-> c]

RECURSIVE printnum(_, _, _, _)
printnum(num, base, width, padc) ==
    (IF num >= base THEN printnum(num \div base, base, width - 1, padc)
     ELSE Fill(padc, width - 1)) \o <<Char(num % base)>>

MAXERROR == 24
NullText == <<78>>              \* "(null)"
ErrorText == <<69>>             \* "error "
error_string(err) == IF err \in {0, 7, 11, 12} THEN Null ELSE <<96 + err, NUL>>

\* The flags of an escape sequence.
Flags == [padc |-> Space, width |-> -1, precision |-> -1, lflag |-> 0, alt |-> FALSE]

process_precision(f, n) ==
    IF f.width < 0 THEN [f EXCEPT !.width = n, !.precision = -1] ELSE [f EXCEPT !.precision = n]

\* The digits of a width: its value, and what follows.
RECURSIVE Width(_, _)
Width(fmt, n) ==
    IF fmt[1] \in 48 .. 57 THEN Width(Tail(fmt), 10 * n + fmt[1] - 48) ELSE [n |-> n, fmt |-> fmt]

\* What va_arg finds in an argument: its low bits, without or with a sign.
Unsigned(arg, bits) == arg % 2^bits
Signed(arg, bits) ==
    LET u == arg % 2^bits IN IF u < 2^(bits - 1) THEN u ELSE u - 2^bits

getuint(arg, lflag) == Unsigned(arg, IF lflag > 0 THEN LONG_BITS ELSE INT_BITS)
getint(arg, lflag) == Signed(arg, IF lflag > 0 THEN LONG_BITS ELSE INT_BITS)

Shown(c, alt) == IF alt /\ (c < Space \/ c > 126) THEN Question ELSE c

Truncated(s, precision) ==
    SubSeq(s, 1, IF precision < 0 THEN strlen(s)
                 ELSE IF precision < strlen(s) THEN precision ELSE strlen(s))

PutString(s, f) ==
    LET before == IF f.width > 0 /\ f.padc # Minus
                  THEN Fill(f.padc, f.width - strnlen(s, f.precision)) ELSE <<>>
        cut == Truncated(s, f.precision)
        out == [i \in 1 .. Len(cut) |-> Shown(cut[i], f.alt)]
    IN  before \o out \o Fill(Space, f.width - Len(before) - Len(out))

PutSigned(num, f) ==
    IF num < 0 THEN <<Minus>> \o printnum(-num, 10, f.width, f.padc)
    ELSE printnum(num, 10, f.width, f.padc)

\* printfmt with "%s" or "error %d".
PutError(arg) ==
    LET err == IF Signed(arg, INT_BITS) < 0 THEN -Signed(arg, INT_BITS) ELSE Signed(arg, INT_BITS)
    IN  IF err > MAXERROR \/ error_string(err) = Null THEN ErrorText \o PutSigned(err, Flags)
        ELSE PutString(error_string(err), Flags)

\* One conversion; an argument is a number or a string.
Convert(c, arg, f) ==
    CASE c = Conv.c -> <<arg>>
      [] c = Conv.e -> PutError(arg)
      [] c = Conv.s -> PutString(IF arg = Null THEN CString(NullText) ELSE arg, f)
      [] c = Conv.d -> PutSigned(getint(arg, f.lflag), f)
      [] c = Conv.u -> printnum(getuint(arg, f.lflag), 10, f.width, f.padc)
      [] c = Conv.o -> printnum(getuint(arg, f.lflag), 8, f.width, f.padc)
      [] c = Conv.p -> <<Zero, SmallX>> \o printnum(Unsigned(arg, LONG_BITS), 16, f.width, f.padc)
      [] c = Conv.x -> printnum(getuint(arg, f.lflag), 16, f.width, f.padc)

\* The switch of vprintfmt after '%': flags, then a conversion, the escaped '%',
\* or an unknown sequence, whose '%' is printed and the rest taken as text.
RECURSIVE Escape(_, _, _, _), vprintfmt(_, _)
Escape(fmt, start, f, ap) ==
    LET c == fmt[1]
        Again(g) == Escape(Tail(fmt), start, g, ap)
    IN  CASE c = Minus -> Again([f EXCEPT !.padc = Minus])
          [] c = Zero -> Again([f EXCEPT !.padc = Zero])
          [] c \in 49 .. 57 -> Escape(Width(fmt, 0).fmt, start,
                                      process_precision(f, Width(fmt, 0).n), ap)
          [] c = Star -> Escape(Tail(fmt), start, process_precision(f, Signed(ap[1], INT_BITS)),
                                Tail(ap))
          [] c = Dot -> Again([f EXCEPT !.width = IF @ < 0 THEN 0 ELSE @])
          [] c = Hash -> Again([f EXCEPT !.alt = TRUE])
          [] c = Conv.l -> Again([f EXCEPT !.lflag = @ + 1])
          [] c \in {Conv[k] : k \in DOMAIN Conv} \ {Conv.l} ->
                Convert(c, ap[1], f) \o vprintfmt(Tail(fmt), Tail(ap))
          [] c = Percent -> <<Percent>> \o vprintfmt(Tail(fmt), ap)
          [] OTHER -> <<Percent>> \o vprintfmt(start, ap)

\* ap is the sequence of the arguments not yet taken.
vprintfmt(fmt, ap) ==
    IF fmt[1] = NUL THEN <<>>
    ELSE IF fmt[1] = Percent THEN Escape(Tail(fmt), Tail(fmt), Flags, ap)
    ELSE <<fmt[1]>> \o vprintfmt(Tail(fmt), ap)

\* sprintputch counts every character and stores those that fit.
RECURSIVE Put(_, _, _)
Put(b, out, room) ==
    IF out = <<>> THEN b
    ELSE Put([buf |-> IF Len(b.buf) < room THEN Append(b.buf, out[1]) ELSE b.buf,
              cnt |-> b.cnt + 1], Tail(out), room)


vsnprintf(size, fmt, ap) ==
    IF size = 0 THEN [buf |-> <<>>, cnt |-> -E_INVAL]
    ELSE LET b == Put([buf |-> <<>>, cnt |-> 0], vprintfmt(fmt, ap), size - 1)
         IN  [b EXCEPT !.buf = Append(@, NUL)]
-----------------------------------------------------------------------------
Memory == [1 .. Cells -> Letters]
Bases == {8, 10, 16}
WidthText(width, star) ==
    IF star THEN <<Star>> ELSE IF width = 0 THEN <<>> ELSE <<Char(width)>>

Init == call = [op |-> "none"] /\ result = <<>>

Move(m, d, s, n) ==
    /\ d + n <= Cells + 1 /\ s + n <= Cells + 1
    /\ call' = [op |-> "memmove", m |-> m, d |-> d, s |-> s, n |-> n]
    /\ result' = memmove(m, d, s, n)

\* A number with or without the prefix of its base, and the base or 0 passed; the base
\* is passed where no prefix tells it.
Parse(n, sign, base, prefix, passed, tail) ==
    LET digits == printnum(n, base, -1, Space) \o tail \o <<NUL>>
    IN  /\ passed = 0 => prefix # <<>> \/ base = 10
        /\ call' = [op |-> "strtol", n |-> IF sign = <<Minus>> THEN -n ELSE n, digits |-> digits,
                    tail |-> tail, upper |-> prefix = <<Zero, BigX>>]
        /\ result' = strtol(<<Space, Tab>> \o sign \o prefix \o digits, passed)

BasePrefix(base) == CASE base = 16 -> {<<>>, <<Zero, SmallX>>, <<Zero, BigX>>}
                    [] base = 8 -> {<<>>, <<Zero>>}
                    [] OTHER -> {<<>>}

PrintNumber(n, conv, long, width, star, flag, size) ==
    /\ call' = [op |-> "number", n |-> n, conv |-> conv, long |-> long \/ conv = "p",
                width |-> width, padc |-> IF flag = <<>> THEN Space ELSE flag[1], size |-> size]
    /\ result' = vsnprintf(size, CString(<<Dot, Percent>> \o flag \o WidthText(width, star)
                                          \o (IF long THEN <<Conv.l>> ELSE <<>>) \o <<Conv[conv]>>),
                           IF star THEN <<width, n>> ELSE <<n>>)

\* A precision begins with a digit other than 0, which vprintfmt takes for a flag.
PrintString(t, width, prec, flag, size) ==
    /\ prec # 0
    /\ call' = [op |-> "string", t |-> IF t = Null THEN NullText ELSE Front(t), width |-> width,
                prec |-> prec, left |-> flag = <<Minus>>, alt |-> flag = <<Hash>>, size |-> size]
    /\ result' = vsnprintf(size, CString(<<Percent>> \o flag \o WidthText(width, FALSE)
                                          \o (IF prec < 0 THEN <<>> ELSE <<Dot, Char(prec)>>) \o <<Conv.s>>),
                           <<t>>)

PrintError(err, size) ==
    /\ call' = [op |-> "error", err |-> err, size |-> size]
    /\ result' = vsnprintf(size, CString(<<Percent, Conv.e>>), <<err>>)

\* Text, "%%" and unknown sequences around a character.
PrintPlain(t, c, size) ==
    /\ call' = [op |-> "plain", t |-> t, c |-> c, size |-> size]
    /\ result' = vsnprintf(size, CString(<<Percent, Conv.c>> \o t), <<c>>)

Compare(a, b, n) ==
    /\ call' = [op |-> "compare", a |-> a, b |-> b, n |-> n]
    /\ result' = [cmp |-> strcmp(CString(a), CString(b)), ncmp |-> strncmp(CString(a), CString(b), n),
                  cat |-> strcat(CString(a), CString(b)), ncpy |-> strncpy(CString(a), n),
                  chr |-> [c \in Letters |-> strchr(CString(a), c)]]

Next ==
    /\ call.op = "none"
    /\ \/ \E m \in Memory, d, s \in 1 .. Cells, n \in 1 .. Cells : Move(m, d, s, n)
       \/ \E n \in Numbers, sign \in {<<>>, <<Plus>>, <<Minus>>}, base \in Bases,
             tail \in {<<>>, <<Percent, Zero>>} :
             \E prefix \in BasePrefix(base), passed \in {0, base} :
                Parse(n, sign, base, prefix, passed, tail)
       \/ \E n \in Numbers \cup {-k : k \in Numbers}, conv \in {"d", "u", "o", "x", "p"},
             long, star \in BOOLEAN, width \in Widths, flag \in {<<>>, <<Zero>>, <<Minus>>},
             size \in Sizes : PrintNumber(n, conv, long, width, star, flag, size)
       \/ \E t \in {CString(u) : u \in Text} \cup {Null}, width, prec \in Widths,
             flag \in {<<>>, <<Minus>>, <<Hash>>}, size \in Sizes :
             PrintString(t, width, prec - 1, flag, size)
       \/ \E err \in -(MAXERROR + 1) .. MAXERROR + 1, size \in Sizes : PrintError(err, size)
       \/ \E t \in SeqOf({Percent, Dot, SmallX + 1}, MaxString), c \in Letters, size \in Sizes :
             PrintPlain(t, c, size)
       \/ \E a, b \in Text, n \in 0 .. MaxString + 1 : Compare(a, b, n)

Spec == Init /\ [][Next]_vars
-----------------------------------------------------------------------------
most(a, b) == IF a > b THEN a ELSE b
least(a, b) == IF a < b THEN a ELSE b

\* The order of the dictionary on two texts.
Before(a, b) ==
    \/ IsStrictPrefix(a, b)
    \/ \E i \in 1 .. least(Len(a), Len(b)) :
          a[i] < b[i] /\ SubSeq(a, 1, i - 1) = SubSeq(b, 1, i - 1)

\* memmove copies as if at once, also between ranges that overlap on either side;
\* strcmp and strncmp order strings as a dictionary does, strncpy fills its buffer
\* to the end, and strchr finds the first occurrence.
StringsExact ==
    /\ call.op = "memmove" =>
          result = [i \in 1 .. Cells |-> IF i \in call.d .. call.d + call.n - 1
                                         THEN call.m[call.s + i - call.d] ELSE call.m[i]]
    /\ call.op = "compare" =>
          LET a == call.a
              b == call.b
              Cut(t) == SubSeq(t, 1, least(call.n, Len(t)))
          IN  /\ result.cmp < 0 <=> Before(a, b)
              /\ result.cmp = 0 <=> a = b
              /\ result.ncmp < 0 <=> Before(Cut(a), Cut(b))
              /\ result.ncmp = 0 <=> Cut(a) = Cut(b)
              /\ result.cat = CString(a \o b)
              /\ result.ncpy = Cut(a) \o Fill(NUL, call.n - Len(Cut(a)))
              /\ \A c \in Letters : result.chr[c] = SelectInSeq(a, LAMBDA x : x = c)

Base(conv) == CASE conv \in {"x", "p"} -> 16 [] conv = "o" -> 8 [] OTHER -> 10

\* A number written in a base, most significant digit first.
Numeral(n, base) ==
    LET k == CHOOSE k \in 1 .. LONG_BITS : n < base^k /\ (k = 1 \/ base^(k - 1) <= n)
    IN  [i \in 1 .. k |-> Char((n \div base^(k - i)) % base)]

\* The value the conversion is asked to print.
Value == LET bits == IF call.long THEN LONG_BITS ELSE INT_BITS
         IN  IF call.conv = "d" THEN Signed(call.n, bits) ELSE Unsigned(call.n, bits)

NumberText ==
    LET digits == Numeral(IF Value < 0 THEN -Value ELSE Value, Base(call.conv))
    IN  (IF call.conv = "p" THEN <<Zero, SmallX>> ELSE <<>>) \o (IF Value < 0 THEN <<Minus>> ELSE <<>>)
          \o Fill(call.padc, call.width - Len(digits)) \o digits

StringText ==
    LET cut == IF call.prec < 0 THEN call.t ELSE SubSeq(call.t, 1, least(call.prec, Len(call.t)))
        out == [i \in 1 .. Len(cut) |-> Shown(cut[i], call.alt)]
        pad == Fill(Space, call.width - Len(out))
    IN  IF call.left THEN out \o pad ELSE pad \o out

ErrorMessage ==
    LET err == most(call.err, -call.err)
    IN  IF err \in 1 .. MAXERROR \ {7, 11, 12} THEN <<96 + err>> ELSE ErrorText \o Numeral(err, 10)

\* vsnprintf returned -E_INVAL for no buffer at all; else it stored what fits of the
\* text and a terminator, and returned the length of the whole text.
Printed(text) ==
    result = IF call.size = 0 THEN [buf |-> <<>>, cnt |-> -E_INVAL]
             ELSE [buf |-> SubSeq(text, 1, least(Len(text), call.size - 1)) \o <<NUL>>,
                   cnt |-> Len(text)]

\* strtol reads a number with sign and prefix up to the first character that is no
\* digit of its base; the prefix "0X", which its comment allows for base 16, it does
\* not know: it reads the 0 and stops, whether the base is passed or not.
ParseExact ==
    call.op = "strtol" =>
        result = IF call.upper THEN [val |-> 0, end |-> <<BigX>> \o call.digits]
                 ELSE [val |-> call.n, end |-> call.tail \o <<NUL>>]

\* The text vsnprintf makes is, for a number, the numeral of the value that an
\* argument of that width holds, behind its sign, filled up on the left to the field
\* with the flag's character ('-' too: it does not move a number to the left); for a
\* string the text cut to the precision in a field padded on the side asked for (the
\* comment of the file promises a field to numeric formats only; the case 's' has one
\* too); for an error its message whatever its sign.  It never writes past its buffer,
\* ends what it wrote, and returns the length that a large buffer would have needed.
\* What was printed whole and without blanks inside, strtol reads back.
FormatExact ==
    /\ call.op = "number" => Printed(<<Dot>> \o NumberText)
    /\ call.op = "string" => Printed(StringText)
    /\ call.op = "error" => Printed(ErrorMessage)
    /\ call.op = "plain" =>
          IF call.size = 0 THEN result = [buf |-> <<>>, cnt |-> -E_INVAL]
          ELSE /\ Len(result.buf) = least(result.cnt, call.size - 1) + 1
               /\ SelectInSeq(result.buf, LAMBDA c : c = NUL) = Len(result.buf)
               /\ Percent \notin Range(call.t) => Printed(<<call.c>> \o call.t)
    /\ call.op = "number" /\ result.cnt \in 0 .. call.size - 1 /\ call.conv # "p"
         /\ (call.padc = Zero \/ (call.padc = Space /\ Value >= 0)) =>
            strtol(Tail(result.buf), Base(call.conv)) = [val |-> Value, end |-> <<NUL>>]

=============================================================================
