------------------------------- MODULE Printk -------------------------------
(***************************************************************************)
(* The text printk (generic/printk.c) makes of a format and its arguments. *)
(* A character is its code.  The escape sequences that switch the colour   *)
(* around a conversion count as one character each.                        *)
(***************************************************************************)
EXTENDS Strings, SequencesExt

CONSTANTS
    NumLen,     \* digits in the decimal buffer, PRINTK_I64_BUF_LEN
    HexLen,     \* digits of a hexadecimal number, PRINTK_U64_HEX_LEN
    IntMin      \* the least value of an int64_t

Colour == 1001
Plain == 1002

char_is_specifier(c) == c \in {100, 117, 120, 88, 99, 115, 112, 37}   \* d u x X c s p %
char_is_flag(c) == c \in {35, 48, 45, 32, 43}                       \* # 0 - space +
char_is_digit(c) == c \in 48 .. 57
Digit(d) == 48 + d
LenMod(c) == c \in {104, 108, 122}                                  \* h l z

NoSpec == [flags |-> {}, width |-> 0, precision |-> 0, lenmod |-> << >>, convspec |-> 0]

(***************************************************************************)
(* parse_conversion, from the state it is in at character c.  The loop     *)
(* ends at the end of the format; the result is the offset behind the      *)
(* conversion, or NULL.                                                    *)
(***************************************************************************)
Failed == [end |-> NULL, spec |-> NoSpec]

RECURSIVE ParseFrom(_, _, _, _)
ParseFrom(f, c, state, spec) ==
    LET ch == At(f, c)
        Skip(next) == ParseFrom(f, c, next, spec)
        Take(spec2) == ParseFrom(f, c + 1, state, spec2)
    IN  CASE ch = NUL -> Failed
          [] ch # NUL /\ state = "FLAGS" ->
                IF char_is_flag(ch) THEN Take([spec EXCEPT !.flags = @ \cup {ch}])
                ELSE Skip("FIELD_WIDTH")
          [] ch # NUL /\ state = "FIELD_WIDTH" ->
                IF char_is_digit(ch) THEN Take([spec EXCEPT !.width = 10 * @ + ch - 48])
                ELSE Skip("PRECISION")
          [] ch # NUL /\ state = "PRECISION" ->
                IF ch = 46 THEN ParseFrom(f, c + 1, "PRECISION_BEGUN", spec)
                ELSE Skip("LENGTH_MODIFIER")
          [] ch # NUL /\ state = "PRECISION_BEGUN" ->
                IF char_is_digit(ch) THEN Take([spec EXCEPT !.precision = 10 * @ + ch - 48])
                ELSE Skip("LENGTH_MODIFIER")
          [] ch # NUL /\ state = "LENGTH_MODIFIER" ->
                IF ~LenMod(ch) THEN Skip("CONVSPEC")
                ELSE LET n == IF ch # 122 /\ At(f, c + 1) = ch THEN 2 ELSE 1 IN
                     ParseFrom(f, c + n, "CONVSPEC", [spec EXCEPT !.lenmod = [i \in 1 .. n |-> ch]])
          [] ch # NUL /\ state = "CONVSPEC" ->
                IF ~char_is_specifier(ch) THEN Failed
                ELSE [end |-> c + 1,
                      spec |-> IF ch = 112   \* defaults_from_convspec
                                 THEN [spec EXCEPT !.convspec = ch, !.precision = 16,
                                                   !.flags = @ \cup {35}]
                                 ELSE [spec EXCEPT !.convspec = ch]]

\* Faulty variant: parsing begins at the field width, and the flags are not read.
ParseWidthOnly(f, c) == ParseFrom(f, c + 1, "FIELD_WIDTH", NoSpec)

parse_conversion(f, c) == ParseFrom(f, c + 1, "FLAGS", NoSpec)

-----------------------------------------------------------------------------
\* The k-th digit of x from the right; C takes the sign of x along.
DigitOf(x, k, base) ==
    IF x >= 0 THEN (x \div base ^ k) % base ELSE -((-x \div base ^ k) % base)

\* x *= -1, which leaves the least value as it is.
Negated(x) == IF x = IntMin THEN x ELSE -x

\* Faulty variant: the last digit is left out of a zero.
LaidNoZero(x, n, base, zeros, width) ==
    LET buf == [k \in 0 .. n - 1 |-> DigitOf(x, k, base)]
        piece(k) == IF k \in zeros \/ \E j \in k .. n - 1 : buf[j] # 0
                      THEN <<Digit(buf[k])>>
                    ELSE IF k < width THEN <<32>> ELSE << >>
    IN  FlattenSeq([i \in 1 .. n |-> piece(n - i)])

\* The characters at positions n - 1 .. 0 from the right: a leading zero is
\* printed at some positions, blank up to the width and left out elsewhere.
Laid(x, n, base, zeros, width) ==
    LET buf == [k \in 0 .. n - 1 |-> DigitOf(x, k, base)]
        piece(k) == IF k \in zeros \/ k = 0 \/ \E j \in k .. n - 1 : buf[j] # 0
                      THEN <<Digit(buf[k])>>
                    ELSE IF k < width THEN <<32>> ELSE << >>
    IN  FlattenSeq([i \in 1 .. n |-> piece(n - i)])

print_i64(x, spec) ==
    (IF x < 0 THEN <<45>> ELSE IF 43 \in spec.flags THEN <<43>> ELSE << >>)
        \o Laid(IF x < 0 THEN Negated(x) ELSE x, NumLen, 10, 0 .. spec.precision - 1, spec.width)

\* The hexadecimal digits of x as an unsigned number; the digits above 9 keep
\* their value here.  The loop counts down, so that the precision keeps the
\* leftmost zeros and not the rightmost.
print_u64_hex(x, spec) ==
    (IF 35 \in spec.flags THEN <<48, 120>> ELSE << >>)
        \o Laid(IF x < 0 THEN x - 2 * IntMin ELSE x, HexLen, 16,
                HexLen - spec.precision .. HexLen - 1, 0)

\* The text of one conversion; X and % print nothing.
Converted(spec, x) ==
    CASE spec.convspec \in {100, 117} -> print_i64(x, spec)
      [] spec.convspec \in {120, 112} -> print_u64_hex(x, spec)
      [] spec.convspec = 99 -> <<x>>
      [] spec.convspec = 115 -> <<x, x>>        \* a string of two characters
      [] OTHER -> << >>

\* printk from offset c, with x for every argument.  A conversion that does not
\* parse leaves fmt NULL: the loop goes on at address 0.
RECURSIVE Text(_, _, _)
Text(f, c, x) ==
    IF At(f, c) = NUL THEN [text |-> << >>, lost |-> FALSE]
    ELSE IF At(f, c) # 37
      THEN LET rest == Text(f, c + 1, x) IN [rest EXCEPT !.text = <<At(f, c)>> \o @]
    ELSE LET p == parse_conversion(f, c) IN
         IF p.end = NULL THEN [text |-> <<Colour, Plain>>, lost |-> TRUE]
         ELSE LET rest == Text(f, p.end, x) IN
              [rest EXCEPT !.text = <<Colour>> \o Converted(p.spec, x) \o <<Plain>> \o @]

printk(f, x) == Text(f, 0, x)

-----------------------------------------------------------------------------
(* References. *)

\* The value of a run of decimal digits.
Decimal(s) == FoldLeft(LAMBDA v, ch : 10 * v + ch - 48, 0, s)
AllIn(s, P(_)) == \A i \in DOMAIN s : P(s[i])

\* The conversions that the comment before parse_conversion describes,
\* %[flags][field_width][.precision][length modifier]convspec, with parts of up
\* to n characters out of a set, and what they mean.  A 0 before the field width
\* is a flag.
Grammar(chars, n) ==
    LET Words(P(_)) == UNION {[1 .. k -> {c \in chars : P(c)}] : k \in 0 .. n}
        digits == Words(char_is_digit)
        mods == {<< >>, <<104>>, <<104, 104>>, <<108>>, <<108, 108>>, <<122>>}
    IN  {[str |-> <<37>> \o flags \o width \o precision \o lenmod \o <<convspec>>,
          spec |-> [flags |-> ToSet(flags) \cup (IF convspec = 112 THEN {35} ELSE {}),
                    width |-> Decimal(width),
                    precision |-> IF convspec = 112 THEN 16 ELSE Decimal(SubSeq(precision, 2, Len(precision))),
                    lenmod |-> lenmod, convspec |-> convspec]] :
            flags \in Words(char_is_flag),
            width \in {w \in digits : At(w, 0) # 48},
            precision \in {<< >>} \cup {<<46>> \o d : d \in digits},
            lenmod \in {m \in mods : ToSet(m) \subseteq chars},
            convspec \in {c \in chars : char_is_specifier(c)}}

\* Text t, its blanks aside, is a numeral of x >= 0 in the base.
Numeral(t, x, base) ==
    LET digits == SelectSeq(t, LAMBDA ch : ch # 32) IN
    /\ AllIn(SubSeq(t, 1, Len(t) - Len(digits)), LAMBDA ch : ch = 32)
    /\ AllIn(digits, LAMBDA ch : ch - 48 \in 0 .. base - 1)
    /\ digits # << >>
    /\ FoldLeft(LAMBDA v, ch : base * v + ch - 48, 0, digits) = x
=============================================================================
