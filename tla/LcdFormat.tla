----------------------------- MODULE LcdFormat -----------------------------
(***************************************************************************)
(* The conversions of LCD_printf (hd44780.c).  A call's format, with its   *)
(* arguments, is a sequence of items: a character to be shown as it is, or *)
(* a conversion and its argument.  Texts are sequences of character codes. *)
(*                                                                         *)
(* A Bug... operator is a mistake the definition after it could hold.      *)
(***************************************************************************)
EXTENDS Integers, Sequences

Zero == 48
Point == 46
Minus == 45

Lit(c) == [kind |-> "c", arg |-> c]
Str(t) == [kind |-> "s", arg |-> t]
Dec(x) == [kind |-> "d", arg |-> x]

\* Of a %f, arg is the int LCD_printf finds and value the number that is meant, in
\* thousandths.  The code's own convention is to pass an int of thousandths; of a
\* double, which the README allows, va_arg(arg, int) finds any int.
Double(v, x) == [kind |-> "f", arg |-> x, value |-> v]
Fix(x) == Double(x, x)

-----------------------------------------------------------------------------
\* C's int, and its x / 10 and x % 10.
INT_MAX == 2147483647
int == -INT_MAX - 1 .. INT_MAX
Quotient(x) == IF x >= 0 THEN x \div 10 ELSE -((-x) \div 10)
Remainder(x) == x - 10 * Quotient(x)

\* intToStr: '0' + x % 10 for each digit, the last digit first; then reversed.
intToStr[x \in int] ==
  (IF Quotient(x) = 0 THEN <<>> ELSE intToStr[Quotient(x)]) \o <<Zero + Remainder(x)>>

Zeros(n) == [i \in 1 .. n |-> Zero]

BugPadToThree(x) ==
  LET t == Zeros(3 - Len(intToStr[x])) \o intToStr[x]
  IN  SubSeq(t, 1, Len(t) - 3) \o <<Point>> \o SubSeq(t, Len(t) - 2, Len(t))

\* doubleToStr: at least four digits, with a point before the last three.
doubleToStr(x) ==
  LET t == Zeros(4 - Len(intToStr[x])) \o intToStr[x]
  IN  SubSeq(t, 1, Len(t) - 3) \o <<Point>> \o SubSeq(t, Len(t) - 2, Len(t))

Converted(item) ==
  CASE item.kind = "c" -> <<item.arg>>
    [] item.kind = "s" -> item.arg
    [] item.kind = "d" -> intToStr[item.arg]
    [] item.kind = "f" -> doubleToStr(item.arg)

\* The loop of LCD_printf over the first n items.
LCD_printf(items) ==
  LET text[n \in 0 .. Len(items)] ==
        IF n = 0 THEN <<>> ELSE text[n - 1] \o Converted(items[n])
  IN  text[Len(items)]

-----------------------------------------------------------------------------
\* What the standard printf makes of it, digit by digit: %d, and %f with the three
\* digits the README names.

Power(k) == 10 ^ k
Digit(x, k) == Zero + ((x \div Power(k)) % 10)
Fits(x, n) == x < Power(n) /\ (n = 1 \/ x >= Power(n - 1))
Length(x) == CHOOSE n \in 1 .. 10 : Fits(x, n)
Digits(x, n) == [i \in 1 .. n |-> Digit(x, n - i)]
Decimal(x) == Digits(x, Length(x))
Sign(x) == IF x < 0 THEN <<Minus>> ELSE <<>>
Abs(x) == IF x < 0 THEN -x ELSE x

Standard(item) ==
  CASE item.kind = "c" -> <<item.arg>>
    [] item.kind = "s" -> item.arg
    [] item.kind = "d" -> Sign(item.arg) \o Decimal(Abs(item.arg))
    [] item.kind = "f" -> Sign(item.value) \o Decimal(Abs(item.value) \div 1000)
                          \o <<Point>> \o Digits(Abs(item.value) % 1000, 3)

printf(items) ==
  LET text[n \in 0 .. Len(items)] ==
        IF n = 0 THEN <<>> ELSE text[n - 1] \o Standard(items[n])
  IN  text[Len(items)]
=============================================================================
