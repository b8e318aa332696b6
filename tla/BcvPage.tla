------------------------------- MODULE BcvPage -------------------------------
(***************************************************************************)
(* What internal/provider/bcvProvider.go reads off the bank's page.  A     *)
(* text is a sequence of characters: the digits 0..9, Dot, Comma, Minus,   *)
(* Blank for white space and Letter for anything else.  An amount is       *)
(* <<n, d>> for n divided by d.                                            *)
(***************************************************************************)
EXTENDS Integers, SequencesExt

CONSTANTS
    Dot, Comma, Minus, Blank, Letter,   \* characters that are no digits
    Nil,                                \* an element the page does not have
    Error,                              \* a Go error
    Precision, Bias, MaxExponent        \* of a float64: 53, 1074 and 2045

\* The digits are digits, and a comma is nothing else.
ASSUME CharactersAssumption ==
    /\ {Dot, Comma, Minus, Blank, Letter} \intersect (0..9) = {}
    /\ Comma \notin {Dot, Minus, Blank, Letter}

ASSUME FloatAssumption == Precision \in Nat \ {0} /\ Bias \in Nat /\ MaxExponent \in Nat

\* rateText: the first strong element of a container, or else the container's whole
\* text, unless they are empty.
rateText(container) ==
    IF container = Nil THEN Error
    ELSE IF ~ ToSet(container.strong) \subseteq {Blank} THEN container.strong
    ELSE IF ~ ToSet(container.text) \subseteq {Blank} THEN container.text
    ELSE Error

\* Variant: the dot always separates the decimals.
dotBeforeDecimals(raw) == Dot

\* What separates the decimals: a comma if there is one, since the dots are then dropped
\* as separators of thousands, or else a dot.
decimalPoint(raw) == IF Contains(raw, Comma) THEN Comma ELSE Dot

\* strconv.ParseFloat's syntax for the numeric characters: digits around at most one point.
\* With a minus the number is malformed or not positive, an error either way.
IsNumber(raw) ==
    /\ ~ Contains(raw, Minus)
    /\ \E i \in DOMAIN raw : raw[i] \in 0..9
    /\ Cardinality({i \in DOMAIN raw : raw[i] = decimalPoint(raw)}) <= 1

\* One more character: a digit counts a tenth for each digit since the decimal point.
readCharacter(before, raw, i) ==
    IF raw[i] \notin 0..9 THEN before
    ELSE <<10 * before[1] + raw[i],
           IF decimalPoint(raw) \in {raw[j] : j \in 1..(i - 1)} THEN 10 * before[2] ELSE before[2]>>

amount(raw) ==
    LET read[i \in 0..Len(raw)] ==
            IF i = 0 THEN <<0, 1>> ELSE readCharacter(read[i - 1], raw, i)
    IN  read[Len(raw)]

\* The powers of two that a float64 is made of.
twoTo[n \in 0..(Precision + Bias + MaxExponent)] == IF n = 0 THEN 1 ELSE 2 * twoTo[n - 1]

\* n / d to the nearest integer, to the even one of two.
rounded(n, d) ==
    LET rest == 2 * (n % d)
    IN  IF rest > d \/ (rest = d /\ (n \div d) % 2 = 1) THEN (n \div d) + 1 ELSE n \div d

\* A number in units of 2^(k - Bias).
mantissa(number, k) == rounded(number[1] * twoTo[Bias], number[2] * twoTo[k])

\* The float64 nearest to a number: a multiple, of at most Precision bits, of the least
\* unit for which there is one.  A number beyond the greatest unit is out of range.
nearestFloat(number) ==
    LET units == {k \in 0..MaxExponent : mantissa(number, k) < twoTo[Precision]}
    IN  IF units = {} THEN Error
        ELSE <<mantissa(number, Min(units)) * twoTo[Min(units)], twoTo[Bias]>>

\* What rounds to zero is as invalid as a zero.
parseLocalizedNumber(raw) ==
    LET value == nearestFloat(amount(raw))
    IN  IF ~ IsNumber(raw) \/ value = Error \/ value[1] = 0 THEN Error ELSE value

\* The date beside the dollar, or else the one in #fecha.
effectiveDateText(page) == IF page.single # Nil THEN page.single ELSE page.fecha

DaysIn(month, year) ==
    CASE month = 2 -> IF year % 4 = 0 /\ (year % 100 # 0 \/ year % 400 = 0) THEN 29 ELSE 28
      [] month \in {4, 6, 9, 11} -> 30
      [] OTHER -> 31

\* A text is the day, month (0 for no Spanish month) and year it names, or names no
\* date: <<>>.  time.Date would carry a day too many into the next month.
parseEffectiveDate(text) ==
    IF /\ text # <<>> /\ text[2] \in 1..12
       /\ text[1] \in 1..DaysIn(text[2], text[3])
    THEN text ELSE Error

\* parseBCVRates: everything or an error.
parseBCVRates(page) ==
    LET texts == {rateText(page.dolar), rateText(page.euro), effectiveDateText(page)}
        amounts == [USD_BCV |-> parseLocalizedNumber(rateText(page.dolar)),
                    EUR_BCV |-> parseLocalizedNumber(rateText(page.euro))]
        date == parseEffectiveDate(effectiveDateText(page))
    IN  IF texts \intersect {Error, Nil} # {} THEN Error
        ELSE IF Error \in {amounts.USD_BCV, amounts.EUR_BCV, date} THEN Error
        ELSE [values |-> amounts, date |-> date]

--------------------------------------------------------------------------------
(* What a reader of the page sees.                                         *)

\* An amount as the bank writes it: 1.234,56 or 1 234,56.
BankFormat(text) ==
    \E comma \in DOMAIN text :
        /\ text[comma] = Comma /\ comma < Len(text)
        /\ comma > 1 /\ text[1] \in 0..9
        /\ \A i \in 1..(comma - 1) : text[i] \in (0..9) \union {Dot, Blank}
        /\ \A i \in (comma + 1)..Len(text) : text[i] \in 0..9

\* Its value: each digit counts by the number of digits to its right.
Written(text) ==
    LET digits == {i \in DOMAIN text : text[i] \in 0..9}
        RightOf(i) == Cardinality({j \in digits : j > i})
        tenTo[n \in 0..Len(text)] == IF n = 0 THEN 1 ELSE 10 * tenTo[n - 1]
    IN  <<MapThenSumSet(LAMBDA i : text[i] * tenTo[RightOf(i)], digits),
          tenTo[RightOf(SelectInSeq(text, LAMBDA c : c = Comma))]>>

\* A float64 is the nearest to a number if it is off by half a unit in its last place at
\* most: by one part in 2^Precision, or by half of the smallest number.
NearestTo(value, number) ==
    LET a == value[1] * number[2]
        b == number[1] * value[2]
        difference == IF a < b THEN b - a ELSE a - b
    IN  \/ difference * twoTo[Precision] <= a
        \/ value[2] = twoTo[Bias] /\ 2 * difference <= number[2]
================================================================================
