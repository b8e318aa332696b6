---------------------------- MODULE MCProviderFetch ----------------------------
(* Instances of ProviderFetch for TLC. *)
EXTENDS ProviderFetch

\* The client's timeout, or at once.
AtOnceOrTimeout == {0, 10}

\* Every text of fives and separators of up to five characters, and some with others:
\* with a precision of four bits amounts are rounded from two digits on, those below
\* 1/16 are zero and those above 480 out of range.
Texts == BoundedSeq({5, Dot, Comma}, 5)
         \union {<<1, Blank, 0, 5, Comma, 0>>, <<0, Comma, 0, 5>>, <<0, Comma, 0, 7>>, <<0, Dot, 0>>,
                 <<Letter, Blank, 5>>, <<Minus, 5>>, <<Letter>>}

Strong(text) == [strong |-> text, text |-> <<Letter>> \o text]
Dates == {<<29, 2, 2028>>, <<29, 2, 2026>>, <<13, 7, 2026>>, <<32, 7, 2026>>, <<1, 0, 2026>>, <<>>}

\* Pages with any amount in dollars, and pages that lack or misplace something.
Pages ==
    [dolar : {Strong(text) : text \in Texts}, euro : {Strong(<<5, Comma, 5>>)},
     single : {<<13, 7, 2026>>}, fecha : {Nil}]
    \union
    [dolar : {Nil, [strong |-> <<Blank>>, text |-> <<5, Comma, 0>>], [strong |-> <<>>, text |-> <<>>]},
     euro : {Nil, Strong(<<5, Comma, 5>>), Strong(<<0, Comma, 0>>)},
     single : {Nil} \union Dates, fecha : {Nil} \union Dates]

Entries == [moneda : {"USD", "EUR", "USDT"}, promedio : {0, 7}]
Lists == BoundedSeq(Entries, 3)

\* Offers without a price, with one that does not count, and with one near the limit.
P2P ==
    {[success |-> TRUE, data |-> data] :
        data \in {<<>>, <<Unparsable>>, <<NonFinite>>, <<2>>, <<1, 0, 2>>, <<Unparsable, 100>>}}
    \union {[success |-> FALSE, data |-> <<>>]}
================================================================================
