----------------------------- MODULE ProviderFetch -----------------------------
(***************************************************************************)
(* One GetPrices of a provider (internal/provider): the HTTP requests it   *)
(* makes one after the other, withRetry around each of them (utils.go),    *)
(* and what becomes of the answers.  BCV has one page, DolarAPI one list,  *)
(* Binance two pages of offers for each of two trade types.                *)
(***************************************************************************)
EXTENDS BcvPage

CONSTANTS
    Providers,      \* subset of {"BCV", "DolarAPI", "USDT"}, the names of GetName
    AttemptTime,    \* seconds until an attempt's answer; the HTTP client waits for 10
    BcvPages,       \* pages the bank may show
    DolarLists,     \* sequences of [moneda, promedio] DolarAPI may send
    P2PAnswers,     \* [success, data] Binance may send, data a sequence of prices
    Unparsable,     \* a price that is no number
    NonFinite,      \* a price that is NaN or Inf
    MaxFloat        \* the greatest finite number

ASSUME AttemptTimeAssumption == AttemptTime \subseteq 0..10

ASSUME ProvidersAssumption == Providers \subseteq {"BCV", "DolarAPI", "USDT"}

\* What can be decoded into the structs of the providers, and what the page's parts are.
Characters == (0..9) \union {Dot, Comma, Minus, Blank, Letter}
Containers == [strong : Seq(Characters), text : Seq(Characters)]
Prices == Int \union {NonFinite}

ASSUME AnswersAssumption ==
    /\ \A page \in BcvPages :
         /\ {page.dolar, page.euro} \subseteq Containers \union {Nil}
         /\ {page.single, page.fecha} \subseteq Seq(Int) \union {Nil}
    /\ DolarLists \subseteq Seq([moneda : STRING, promedio : Int])
    /\ P2PAnswers \subseteq [success : BOOLEAN, data : Seq(Prices \union {Unparsable})]
    /\ Unparsable \notin Prices /\ NonFinite \notin Int /\ MaxFloat \in Nat

\* The names of each provider's rates.
Keys == [BCV |-> {"USD_BCV", "EUR_BCV"}, DolarAPI |-> {"USD_BCV", "EUR_BCV"},
         USDT |-> {"USDT", "USDT_BINANCE_SELL", "USDT_BINANCE_BUY"}]

\* A Go error is none of the values that are returned in its place, and no response is nil.
Responses(name) ==
    [values : [Keys[name] -> Int \X Int], date : Seq(Int) \union {Nil}]

ASSUME ErrorAssumption ==
    /\ Error # Nil /\ Error \notin Int \X Int /\ Error \notin Seq(Prices)
    /\ \A name \in DOMAIN Keys : Error \notin Responses(name) /\ Nil \notin Responses(name)

VARIABLES
    provider,    \* whose GetPrices it is
    tries,       \* attempts of the current request that failed
    collected,   \* collectedPrices of the two trade types
    result,      \* what GetPrices has returned; Nil while it runs
    failures,    \* history: attempts that failed
    pages,       \* history: the answers withRetry returned
    elapsed      \* history: seconds since GetPrices was called

vars == <<provider, tries, collected, result, failures, pages, elapsed>>

Init ==
    /\ provider \in Providers
    /\ tries = 0 /\ failures = 0 /\ elapsed = 0
    /\ collected = [SELL |-> <<>>, BUY |-> <<>>]
    /\ result = Nil /\ pages = <<>>

--------------------------------------------------------------------------------
(* withRetry.                                                              *)

\* Variants: one attempt too few, one too many.
TwoAttempts == 2
FourAttempts == 4

maxAttempts == 3

\* The delay after the n-th failed attempt: one second, doubled each time.
delay(n) == 2 ^ (n - 1)

\* fn returns an error: no answer within the client's timeout, another status than 200,
\* a body that cannot be decoded.  The BCV page is parsed inside fn, so a page that
\* cannot be read counts as well.
AttemptFails ==
    /\ result = Nil
    /\ tries' = tries + 1 /\ failures' = failures + 1
    /\ \E seconds \in AttemptTime :
         elapsed' = elapsed + seconds + (IF tries' < maxAttempts THEN delay(tries') ELSE 0)
    /\ result' = IF tries' < maxAttempts THEN Nil ELSE Error
    /\ UNCHANGED <<provider, collected, pages>>

\* fn returns an answer, and withRetry returns it.
AttemptReturns(answer) ==
    /\ result = Nil
    /\ tries' = 0
    /\ \E seconds \in AttemptTime : elapsed' = elapsed + seconds
    /\ pages' = Append(pages, answer)
    /\ UNCHANGED <<provider, failures>>

--------------------------------------------------------------------------------
(* The providers.                                                          *)

\* bcvProvider.go.
BcvAnswers ==
    /\ provider = "BCV"
    /\ \E page \in BcvPages :
         /\ parseBCVRates(page) # Error
         /\ AttemptReturns(page)
         /\ result' = parseBCVRates(page)
    /\ UNCHANGED collected

\* The last entry of a currency is the one that counts.
promedio(list, moneda) == list[SelectLastInSeq(list, LAMBDA e : e.moneda = moneda)].promedio

\* dolarApiProvider.go: both currencies, both positive.
dolarPrices(list) ==
    IF ~ {"USD", "EUR"} \subseteq {e.moneda : e \in ToSet(list)} THEN Error
    ELSE IF promedio(list, "USD") <= 0 \/ promedio(list, "EUR") <= 0 THEN Error
    ELSE [values |-> [USD_BCV |-> <<promedio(list, "USD"), 1>>,
                      EUR_BCV |-> <<promedio(list, "EUR"), 1>>],
          date |-> Nil]

DolarAnswers ==
    /\ provider = "DolarAPI"
    /\ \E list \in DolarLists : AttemptReturns(list) /\ result' = dolarPrices(list)
    /\ UNCHANGED collected

\* getOrders, after its withRetry: the prices that are numbers.  An answer without
\* success or without any such price is an error, and is not asked for again.
appendPrice(response, price) ==
    IF price = Unparsable THEN response ELSE Append(response, price)

orders(answer) ==
    LET response[i \in 0..Len(answer.data)] ==
            IF i = 0 THEN <<>> ELSE appendPrice(response[i - 1], answer.data[i])
        prices == response[Len(answer.data)]
    IN  IF ~ answer.success \/ prices = <<>> THEN Error ELSE prices

\* acc and validCount after one more price, and after all of them.
addPrice(total, price) ==
    IF price # NonFinite /\ price > 0 THEN <<total[1] + price, total[2] + 1>> ELSE total

totalValid(prices) ==
    LET total[i \in 0..Len(prices)] ==
            IF i = 0 THEN <<0, 0>> ELSE addPrice(total[i - 1], prices[i])
    IN  total[Len(prices)]

\* Variant: nothing valid is an average of zero.
averageOrZero(prices) == totalValid(prices)

\* averageValid, as sum and count; a sum beyond the greatest number is infinite.
averageValid(prices) ==
    IF totalValid(prices)[2] = 0 \/ totalValid(prices)[1] > MaxFloat THEN Error
    ELSE totalValid(prices)

\* The end of binanceProvider.go's GetPrices: who wants to sell meets merchants' BUY ads.
binancePrices(all) ==
    LET values == [USDT |-> averageValid(all.SELL \o all.BUY),
                   USDT_BINANCE_SELL |-> averageValid(all.BUY),
                   USDT_BINANCE_BUY |-> averageValid(all.SELL)]
    IN  IF \E key \in DOMAIN values : values[key] = Error THEN Error
        ELSE [values |-> values, date |-> Nil]

\* The requests of getAllOrders, for TypeSell and then for TypeBuy.
p2pRequests == << <<"SELL", 1>>, <<"SELL", 2>>, <<"BUY", 1>>, <<"BUY", 2>> >>

\* Variant: the prices of the last page replace those of the first.
CollectLast(type, prices) == collected' = [collected EXCEPT ![type] = prices]

\* slices.Concat.
Collect(type, prices) == collected' = [collected EXCEPT ![type] = @ \o prices]

BinanceAnswers ==
    /\ provider = "USDT"
    /\ \E answer \in P2PAnswers :
         LET request == p2pRequests[Len(pages) + 1] IN
         /\ AttemptReturns([type |-> request[1], page |-> request[2],
                            success |-> answer.success, data |-> answer.data])
         /\ IF orders(answer) = Error THEN UNCHANGED collected /\ result' = Error
            ELSE /\ Collect(request[1], orders(answer))
                 /\ result' = IF Len(pages') < Len(p2pRequests) THEN Nil
                              ELSE binancePrices(collected')

Next == AttemptFails \/ BcvAnswers \/ DolarAnswers \/ BinanceAnswers

Spec == Init /\ [][Next]_vars

--------------------------------------------------------------------------------
Accepted == result \notin {Nil, Error}

TypeOK ==
    /\ provider \in Providers
    /\ tries \in 0..3 /\ (result = Nil => tries < 3)
    /\ failures \in 0..12 /\ elapsed \in Nat
    /\ Len(pages) <= (IF provider = "USDT" THEN 4 ELSE 1)
    /\ collected \in [{"SELL", "BUY"} -> Seq({NonFinite} \union Int)]
    /\ Accepted => DOMAIN result = {"values", "date"}

\* GetPrices takes at most 33 seconds for each of its requests: three attempts of ten
\* seconds and pauses of one and two.  The worker's schedules are built on that.
WithinBudget == elapsed <= 33 * (IF provider = "USDT" THEN 4 ELSE 1)

\* A response has every rate of its provider, each of them positive, and the BCV's has
\* its date: what Apply and ValidateBCVPublication take for granted.  There is no
\* response with only some of them.
AllRatesOrError ==
    Accepted =>
        /\ DOMAIN result.values = Keys[provider]
        /\ \A key \in Keys[provider] :
             result.values[key] # Error /\ result.values[key][1] > 0 /\ result.values[key][2] > 0
        /\ provider = "BCV" => result.date # Nil

\* The offers that a page is asked for.
rows == 20

\* Fewer than three failed attempts never make GetPrices fail, wherever they fall, as
\* long as every answer holds what it should.
GoodAnswer(page) ==
    CASE provider = "BCV" -> TRUE
      [] provider = "DolarAPI" ->
            \A moneda \in {"USD", "EUR"} :
                /\ \E i \in DOMAIN page : page[i].moneda = moneda
                /\ \A i \in DOMAIN page : page[i].moneda = moneda => page[i].promedio > 0
      [] provider = "USDT" ->
            /\ page.success /\ Len(page.data) <= rows
            /\ \A i \in DOMAIN page.data : page.data[i] \in 0..(MaxFloat \div (4 * rows))
            /\ \E i \in DOMAIN page.data : page.data[i] > 0

GoodAnswersSuffice ==
    (failures < 3 /\ \A i \in DOMAIN pages : GoodAnswer(pages[i])) => result # Error

\* The offers on the pages of some trade types that count: positive numbers.
Offers(types) ==
    {o \in UNION {{i} \X DOMAIN pages[i].data : i \in DOMAIN pages} :
        LET price == pages[o[1]].data[o[2]] IN
        /\ pages[o[1]].type \in types
        /\ price \notin {Unparsable, NonFinite} /\ price > 0}

\* Their sum and their count.
Average(types) ==
    <<MapThenSumSet(LAMBDA o : pages[o[1]].data[o[2]], Offers(types)), Cardinality(Offers(types))>>

\* A Binance rate is the average of all valid offers on all pages it stands for, each
\* counted once: a page that is missing makes an error and never a different average.
EveryOfferCounts ==
    (provider = "USDT" /\ Accepted) =>
        /\ {<<p.type, p.page>> : p \in ToSet(pages)} = {"SELL", "BUY"} \X {1, 2}
        /\ result.values["USDT"] = Average({"SELL", "BUY"})
        /\ result.values["USDT_BINANCE_SELL"] = Average({"BUY"})
        /\ result.values["USDT_BINANCE_BUY"] = Average({"SELL"})

\* What the bank writes in its own format, with and without separators of thousands, is
\* what the service stores, as precisely as a float64 can hold it.
ReadAsWritten ==
    (provider = "BCV" /\ Accepted) =>
        /\ BankFormat(rateText(pages[1].dolar)) =>
             NearestTo(result.values["USD_BCV"], Written(rateText(pages[1].dolar)))
        /\ BankFormat(rateText(pages[1].euro)) =>
             NearestTo(result.values["EUR_BCV"], Written(rateText(pages[1].euro)))
================================================================================
