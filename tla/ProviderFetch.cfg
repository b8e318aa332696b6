CONSTANTS
    Dot = Dot
    Comma = Comma
    Minus = Minus
    Blank = Blank
    Letter = Letter
    Nil = Nil
    Error = Error
    Unparsable = Unparsable
    NonFinite = NonFinite
    Providers = {"BCV", "DolarAPI", "USDT"}
    AttemptTime <- AtOnceOrTimeout
    BcvPages <- Pages
    DolarLists <- Lists
    P2PAnswers <- P2P
    MaxFloat = 160
    Precision = 4
    Bias = 3
    MaxExponent = 8
SPECIFICATION Spec
INVARIANTS
    TypeOK
    WithinBudget
    AllRatesOrError
    GoodAnswersSuffice
    EveryOfferCounts
    ReadAsWritten
CHECK_DEADLOCK FALSE
