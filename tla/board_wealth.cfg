\* Three seats, a wealth target, every kind of space, doubles and rents.
CONSTANTS
    MinPlayers = 2
    MaxPlayers = 3
    StartingMoney = 3
    Victory = "target_wealth"
    TargetWealth = 5
    RoundLimit = 0
    Board <- MixedBoard
    PassingGoBonus = 1
    DoublesExtraRoll = TRUE
    MaxDoublesStreak = 2
    Dice <- ShortThrows
    MaxRound = 2
SPECIFICATION Spec
INVARIANTS
    TypeOK
    Solvent
    HoldingsAreActive
    TurnNeverStranded
    BuyOfferStands
    OneHost
    LegalActionsExact
    WinnerJustified
PROPERTIES
    EliminationIsFinal
    NobodySkipped
CHECK_DEADLOCK FALSE
