\* A round limit on a board of three spaces, where one throw may cross go two or three
\* times; a client follows.
CONSTANTS
    MinPlayers = 2
    MaxPlayers = 3
    StartingMoney = 2
    Victory = "round_limit"
    TargetWealth = 0
    RoundLimit = 2
    Board <- TinyBoard
    PassingGoBonus = 1
    DoublesExtraRoll = TRUE
    MaxDoublesStreak = 2
    Dice <- LongThrows
    MaxRound = 5
SPECIFICATION FoldSpec
INVARIANTS
    WinnerJustified
    RollsBounded
    OverrunByLeaveOnly
    ViewAgrees
PROPERTIES
    MatchEnds
CHECK_DEADLOCK FALSE
