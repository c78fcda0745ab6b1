SPECIFICATION FairSpec
CONSTANTS
    Agents = {a1, a2}
    Rooms = {r1}
    NoRoom = NoRoom
    Ceo = ceo
    Founder = founder
    Budget = 1
    More = 1
    MaxMessages = 4
    Scenarios <- AllScenarios
INVARIANTS PausedIsReviewed
PROPERTIES LaterPostsWake RunsAgain
CHECK_DEADLOCK FALSE
