SPECIFICATION Spec
CONSTANTS
    MaxParts = 1
    Numbers = {"2", "7"}
    Times = {"8:15 PM"}
    MaxListed = 2
    MaxLines = 2
    Sentinels = {"NO_MEANINGFUL_CHANGE"}
    Openers = {"nothing changed", "no change, but live"}
    Contrasts = {"but it is live", "no change, but live"}
    Watched <- MCWatched
    Entries = {"", "a", "b", "7"}
    MaxEntries = 3
    Games <- MCGames
    Milestones <- MCMilestones
    Percents = {"10", "51"}
    Repositories = {"go/go", "tla/tla"}
    Replies <- MCReplies
    MaxAnnounced = 5
    NoBaseline = NoBaseline
INVARIANTS
    TypeOK
    BaselineIsTheSite
    
    GameAnnouncedOnce
