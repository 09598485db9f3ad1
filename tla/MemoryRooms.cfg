CONSTANTS
    main = main
    side = side
    e1 = e1
    e2 = e2
    u1 = u1
    Rooms <- MCRooms
    Main = main
    Body = 1
    Mime = 1
    DataSizes = {1, 4}
    Ceiling = 12
    SoftLimit = 6
    PictureBudget = 5
    MaxMessages = 3
    FadeKeep = 2
    Batch = 1
    MaxReactions = 1
    MaxPosts = 4
    Emojis <- MCEmojis
    Reactors <- MCReactors
SPECIFICATION Spec
INVARIANTS
    TypeOK
    ReactionsBelongToHistory
    TrackerAccounts
    PicturesWithinBudget
