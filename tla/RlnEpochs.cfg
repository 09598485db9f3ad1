CONSTANTS
    poster = poster
    lurker = lurker
    hi = hi
    bye = bye
    Nothing = Nothing
    Browsers <- TwoBrowsers
    Writers <- OneWriter
    Texts <- TwoTexts
    Refused <- OneRefused
    Skews <- SomeSkews
    Capacity = 2
    MaxEpoch = 2
    MaxIdentities <- TwoAndOne
    MaxQueue = 2
SPECIFICATION Spec
INVARIANTS
    TypeOK
    OneTextPerEpoch
    HonestNeverSlashed
PROPERTY FreshPostAccepted
