CONSTANTS
    MaxAsked = 1
    MaxIntro = 2
SPECIFICATION Spec
INVARIANTS
    TypeOK
    DeliveredAsRouted
    ReplyToRequester
    DropNeedsRace
    IntroSafe
