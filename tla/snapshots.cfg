SPECIFICATION Spec
CONSTANTS
    Node <- MCNode
    Slot <- MCSlot
    HomeOf <- MCHomeOf
    Specs <- MCSpecs
    SourceOf <- MCSourceOf
    Contents <- MCContents
    Offers <- MCOffers
    Plans <- MCPlans
    Oversize <- MCOversize
    Outbound = {"online"}
    Importers <- MCImporters
    Keys = {}
    MaxClock = 1
    MaxMoves <- MCMaxMoves
    MaxHex = 2
INVARIANTS ListedIsReadable AnswersAsPublished
PROPERTY RequestsEnd
CHECK_DEADLOCK FALSE
