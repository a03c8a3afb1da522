CONSTANTS
    r1 = r1
    r2 = r2
    r3 = r3
    Record = {r1, r2, r3}
    Kind = {"bitrix24", "moysklad", "facebook_ads", "payme_uz", "click_uz", "uzum_market", "didox"}
    PageSize = 2
    MaxTries = 2
    Days = 1
    LastDay = 4
    DocTypes = 2
    DocType <- TwoTypes
    MaxChanges = 2
SPECIFICATION Spec
INVARIANTS
    TypeOK
    SweepComplete
    NothingLeftBehind
PROPERTIES
    LoopsAdvance
    RunsEnd
CHECK_DEADLOCK FALSE
