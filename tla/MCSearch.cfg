CONSTANTS
    None = None
    Zones <- MCZones
    FirstHour <- MCFirstHour
    LastHour <- MCLastHour
    SearchHours <- MCSearchHours
    Row = {1, 2, 3}
    Kinds <- MCKinds
    Orders <- MCOrders
    Limits = {2}
    Phrases = {"today"}
    Tags = {"pdf", "image/"}
    Candidates = 2
SPECIFICATION Spec
INVARIANT SearchKeepsTheBest
PROPERTY PhrasesMatchTheCalendar
