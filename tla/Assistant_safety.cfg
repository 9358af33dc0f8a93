SPECIFICATION AssistantSpec
CONSTANTS
    Suggestions = {s1}
    Statuses = {"dismissed"}
    Senders = {1, 2}
    Slots = 1
    Window = 1
    Newest = 1
    MaxDays = 1
    MaxFacts = 1
    MaxEdits = 1
    MaxChanges = 2
    MaxRestarts = 1
    None = None
CHECK_DEADLOCK FALSE
INVARIANTS AssistantTypeOK AnswersAreCurrent
PROPERTIES EverythingEnds
