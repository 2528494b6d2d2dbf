SPECIFICATION AttemptFair
CONSTANTS
    Exchanges <- LostBody
    Capacity = 1
INVARIANT RequestWhole
