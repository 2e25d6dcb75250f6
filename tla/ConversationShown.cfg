\* A regenerated answer to an older turn, one caller and nothing going wrong.
SPECIFICATION ConversationSpec
CONSTANTS
    Callers = {q1}
    NoCaller = NoCaller
    Keys = {t1, t2}
    NoKey = NoKey
    Window = 2
    MaxRequests = 3
INVARIANTS
    AnswersUnderOwnTurn
CHECK_DEADLOCK FALSE
