\* Texts that fit the buffer, and that are one and two characters too long;
\* a USB buffer that fills up in every line, and a client's window that does.
SPECIFICATION FairSpec
CONSTANTS
    Texts <- MCTexts
    Limit = 3
    FifoSize = 2
    Window = 4
    MaxOthers = 3
INVARIANTS TypeOK TextArrives
PROPERTIES PrintEnds
