\* Three messages, of characters of one byte, of two, and of both in the stream; or a long
\* one of two bytes and two of one.
CONSTANTS
    Readers = {"pipe", "native", "tcp", "ws"}
    Texts <- SomeTexts
    Count = 3
    MaxReads = 2
SPECIFICATION MCSpec
CHECK_DEADLOCK FALSE
INVARIANTS
    NarrowArrive
    WideDamage
