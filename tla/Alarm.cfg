\* Three alarms over a 2-bit counter, every delay but the longest.
SPECIFICATION LiveSpec
CONSTANTS
    Alarms = {a, b, c}
    Head = Head
    Null = Null
    WRAP = 4
    Delays <- ShortDelays
    Intervals <- AllIntervals
    MayStop <- AllPairs
INVARIANTS ListSound
PROPERTIES OnlyRegistered KeepsTime
