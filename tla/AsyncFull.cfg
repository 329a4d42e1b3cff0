SPECIFICATION FairSpec
CONSTANTS
    Tasks = {t1, t2, t3}
    NumSlots = 2
PROPERTY FindsEmptySlot
