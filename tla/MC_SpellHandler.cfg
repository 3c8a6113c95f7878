\* Two gifts in three slots (a symmetry set), one without its row: gifts opened twice, swapped
\* while their query runs, saved, logged out and lost in a server stop.
CONSTANTS
    i1 = i1
    i2 = i2
    Wrapper = wrapper
    wrapper = wrapper
    Items <- MC_Items
    sl1 = sl1
    sl2 = sl2
    sl3 = sl3
    Slots <- MC_Slots
    Wrapped0 <- MC_Wrapped0
    Orphans <- MC_Orphans
    LootItems <- MC_Contents
    BindOnUse <- MC_Contents
    MaxQueue = 2
    NoItem = NoItem
    NoRow = NoRow
SPECIFICATION Spec
SYMMETRY MC_SlotSymmetry
INVARIANTS
    GiftKept
    OwnContents
PROPERTIES
    DestroysOnlyOrphans
