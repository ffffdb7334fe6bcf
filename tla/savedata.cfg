SPECIFICATION FairSpec
CONSTANTS
    v1 = v1
    v2 = v2
    Values = {v1, v2}
    Erased = Erased
    Zero = Zero
    Junk = Junk
    Nil = Nil
    Stale = Stale
    Threshold = 1
    Sessions <- Sane
INVARIANTS TypeOK NoBadFlashState BankIsMapped UnsyncedIsDirty
PROPERTIES FramesUnseen LoadRestores SaveKept SavesReachDisk
