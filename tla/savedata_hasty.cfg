SPECIFICATION Spec
CONSTANTS
    v1 = v1
    v2 = v2
    Values = {v1, v2}
    Erased = Erased
    Zero = Zero
    Junk = Junk
    Nil = Nil
    Stale = Stale
    Threshold = 1
    Sessions <- Hasty
PROPERTIES SaveKept
