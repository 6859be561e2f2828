\* Three keys, pages of one, two or all keys, four changes by others.
SPECIFICATION FairSpec
CONSTANTS
    k1 = k1  k2 = k2  k3 = k3  a = a  b = b
    Byte = {a, b}
    Key = {k1, k2, k3}
    Texts <- MCTexts
    Patterns <- MCPatterns
    Counts = {1, 2, 5}
    MaxChanges = 4
INVARIANTS OnePageIsExact PagesTile RangeIsExact
PROPERTY IterationEnds
