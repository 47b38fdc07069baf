SPECIFICATION MetaSpec
CONSTANTS
    t1 = t1
    t2 = t2
    t3 = t3
    x = x
    x1 = x1
    x2 = x2
    x23 = x23
    Torrents = {t1, t2, t3}
    Names = {x, x1, x2, x23}
    NameOf <- MCNameOf
    Suffixed <- MCSuffixed
    MaxFailures = 2
INVARIANTS
    NamesAreUnique
