\* Three threads; three first pictures; four faults or overlaps.
CONSTANTS
    Threads = {t1, t2, t3}
    Keys = {k1, k2, k3}
    NoKey = NoKey
    MaxDamage = 4
SPECIFICATION Spec
SYMMETRY Symmetry
INVARIANTS TypeOK DamageIsPaid
PROPERTIES PictureShows OwnChangeShows
