\* The shortest overlap of two mutations.
SPECIFICATION Spec
CONSTANTS
    Mutations = {m1, m2}
    Readers = {}
    Missing = Missing
    Usages <- HastyOnly
INVARIANTS
    CommittedNotClobbered
CHECK_DEADLOCK FALSE
