CONSTANTS
    Request = {r1, r2, r3, r4}
    StandaloneCount = 2
    HybridCount = 1
    CacheSize = 2
SYMMETRY Conversations
SPECIFICATION Spec
INVARIANTS
    CacheCoherent
    CountersHonest
PROPERTIES
    StaysUnlessDisplaced
    StandaloneBalanced
