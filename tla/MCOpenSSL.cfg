SPECIFICATION MCSpec
CONSTANTS
    \* two certificates with a key each, a revocation list and a key that a
    \* caller loads by itself; three variables hold a chain of two and a list,
    \* or copies of one object
    Certs = {"c1", "c2"}
    Crls = {"l1"}
    Keys = {"k1", "k2"}
    KeyOf <- MCKeyOf
    Slots = {"v1", "v2", "v3"}
    Blocks = {"b1", "b2", "b3"}
    MaxCalls = 4
    \* three objects, so that one is made while another is alive and a third
    \* ends; five constructor calls, so that failed ones are repeated
    Objects = {"o1", "o2", "o3"}
    MaxMade = 5
INVARIANTS
    ReturnChecksAreRight
    OwnershipIsSound
    EngineIsSharedSoundly
