CONSTANTS
    Tasks = {t1, t2}
    Addresses = {a1}
    HostNames = {h1, h2}
    Urls = {u1}
    Values = {enable, disable}
    ObjectKinds = {"host group", "url group", "rule", "network"}
    MaxEdits = 1
    MaxLate = 1
SPECIFICATION Spec
INVARIANTS
    TypeOK
    OneHostPerAddress
    SlotNotLeaked
PROPERTIES
    Truthful
    AtomicUpdates
