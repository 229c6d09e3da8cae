SPECIFICATION KVSpec
CONSTANTS
    Key = {2, 3, 4, 5, 6, 7}
    Value <- StoredValue
    NoValue = NoValue
    Null = Null
    MAX_LEVEL = 3
    KeyPart = {"a", "b", "c"}
    MorePart = "x"
    ValuePart = "v"
VIEW StoreView
PROPERTY ColonKeysAnsweredTruly
