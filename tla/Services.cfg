SPECIFICATION Spec
CONSTANTS
    i1 = i1  i2 = i2  s1 = s1  s2 = s2  u1 = u1  u2 = u2
    Parts <- EachAlone
    Hooks = {h}
    HookEvents = {completed, failed}
    Firings = {f1, f2}
    MaxAttempts = 3
    NoHook = NoHook
    Instances = {i1, i2}
    Sockets = {s1, s2}
    People = {u1, u2}
    Halls = {w}
    News = {n}
    AsksAtOnce = 1
    Nobody = Nobody
    WalletCalls = {r1, r2, r3, r4}
    Customers = {c}
    Coins = {eur, gbp}
    Sums = {1, 2}
    PrimarySums = {0}
    WalletCap = 3
    NoProfile = NoProfile
    Lookups = {l1, l2}
    Days = {0, 1}
    ApiKey = TRUE
    KeyCounts = {1, 2, 3, 4}
    Turns = {t1, t2}
    HistoryLimit = 4
    MaxSessions = 2
    PoolMin = 2
    MaxReconnects = 3
    MaxConnections = 4
SYMMETRY NameSymmetry
CHECK_DEADLOCK FALSE
INVARIANTS
    WebhooksSound
    RetriedAlike
    PersonalNews
    RealtimeSound
    WalletsSound
    KeepsTrying
    BrokerSound
    LookupsSound
    AiClientsSound
