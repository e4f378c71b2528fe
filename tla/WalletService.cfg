SPECIFICATION ServiceSpec
CONSTANTS
    c1 = c1
    c2 = c2
    Callers = {c1, c2}
    Ops = {"start", "stop", "switch", "rescan", "import", "background", "restart"}
    MaxCalls = 4
    w1 = w1
    w2 = w2
    p1 = p1
    p2 = p2
    r1 = r1
    NoWallet = NoWallet
    NoPhrase = NoPhrase
    Wallets = {w1, w2}
    Phrases = {p1, p2}
    FirstPhrase = p1
    Readers = {r1}
    MaxChanges = 1
    MaxFaults = 2
SYMMETRY ServiceSymmetry
INVARIANTS
    OneOwner
    TaskRegistered
    NoStaleKeySnapshot
    StopWins
    OnePassphrase
    ListedComplete
    HandlesCurrent
CHECK_DEADLOCK FALSE
