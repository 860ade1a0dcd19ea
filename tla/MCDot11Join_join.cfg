SPECIFICATION Spec
CONSTANTS
    a1 = a1  a2 = a2  f = f
    Aps = {a1, a2, f}
    OwnSsid = {a1, a2}
    QosAps = {a2}
    NChannels = 3
    Listenable = {1, 2}
    Home <- MCHome
    None = None
    Configured = {"", "DISABLED", "PASSIVE", "ACTIVE"}
    MaxAnswers = 1
    MaxOut = 1
INVARIANTS NoRefusedJoin ServedWhenJoined OnItsChannel ScanCovers
           NeverForgotten DaemonKnowsAp PassiveAsksOwnNetwork
PROPERTY JoinsInTheEnd
