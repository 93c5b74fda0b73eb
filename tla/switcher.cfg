\* Two accounts, two slots, two concurrent commands, one renewal of each
\* account.  Rescue copies meet only where two are the same login, so one at a
\* time shows what a claim, a purge and a switch do to it.  A live file that is
\* missing is as good as an unusable one to every step; it is there to begin
\* with.
SPECIFICATION Spec
CONSTANTS
    Processes = {p1, p2}
    Accounts = {a, b}
    Slots = {1, 2}
    MaxVersion = 2
    MaxStash = 1
    Leavings = {"unusable", "odd"}
    NoAccount = NoAccount
    NoProcess = NoProcess
SYMMETRY Symmetry
VIEW View
INVARIANTS
    TypeOK
    ActiveIsLive
PROPERTIES
    
    SwitchKeepsNewest
    LiveNeverGoesBack
