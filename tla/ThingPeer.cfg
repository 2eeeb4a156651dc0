SPECIFICATION FairSpec
CONSTANTS
    NONE = NONE
    Loop = {l1, l2}
    Task = {t1, t2}
    Channel = {d1, d2}
INVARIANT ToldOfTask
INVARIANT OneTask
INVARIANT DisconnectFinal
INVARIANT ListedOpen
INVARIANT IInv
PROPERTY AttemptSettles
PROPERTY LoopsEnd
