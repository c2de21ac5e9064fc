\* Two tags, each run any number of times, three lists, one consumer.
SPECIFICATION Spec
CONSTANTS
    Tags = {t1, t2}
    MaxLists = 3
    None = None
INVARIANTS
    TypeOK
    ChannelNeverGoesBack
    SuccessLeavesAPair
PROPERTY ConsumerNeverGoesBack
CHECK_DEADLOCK FALSE
