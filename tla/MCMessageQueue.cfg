\* Two callers of get_sample, a queue of two, five samples put.
SPECIFICATION MQSpec
CONSTANTS
    Consumers = {c1, c2}
    MaxQueueSize = 2
    MaxProduced = 5
    MaxVersion = 1
SYMMETRY ConsumerSymmetry
INVARIANTS QueueIsNewestSuffix Accounting NoLostWakeup
