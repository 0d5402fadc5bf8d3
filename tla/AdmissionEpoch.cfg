SPECIFICATION FairEpochSpec
CONSTANTS
    Instances = {i1, i2}
    Nobody = Nobody
    NoControl = NoControl
    Generations <- MCGenerations
    Faults = 1
    Switches = 2
PROPERTIES NoLatePublisher NeverStartedOver OpenNamespaceKept Reopens
