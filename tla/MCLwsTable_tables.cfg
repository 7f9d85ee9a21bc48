\* A table that grows from 7 to 11 slots, and one capped at two entries and timed.
SPECIFICATION Spec
CONSTANTS
    k1 = k1
    k2 = k2
    k3 = k3
    k4 = k4
    k5 = k5
    None = None
    Setups <- SmallSetups
    Sizes <- SmallSizes
    MaxTime = 2
    Failures <- AnyFailure
INVARIANTS Retrievable OrderSound
PROPERTIES CreatedForLoad ImplementsMap
