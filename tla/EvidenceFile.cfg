\* Every file of at most eight items.
CONSTANT MaxItems = 8
SPECIFICATION Spec
CHECK_DEADLOCK FALSE
INVARIANT HighNeedsVerification
PROPERTY HighNeverWeakens
