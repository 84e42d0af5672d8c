SPECIFICATION FairSpec
CONSTANTS
    Unset = Unset
    Country = {Unset, se, us}
    MaxChanges = 3
    MaxErrors = 2
INVARIANTS TypeOK RetryPending CountryServed
PROPERTY Returns
CHECK_DEADLOCK FALSE
