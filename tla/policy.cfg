SPECIFICATION FairSpec
CONSTANTS
    NumPlans = 2
    Required <- ThreeAndOne
    Guarded = {2}
    PersistEvery = 2
    Handlers <- OneRequest
    Requested = {"armed"}
    Configured = "disarmed"
    Longest = 3
    Crashes = TRUE
INVARIANT TypeOK
PROPERTIES TriggerProven ArmingRestarts CreditKept HeldTriggerFires
