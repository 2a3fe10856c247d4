CONSTANT MaxRevision = 2
SPECIFICATION LiveSpec
INVARIANTS TypeOK RenewalNeverLost RequestsHonoured FailureIsSticky
PROPERTIES CheckProvesBinding MaintenanceSettles
