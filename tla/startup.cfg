\* Command lines of up to three groups, well formed and not.
SPECIFICATION Spec
CONSTANTS
    OctetMod = 128
    GroupLists <- MCGroupLists
    Default <- MCDefault
INVARIANTS
    SettingsAsGiven
    UsageIfMalformed
    AddressesAsPrinted
CHECK_DEADLOCK FALSE
