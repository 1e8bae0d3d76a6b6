SPECIFICATION PersistenceSpec
CONSTANTS
    MaxChanges = 5
    FaultChanges = 2
    MaxFaults = 1
    Uuids <- MCUuids
    Texts <- MCTexts
    Now <- MCNow
INVARIANTS
    PersistenceTypeOK
    LoadNeverRunsOver
PROPERTIES
    SavedIsRestored
    TornFileIsAPrefix
