SPECIFICATION Spec
CONSTANTS
    Files = {f1, f2, f3, f4}
    None = None
    MaxEvents = 2
    IdleLimit = 1
SYMMETRY FilesSymmetry
INVARIANTS
    TypeOK
    EventsConserved
    EventsInOrder
    FieldsAgree
    LogsBelongToRecordings
    SnapshotShowsFirstEvent
    DeviceAgrees
PROPERTIES
    ImplementsSession
