\* See README.md, "Runs".
SPECIFICATION Spec
CONSTANTS
    None = None
    Tokens = {"T1", "T2"}
    hardwarePins <- SomeHardware
    propertyPins <- SomeProperties
    kegIdentifyingPins = {"amount_left"}
    includeUnknown = TRUE
    HeaderSize = 3
    MaxBodySize = 4
    readBufferSize = 14
    Streams <- SomeStreams
    MaxConnections = 2
INVARIANT BufferBounded
PROPERTY StreamTakenInOrder
CHECK_DEADLOCK FALSE
