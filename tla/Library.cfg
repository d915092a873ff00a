SPECIFICATION MCSpec
CONSTANTS
    Calls <- MCCalls
    Room = 7
    Half = 32768
    Short = 2
    Radix = 2
    RxBuffer = 2
    Scripts <- MCScripts
    MaxRead = 40
    MaxStops = 2
INVARIANTS
    DeliveredInOrder
    RepliesEcho
    RoundTrip
    OneStory
    BodyDelivered
    HeadersRead
    FormsRead
    JsonRead
PROPERTY FlowResumes
CHECK_DEADLOCK FALSE
