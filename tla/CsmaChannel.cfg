SPECIFICATION FairSpec
CONSTANTS
    n_stations = 2
    slot_frame_len = 3
    max_slots = 5
    detect_collisions = TRUE
    Backlogged = {1}
    Faulty = {0}
    Faults = {"wrong slot", "leaves early", "crashes"}
INVARIANTS
    TypeOK
    MetricsAddUp
    ThroughputAndDelayAreBounded
    OneResultPerAttempt
    PoliteStationsStartTogether
PROPERTIES
    ImplementsSlottedMedium
    StationsReleased
