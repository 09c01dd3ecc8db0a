\* A decision made while the bootstrap is under way (connected_outbox.rs 129).
SPECIFICATION Spec
CONSTANTS
    Groups = {1}
    MaxDecisions = 2
    MaxOthers = 0
CHECK_DEADLOCK FALSE
INVARIANT CarriedByBootstrap
