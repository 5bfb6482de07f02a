SPECIFICATION FairSpec
CONSTANTS
    c1 = c1
    c2 = c2
    c3 = c3
    Calls = {c1, c2, c3}
    Ops = {"set_target", "begin_set_laser_power", "confirm_center_mask",
           "begin_align_center_mask", "begin_check_mask_center",
           "confirm_mask_center", "begin_adjust_rheed_gain", "set_pressure",
           "auto_align_center_mask", "to_temperature", "confirm"}
INVARIANT
    ClaimExclusive
    OneMoveAtATime
    StashMatchesGate
    MovingTaskShown
    ViewCurrent
PROPERTY
    AnswerClears
    MotionComesBack
    TaskEnds
CHECK_DEADLOCK FALSE
