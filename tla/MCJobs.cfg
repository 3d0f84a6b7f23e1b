SPECIFICATION Spec
INVARIANTS
    ReactionsRunOnce
    FollowsResolution
    CombinatorsAgree
    AnswersInOrder

    
CHECK_DEADLOCK FALSE
