SPECIFICATION MCSpec
INVARIANTS
    
    InputTrue
    RingsAgree
    

    
CHECK_DEADLOCK FALSE
