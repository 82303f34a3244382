\* The programs that the user sees, side by side.
SPECIFICATION MCSpec
INVARIANTS
    
    
    JobsTrue

    
CHECK_DEADLOCK FALSE
