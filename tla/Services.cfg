SPECIFICATION Spec
INVARIANTS PartsTyped    
 
\* The bounds let every part come to an end.
CHECK_DEADLOCK FALSE
