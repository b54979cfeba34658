SPECIFICATION Spec
CONSTANTS
  NumSigners = 3
  Threshold = 2
  Faulty = {3}
  Enrollment = {e1, e2}
  Overlong = {e2}
  Batch = 1
  MaxRestarts = 1
INVARIANT OneAtATime
INVARIANT HonestNeverBanished
 
PROPERTY SignersReturn
CHECK_DEADLOCK FALSE
