\* A request the lane answers itself and one that needs the database.
CONSTANTS
  Requests = {echo, save}
  DbRequests = {save}
SPECIFICATION Spec
INVARIANT AnsweredBeforeClose
CHECK_DEADLOCK FALSE
