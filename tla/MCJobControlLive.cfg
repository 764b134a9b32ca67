SPECIFICATION FairSpec
CONSTANTS
  Jobs = {j1}
  OtherRequests = {}
  NodeCapacity = 1
PROPERTIES
  SupervisedJobsEnd
