\* Four jobs, two of them on one host: either quota can be the one that
\* refuses a job.  Recovery reads pages of two rows.
CONSTANTS
  N = 4
  HostOf <- FirstShared
  MaxTotalJobs = 2
  MaxJobsPerHost = 1
  BatchSize = 2
SPECIFICATION FairSpec
INVARIANTS
  QuotasExact
  StoreOpenWhileUsed
  ShutdownComplete
  UnfinishedSupervised
PROPERTIES
  ShutdownEnds
