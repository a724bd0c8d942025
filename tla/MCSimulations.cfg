CONSTANTS
  PROCESS_SIZE = 8192
  MEM_SIZE = 4096
  PAGE_SIZE = 1024
  HISTORY = 50
  Workload1 <- MCWorkload1
  Workload2 <- MCWorkload2
  Workload3 <- MCWorkload3
  Workloads <- MCWorkloads
SPECIFICATION Spec
INVARIANTS PagingTypeOK OneToOne PlainKeepsTheFirst FollowsPolicy LruKeepsMore TestCases
