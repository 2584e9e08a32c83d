SPECIFICATION Spec
CONSTANTS
  HeapKey = {1, 2, 3}
  HeapCapacity = 6
  CacheEntry <- MCCacheEntry
  CacheNode = {n1, n2, n3, n4}
  Capacities = {0, 1, 2, 3}
  SkipEntry <- MCSkipEntry
  SkipNode = {n1, n2, n3}
  max_level = 3
  Word <- MCWord
  AvlEntry <- MCAvlEntry
  MaxNodes = 5
  RBEntry <- MCRBEntry
  Size = {0, 1, 2}
  Limit = 10
  SortValue = {1, 2, 3}
  SortSize = 5
  Numbers <- MCNumbers
  head = head
  header = header
  NULL = NULL
  Freed = Freed
INVARIANTS HeapIsPriorityQueue CacheKeepsRecency SkipListKeepsMap TrieInventsNothing
  SearchTreesKeepKeys BlocksApart AlgorithmsCompute
CHECK_DEADLOCK FALSE
