SPECIFICATION Spec
CONSTANTS
  Thread = {1, 2, 3, 4}
  Rounds = 2
  QueueThread = {1, 2, 3}
  capacity = 2
  QueueSetup <- MCQueueSetup
  StackThread = {1, 2, 3}
  Address = {a1, a2, a3}
  Null = Null
  Freed = Freed
  StackSetup <- MCStackSetup
  Enqueuer = {1, 2}
  Dequeuer = {3, 4}
  Calls = 2
INVARIANTS TypeOK DataRaceFree NoLostAddition Published LoneSidesNeverLapped
  NodesHaveOneHolder
PROPERTIES ImplementsFifoQueue ImplementsLifoStack Termination
