CONSTANTS
  Conns = {c1, c2, c3}
  MaxDepth = 2
  MaxSent = 3
SPECIFICATION QueueSpec
INVARIANTS DepthBounded DeliveryInOrder
