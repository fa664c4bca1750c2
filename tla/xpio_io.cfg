SPECIFICATION XpioSpec
CONSTANTS
  filter = filter
  printer = printer
  server = server
  Call = {filter, printer, server}
  InLen <- Inputs
  MaxOut <- Outputs
  Filter = {filter}
  Ending = {filter, printer}
  Capacity = 1
  BufferSize = 1
  Chunk = 1
  MaxFd = 3
  Nil = Nil
  client = client
  other = other
  None = None
  Task = {server, client, other}
  Calls <- Roles
  Obj = {1, 2, 3}
  SocketFd = {1, 2, 3}
  File = {4, 5, 6, 7}
  Length = 2
  MaxWrites = 1
  Exclusive = TRUE
INVARIANTS ChildGetsFdmap CallComplete OwnsDescriptor StreamIntact WaitersWoken
PROPERTIES CallsEnd
