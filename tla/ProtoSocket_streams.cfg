\* One socket, of either protocol, and a descriptor with a callback: all that users can call.
CONSTANTS
  Sockets = {1}
  Generics = {8}
  SocketStreams = {a}
  Fds = {3, 4}
  None = None
  Protocols = {"TCP", "UDP"}
  Attached = {1}
  Careful = TRUE
  Calls = {"open", "unbound", "bind", "close", "disconnect", "connect", "listen", "accept", "shutdown", "send", "recv", "empty", "delete", "create", "pipe", "install", "remove", "output", "input", "listener", "notifier"}
SPECIFICATION Spec
INVARIANTS NotificationFits
PROPERTIES CallsFit
CHECK_DEADLOCK FALSE
