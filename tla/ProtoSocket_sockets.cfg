\* Two TCP sockets that connect, listen and accept into each other, and whose users cease at last.
CONSTANTS
  Sockets = {1, 2}
  Generics = {}
  SocketStreams = {a, b}
  Fds = {3, 4}
  None = None
  Protocols = {"TCP"}
  Attached = {1, 2}
  Careful = TRUE
  Calls = {"close", "connect", "listen", "accept", "disconnect", "cease"}
SPECIFICATION FairSpec
  
PROPERTIES CallsFit ReadyServed
CHECK_DEADLOCK FALSE
