----------------------------- MODULE MCProtoSocket -----------------------------
EXTENDS ProtoSocket, TLC

\* Streams of sockets are alike, and so is the pool whatever its order.
StreamsSymmetry == Permutations(SocketStreams)
===============================================================================
