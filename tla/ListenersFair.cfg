CONSTANTS
    Sockets = {1, 2}
    Workers = {w1, w2}
    w1 = w1
    w2 = w2
    MaxBacklog = 1
SPECIFICATION Spec
PROPERTY SocketServiced
