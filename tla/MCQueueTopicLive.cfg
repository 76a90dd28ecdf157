SPECIFICATION FairTopicSpec
CONSTANTS
    Publishers = {p1}
    Lengths = {1}
    NoMsg = NoMsg
    MinCapacity = 1
    MaxCapacity = 1
    PipeHwm = 1
    MaxSent = 2
    Relaxed = FALSE
    Push = Push
    Pub = Pub
    Pullers = {a, b}
    Subscribers = {}
    Clients <- MCClients
    Sockets <- MCSockets
    SocketOf <- MCSocketOf
    Hwm = 1
    Uint32 = 8
    MaxEvents = 1
PROPERTY DrainsIfPullerStays
