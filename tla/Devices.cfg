SPECIFICATION Spec
CONSTANTS
    FwLen = 6
    NvLen = 3
    RamSize = 10
    SB_XFER = 4
    SB_WSIZE = 8
    BSIZE = 2
    RETRIES = 2
    Ssid = {"home"}
    N = 3
    UNITS = 2
    SLOTS = 2
    SP_GEN = 2
    NoInline = TRUE
    CALLS = 2
    Blocks = 3
    BLKMOD = 65536
    Segments = 3
    HTTP_BUF = 3
    FIFO = 2
    DOWNLOADS = 2
    Server = {"s", "t"}
    Address = {"x", "y"}
    Static = "z"
    TRIES = 2
    Page = {"home", "p"}
    MeshPage = {}
    Host <- AHost
    Css <- ACss
    Segs <- ASegs
    RXCAP = 3
    EVENTS = 2
    CameraPlug <- AtCamera
    KeyboardPlug <- AtKeyboard
    MAXPHASE = 2
    MAXSLOT = 6
    PKTS = 2
    FRAMES = 3
    LOSS = 1
    OPS = 1
INVARIANTS   DiskSound   
CHECK_DEADLOCK FALSE
