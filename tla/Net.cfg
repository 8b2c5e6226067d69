SPECIFICATION Spec
CONSTANTS
    RXN = 2
    STASH_MAX = 2
    BUDGET = 2
    Plain <- Requests
    Mixed <- Program
    Modulus = 64
    ISN = 0
    ISNStep = 16
    ClientISN = 20
    ReqLen = 2
    SHORT = 1
    LONG = 3
    INFLIGHT = 2
    RETRIES = 1
    MANY = 2
    FEW = 1
    Image <- Kernels
    CAP = 2
    PICTURES = 2
    ROWS = 2
    SAMPLES = 1
    CHUNK = 2
    YIELDS = 2
    Buf = {"b1", "b2"}
    Addr = {"p", "q", "r"}
    Hw = {"h"}
    ARP_NENTRY = 2
    ARP_NTHRWAIT = 2
    ARP_MAX_LOOKUP = 2
    ARP_NQUEUE = 1
    ICMP_NQUEUE = 1
    TTL_UNRESOLVED = 0
    TTL_RESOLVED = 1
    MTU = 60
    HDR = 20
    IpLen = {200}
    MAXTIME = 2
    RING = 2
    TXN = 2
    INDEX = 8
    LeftAt = {0, 3}
    LINKPOLLS = 2
    Temps <- Degrees
    ARRIVALS = 4
    SENDS = 3
    TICKS = 4
    Station = {"a", "b", "c"}
    AODV_NRT = 3
    SEEN = 8
    TRIES = 2
    Want <- TwoToOne
    MAXREQ = 2
    Board = {"a", "b"}
    Firer = {"a"}
    Virtual = {"v"}
    Fid = {1, 2}
    MN_MAXKNOWN = 4
    MAXSEQ = 2
INVARIANTS  TcpExact RoutesSound BuffersOwned MeshSound
 
CHECK_DEADLOCK FALSE
