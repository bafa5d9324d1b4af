SPECIFICATION MCSpec
CONSTANTS
    p1 = p1
    p2 = p2
    r1 = r1
    Threads = {t1, t2, t3}
    Proxies = {p1, p2}
    Runtimes = {r1, r2}
    Loaders = {l1}
    None = None
    Nobody = Nobody
    Home <- MCHome
    OnLoads <- MCOnLoads
    Callers = {}
    Borrowers = {b1}
    Carriers = {c1, c2}
    Signalled = {}
    Service = service
    MaxIds = 3
PROPERTIES
    AnswersAgree
    LoadsReturn
    CommandsAnswered
    BorrowWoken
    ReleasedExits
    SignalsDelivered
