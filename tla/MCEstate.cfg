CONSTANTS
    m1 = m1  r1 = r1  r2 = r2
    None = None
    Messages = {m1}
    Sent = {m1}
    Requests = {r1, r2}
    Wishes <- Moves
    MaxInodes = 2

    north = north  south = south  post = post  ann = ann
    DomainNames = {north, south}
    Locals = {post, ann}
    SystemLocals <- OneSystemMailbox
    Super = Super
    Elsewhere = Elsewhere
    MaxListed = 1
    MaxTenants = 2
    MaxDomains = 2
    MaxUsers = 2
    MaxEdits = 3

    ours = ours  theirs = theirs  host = host  alias = alias  a1 = a1  a2 = a2
    Appliers = {a1, a2}
    Wanted <- MailRecords
    Foreign <- OtherRecords
    MaxZone = 5
    MaxApplies = 2
    MaxForeign = 1

    rspamd = rspamd  nginx = nginx
    unit = unit  worker = worker
    Blank = Blank
    Mixed = Mixed
    Nothing = Nothing
    Runners = {unit, worker}
    TlsWorkers = {worker}
    MailFiles <- RenderedFiles
    LateFiles = {rspamd}
    ProxyFiles <- NginxFiles
    MaxSettings = 1
    MaxRuns = 3

    users = users  sieve = sieve  setup = setup  admin = admin
    Migrators = {setup, admin}
    Tables = {users, sieve}
    Bookkeeping = Bookkeeping
    Scripts <- ThreeScripts
    Releases <- TwoReleases
    MaxLoops = 2
    MaxDumps = 1
    MaxImports = 1

    timer = timer  operator1 = operator1
    Operators = {timer, operator1}
    Slots = 2
    MonthStarts <- FourMonths
    WeekShift = 1
    RunDays = {58, 86, 89}
    Daily = 2
    Weekly = 1
    Monthly = 2
    MaxArchives = 3

    mail = mail  conf = conf  pem = pem
    Sources <- RestoredSources
    Links = {pem}
    Database = Database
    Absent = Absent
    Cut = Cut
    MaxChanges = 2
    MaxBackups = 1
    MaxRestores = 2

    card1 = card1  card2 = card2  uid1 = uid1  uid2 = uid2  web1 = web1
    hello = hello  bye = bye
    Accounts = {ann}
    Hrefs = {card1, card2}
    Uids = {uid1, uid2}
    UidOfHref <- UidOfCard
    WebUids = {web1}
    Texts = {hello, bye}
    Nil = Nil
    MaxRequests = 4

    f1 = f1  fine = fine  refused = refused
    box1 = box1  box2 = box2  s1 = s1  s2 = s2
    Syncers = {s1, s2}
    Mailboxes = {box1, box2}
    FilterIds = {f1}
    Values = {fine, refused}
    Unrenderable = {refused}
    NoScript = NoScript
    MaxSyncs = 3

    phone = phone  laptop = laptop  oldWord = oldWord  newWord = newWord  spare = spare
    Clients = {phone, laptop}
    MailProtocols = {"imap"}
    Other = Other
    Passwords = {oldWord, newWord}
    Secrets = {spare}
    FailureLimit = 2
    MaxAttempts = 2
    MaxAccountChanges = 2

    Mails = {1, 2}
    Automatic = {2}
    Pages = {"inbox", "trash", "spam"}
    Nobody = Nobody
    MaxActs = 2
    MaxUnderWay = 1

    home = home  guest = guest
    Zones = {home, guest}
    Outside = Outside
    Local = Local
    NoHost = NoHost
    CustomFile = CustomFile
    Deployments <- ThreeDeployments
    MailForms <- SavedServers
    TlsForms <- SavedTls
    JobForms <- AskedNames
    MaxPosts = 3
SPECIFICATION MCEstateSpec
CHECK_DEADLOCK FALSE
INVARIANTS SentStaysApart OneOwnerPerMailbox QueriesAgree AppliedAsAnswered
    QuietRunIsCurrent RecordedIsApplied RestoreIsWhole PutIsReadable ScriptFollowsRows
    OpensByPolicy ScreenIsTrue NamesResolve CertificatesFit
PROPERTIES MovesKeepMessages RetentionHeld
