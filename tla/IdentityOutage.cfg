SPECIFICATION RecordsSpec
CONSTANTS
    focuses = {"identity"}
    math = math
    physics = physics
    text1 = text1
    null = null
    word1 = word1
    word2 = word2
    tier1 = tier1
    orcid1 = orcid1
    orcid2 = orcid2
    google = google
    bluesky = bluesky
    school = school
    user1 = user1
    user2 = user2
    reader1 = reader1
    reader2 = reader2
    reader3 = reader3
    me = me
    you = you
    nobody = nobody
    name1 = name1
    name2 = name2
    name3 = name3
    noname = noname
    one = one
    two = two
    job1 = job1
    job2 = job2
    Editors = {one, two}
    Abstracts = {text1}
    NoAbstract = null
    Codes = {math, physics}
    Words = {word1, word2}
    EditRequests <- Edits
    FirstCode = math
    MaxEdits = 3
    MaxEditFaults = 1
    Documents = {one, two}
    NoDocument = null
    Subjects = {math, physics}
    NoSubject = null
    MaxCrossListings = 1
    Tiers = {tier1}
    NoTier = null
    FirstTier = tier1
    gpt = gpt
    llama = llama
    comma = comma
    Models = {gpt, llama}
    AiModel = gpt
    EmptyPiece = comma
    MaxModels = 1
    Extracts <- Findings
    MaxOverlong = 1
    MaxFormEdits = 4
    MaxRequests = 2
    MaxIntakeFaults = 1
    Accounts = {orcid1, orcid2, google, bluesky}
    ProviderOf <- Providers
    NoAccount = null
    ReservedAccount = bluesky
    OldAccount = orcid1
    Visits = {one}
    MaxUsers = 4
    MaxVisits = 3
    MaxOutages = 1
    MaxIdFaults = 0
    Topics = {school}
    Askers = {user1, user2}
    Asks = {one, two}
    Costs = {1, 2}
    TokenCap = 3
    DailyQuota = 1
    CacheDays = 1
    LastDay = 1
    MaxAsks = 3
    MaxAskFaults = 1
    Papers <- Submitted
    Readers = {reader1, reader2, reader3}
    Verbs = {"checked", "reproduced"}
    ThreadLimit = 1
    MaxThread = 2
    MaxReaderActs = 3
    Discussed = {"citations", "socialReview"}
    Contents <- TextTallies
    SourceContent <- GoodText
    InMath = FALSE
    HumanVerified = TRUE
    Keyrings <- SomeKeys
    FirstKeyring <- SeedOnly
    DisputedLanes = {"citations"}
    MaxRerunPosts = 2
    MaxRerunActs = 2
    MaxPassports = 2
    MaxRerunFaults = 1
    KeyRequests = {one, two}
    MaxKeys = 3
    MaxKeyFaults = 1
    Names = {name1, name2, name3}
    Unfit = {name3}
    NoName = noname
    People = {me, you}
    Me = me
    Unowned = nobody
    MaxKeystrokes = 2
    MaxHandleFaults = 1
    Records = {1, 2, 3}
    Drafts = {2}
    PageSize = 2
    LastSecond = 2
    MaxChanges = 2
    MaxHarvestFaults = 1
    FigureJobs = {job1, job2}
    Named = job1
    FigureSlots = {one, two}
    InPdf = 2
    InSource = 1
    MaxFigureAttempts = 2
    MaxFigureStalls = 1
    MaxFigureFaults = 1
    Layouts <- Sheets
    Bridges = {one, two}
    Cards = 3
    Titles <- SomeTitles
    TitleBytes = 8
    PostBytes = 20
    PrefixBytes = 4
    TagBytes = 5
    MaxPosts = 4
    MaxBridgeFaults = 2
    Texts <- PlainTexts
    MaxTokens = 6
    TargetTokens = 5
    MinTokens = 3
    MaxSections = 5
    run1 = run1
    run2 = run2
    search1 = search1
    Indexings = {run1, run2}
    Searches = {search1}
    TextChunks <- ChunkCounts
    EmbedWorkers = 2
    EmbedCap = 4
    MaxIndexings = 2
    MaxSearches = 1
    MaxIndexFaults = 1
    Uploads <- SourceBundles
    WrapCounts = {0, 1, 9}
    Attempts = 2
    MaxCompiles = 1
    MaxCompileFaults = 2
    edit1 = edit1
    edit2 = edit2
    Embedders = {one, two}
    Reindexes = {edit1, edit2}
    Calls = {one, two}
    Volume = 1
    MaxEmbedAttempts = 2
    MaxEmbedStalls = 0
    MaxFires = 2
    MaxStumbles = 2
    MaxResets = 1
    MaxSideCalls = 1
    MaxEmbedFaults = 1
    badge1 = badge1
    replica1 = replica1
    Tabs = {one, two}
    Endorsers = {user1}
    Badges = {badge1}
    EventKinds = {"paper_view", "card_expand"}
    EndorseVerbs = {"checked"}
    MaxEngagements = 3
    MaxChoices = 1
    MaxEngagementFaults = 1
    Replicas = {replica1}
    FlagCalls = {one, two}
    FlagDefaults = {"on", "off"}
    FlagTtl = 2
    MaxFlips = 1
    MaxFlagReads = 2
    LastTick = 3
    MaxFlagFaults = 1
    cron1 = cron1
    briefask1 = briefask1
    Crons = {cron1}
    BriefAsks = {briefask1}
    MaxBriefDays = 2
    MaxBriefAsks = 1
    MaxBriefFaults = 2
    member1 = member1
    member2 = member2
    Members = {member1, member2}
    Refreshes = {one, two}
    Handles = {name1, name2, name3}
    FirstHandle <- HandlesHere
    FirstAtBluesky <- HandlesThere
    SyncLimit = 1
    MaxAge = 1
    LastSyncTick = 1
    MaxProfileEdits = 1
    MaxClaims = 1
    MaxSyncs = 2
    MaxSyncFaults = 1
    post1 = post1
    post2 = post2
    post3 = post3
    FeedPapers = {post1, post2, post3}
    FeedNames = {"latest", "featured", "questions"}
    Traits <- TraitsOf
    Announced <- AnnouncedAt
    FeedLimit = 1
    MaxFeedOffset = 3
    MaxFeedEvents = 1
    MaxWalks = 2
    MaxFeedFaults = 1
    maker1 = maker1
    maker2 = maker2
    saga = saga
    HtmlMakers = {saga, maker1, maker2}
    Saga = saga
    MaxReleases = 2
    MaxHtmlAttempts = 1
    MaxHtmlStalls = 1
    MaxHtmlFaults = 1
    Pages <- HtmlPages
    ImageCounts = {0, 1, 2}
    plc1 = plc1
    orcid3 = orcid3
    google1 = google1
    toot1 = toot1
    paper1 = paper1
    Browsers = {one, two}
    OAuthAccounts = {plc1, orcid3, google1, toot1}
    AtProvider <- ProvidersOf
    OwnPapers = {paper1}
    Nil = null
    MaxPersons = 2
    MaxTrips = 4
    ada = ada
    cleo = cleo
    best = best
    PaperAuthors = {ada, cleo}
    Windows = {one, two}
    SeminarLabels = {best}
    MaxComments = 2
    MaxClicks = 3
INVARIANTS
    SignInSurvivesOutage
CHECK_DEADLOCK FALSE
