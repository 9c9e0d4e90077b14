\* Two listeners, a bench run, the alert worker and the name refresher beside the poll loop;
\* one probe beside two other requests;
\* two benches beside a request of somebody else; two servers, one of them remote and without a gateway.
CONSTANTS
    Threads <- MCThreadSet
    Kind <- MCKind
    Nobody = Nobody
    OwnTokens = 2
    Others = {"r1", "r2"}
    Sizes <- RequestSizes
    MaxAttempts = 1
    Plans <- MCPlans
    MaxStrangers = 1
    NServers = 2
    Local = {0}
    Gateless = {1}
    PageIds <- MCPageIds
    GatewayPages = {"users"}
    Rangeless = {"model"}
    NRanges = 2
    MaxKeys = 3
    MaxQueue = 2
SPECIFICATION MCSpec
INVARIANTS
    NoCircularWait
    ReadingRanAlone
    ScreenIsOneServers
    TabLeadsOn
    QuietWasAlone
PROPERTY
    StopsForOthers
