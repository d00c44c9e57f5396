SPECIFICATION Spec
CONSTANTS
    post = post
    web = web
    phone = phone
    Requests = {post}
    Streams = {web, phone}
    NoOne = NoOne
    Folders = {inbox, archive}
    PoolSize = 3
    Scripts <- Migrations
    MaxFaults = 2
    MaxCrashes = 1
INVARIANTS
    TypeOK
    QuietStreamIsCurrent
    StartFailsOnlyIfTorn
PROPERTIES
    NobodyWaitsForEver
