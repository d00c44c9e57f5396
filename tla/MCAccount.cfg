SPECIFICATION Spec
CONSTANTS
    work = work
    drafts = drafts
    cal = cal
    w = w
    d = d
    c = c
    Folders = {work, drafts, cal}
    UserFolders = {work}
    DraftFolders = {drafts}
    MailFolders = {work, drafts}
    Titles = {"t", "u"}
    Items = {w, d, c}
    HomeOf <- Homes
    NoItem = NoItem
    NoFolder = NoFolder
    Filters <- Trees
    Marked = {d}
    Batches = {{5}, {6}, {7}, {0, 8}}
    Operations = {"create", "rename", "remove", "keywords", "move", "both", "destroy", "draft"}
    MaxRemote = 2
    MaxFaults = 1
INVARIANTS
    TypeOK
    OrphansAccountedFor
    RowsMatchKey
    AnswerIsCurrent
PROPERTIES
    MailboxesSettle
