SPECIFICATION Spec
CONSTANTS
    work = work
    drafts = drafts
    cal = cal
    w = w
    d = d
    c = c
    Folders = {work, drafts, cal}
    UserFolders = {work}
    DraftFolders = {drafts}
    MailFolders = {work, drafts}
    Titles = {"t", "u"}
    Items = {w}
    HomeOf <- Homes
    NoItem = NoItem
    NoFolder = NoFolder
    Filters <- Trees
    Marked = {d}
    Batches = {{5}, {6}, {7}, {0, 8}}
    Operations = {"keywords"}
    MaxRemote = 2
    MaxFaults = 0
INVARIANT
    AssertionsHold
