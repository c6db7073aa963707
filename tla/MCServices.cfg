SPECIFICATION Spec
CONSTANTS
    c1 = c1
    c2 = c2
    n1 = n1
    n2 = n2
    n3 = n3
    e1 = e1
    e2 = e2
    m1 = m1
    Clients = {c1, c2}
    Names = {n1, n2, n3}
    Addr <- MCAddr
    Emails = {e1, e2}
    Masks = {m1}
    None = None
    Matches <- MCMatches
    Admins = {n1}
    MailNicks = 2
    LinkedNicks = 1
    NickAcclist = 1
    Expires = 1
    Files <- MCFiles
    MaxNow = 1
    MaxCommands = 5
    MaxStarts = 2
SYMMETRY Twins
CHECK_DEADLOCK FALSE
INVARIANTS TypeOK BooksBalance RestartGivesBack
