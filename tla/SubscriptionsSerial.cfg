SPECIFICATION FairSpec
CONSTANTS
    h1 = h1
    h2 = h2
    s1 = s1
    s2 = s2
    i1 = i1
    i2 = i2
    a = a
    A = A
    b = b
    None = None
    MailOn = TRUE
    NotificationsOn = TRUE
    TTL = 1
    Handlers = {h1}
    Sites = {s1}
    Ids = {i1, i2}
    RawEmails = {a, A}
    Lower <- MCOneMailbox
    MaxClock = 2
INVARIANTS
    OneNoticePerConsent
PROPERTIES
    NoConfirmAfterUnsubscribe
    ImplementsSubscriberLife
    LinkTakesEffect
