\* One email, two Hugging Face accounts, three documents, two requests at once.
\* The bounded ids and charges run out: then nothing is left to do.
SPECIFICATION Spec
SYMMETRY Interchangeable
CHECK_DEADLOCK FALSE
CONSTANTS
    None = None
    e1 = e1
    p1 = p1
    p2 = p2
    h1 = h1
    h2 = h2
    r1 = r1
    r2 = r2
    Ids = {1, 2, 3}
    Emails = {e1}
    Passwords = {p1, p2}
    HfIds = {h1, h2}
    HfEmail <- HfEmails
    Requests = {r1, r2}
    MaxUsed = 1
INVARIANT TypeOK
INVARIANT OwnerGetsIn
PROPERTY LoginsStand
