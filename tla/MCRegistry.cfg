\* With every mailbox created the threads may have nothing left to do.
SPECIFICATION Spec
CONSTANTS
    t1 = t1
    t2 = t2
    t3 = t3
    m1 = m1
    m2 = m2
    m3 = m3
    m4 = m4
    host1 = host1
    host2 = host2
    Threads = {t1, t2, t3}
    Mailboxes = {m1, m2, m3, m4}
    Names = {"name"}
    Remotes = {host1, host2}
    Key <- MCKey
    None = None
SYMMETRY Symmetry
INVARIANTS
    Bookkeeping
    ReferencesAreAlive
    RegistryAgrees
CHECK_DEADLOCK FALSE
