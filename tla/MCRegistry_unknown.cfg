SPECIFICATION Spec
CONSTANTS
    c1 = c1
    c2 = c2
    c3 = c3
    n1 = n1
    k1 = k1
    d1 = d1
    r1 = r1
    r2 = r2
    NoObject = NoObject
    Contacts <- MCContacts
    Nssets <- MCNssets
    Keysets <- MCKeysets
    Domains <- MCDomains
    Registrars <- MCRegistrars
    Tx = {t1, t2}
    Requests <- ContactRequests
    InitialDbs <- FewInitialDbs
PROPERTY
    UnknownMeansErased
