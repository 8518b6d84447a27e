--------------------------- MODULE Registry_proofs ---------------------------
(***************************************************************************)
(* Proofs about Registry, for any objects, registrars, transactions and    *)
(* requests: the locks of each operation are enough for what it has read   *)
(* to stay true until it commits, so that no reference dangles and every   *)
(* operation is atomic: Registry implements AtomicRegistry.                *)
(***************************************************************************)
EXTENDS Registry, TLAPS

-----------------------------------------------------------------------------
(* Data: what each operation does to consistent contents of the register.  *)
(* It leaves them well typed, well shaped and without a dangling           *)
(* reference, provided that the checks of the operation hold.              *)

Contents == [Objects -> Entry]

Consistent(d) == d \in Contents /\ WellShaped(d) /\ NoDangling(d)

-----------------------------------------------------------------------------
(* References lead to contacts, nssets and keysets, never to a domain.     *)
LEMMA ReferencesTyped ==
    ASSUME NEW entry \in Entry
    PROVE  References(entry) \subseteq Objects \ Domains
BY TypesDisjoint DEF References, Entry, Objects

LEMMA OperationTyped ==
    ASSUME NEW o \in Operation
    PROVE  /\ o.obj \in Objects
           /\ o.registrar \in Registrars
           /\ o.registrant \in Contacts \cup {NoObject}
           /\ o.nsset \in Nssets \cup {NoObject}
           /\ o.keyset \in Keysets \cup {NoObject}
           /\ o.add \subseteq Contacts
           /\ o.rem \subseteq Contacts
BY DEF Operation

(* A live entry that refers to live objects may take the place of another. *)
LEMMA ReplacedConsistent ==
    ASSUME NEW d, Consistent(d), NEW f \in Contents, NEW o \in Objects,
           \A p \in Objects \ {o} : f[p] = d[p],
           IsLive(f, o),
           o \notin Domains =>
               f[o].registrant = NoObject /\ f[o].nsset = NoObject /\ f[o].keyset = NoObject,
           o \in Contacts => f[o].contacts = {},
           \A r \in References(f[o]) : IsLive(d, r)
    PROVE  Consistent(f)
<1>1. d \in Contents /\ WellShaped(d) /\ NoDangling(d)
    BY DEF Consistent
<1>2. WellShaped(f)
    BY <1>1 DEF WellShaped
<1>3. NoDangling(f)
  <2> SUFFICES ASSUME NEW p \in Objects, IsLive(f, p), NEW r \in References(f[p])
               PROVE  IsLive(f, r)
      BY DEF NoDangling
  <2>1. IsLive(d, r)
    <3>1. CASE p = o
        BY <3>1
    <3>2. CASE p # o
        BY <1>1, <3>2 DEF NoDangling, IsLive
    <3> QED
        BY <3>1, <3>2
  <2>2. r \in Objects
    <3>1. f[p] \in Entry
        BY DEF Contents
    <3> QED
        BY <3>1, ReferencesTyped
  <2> QED
      BY <2>1, <2>2 DEF IsLive
<1> QED
    BY <1>2, <1>3 DEF Consistent

(* An entry of consistent contents.                                        *)
LEMMA EntryShaped ==
    ASSUME NEW d, Consistent(d), NEW o \in Objects
    PROVE  /\ d[o] \in Entry
           /\ o \notin Domains =>
                 d[o].registrant = NoObject /\ d[o].nsset = NoObject /\ d[o].keyset = NoObject
           /\ o \in Contacts => d[o].contacts = {}
           /\ IsLive(d, o) => \A r \in References(d[o]) : IsLive(d, r)
<1>1. d \in Contents /\ WellShaped(d) /\ NoDangling(d)
    BY DEF Consistent
<1>2. d[o] \in Entry
    BY <1>1 DEF Contents
<1>3. o \notin Domains =>
          d[o].registrant = NoObject /\ d[o].nsset = NoObject /\ d[o].keyset = NoObject
    BY <1>1 DEF WellShaped
<1>4. o \in Contacts => d[o].contacts = {}
    BY <1>1, TypesDisjoint DEF WellShaped
<1>5. IsLive(d, o) => \A r \in References(d[o]) : IsLive(d, r)
    BY <1>1 DEF NoDangling
<1> QED
    BY <1>2, <1>3, <1>4, <1>5

-----------------------------------------------------------------------------
(* CreateContact, CreateNsset, CreateKeyset, CreateDomain                  *)
LEMMA CreatedConsistent ==
    ASSUME NEW d, Consistent(d), NEW o \in Operation, Expressible(o), o.kind = "create",
           \A r \in NewReferences(o) : IsLive(d, r)
    PROVE  Consistent(Created(d, o))
<1> DEFINE e == [life |-> "live", sponsor |-> o.registrar, historyid |-> 1,
                 registrant |-> o.registrant, nsset |-> o.nsset, keyset |-> o.keyset,
                 contacts |-> o.add]
           f == Created(d, o)
<1>1. e \in Entry
    BY OperationTyped DEF Entry
<1>2. References(e) \subseteq NewReferences(o)
    BY DEF References, NewReferences
<1>3. /\ o.obj \notin Domains =>
            e.registrant = NoObject /\ e.nsset = NoObject /\ e.keyset = NoObject
      /\ o.obj \in Contacts => e.contacts = {}
    BY DEF Expressible
<1>4. e.life = "live" /\ o.obj \in Objects
    BY OperationTyped
<1>5. f \in Contents /\ f[o.obj] = e /\ \A p \in Objects \ {o.obj} : f[p] = d[p]
    BY <1>1, <1>4 DEF Created, Consistent, Contents
<1> HIDE DEF e, f
<1>6. IsLive(f, o.obj)
    BY <1>4, <1>5 DEF IsLive
<1>7. Consistent(f)
    BY <1>2, <1>3, <1>4, <1>5, <1>6, ReplacedConsistent
<1> QED
    BY <1>7 DEF f

LEMMA UpdatedEntryTyped ==
    ASSUME NEW a \in Entry, NEW o \in Operation
    PROVE  UpdatedEntry(a, o) \in Entry
<1>1. ASSUME NEW registrant \in Contacts \cup {NoObject}, NEW nsset \in Nssets \cup {NoObject},
             NEW keyset \in Keysets \cup {NoObject}, NEW contacts \in SUBSET Contacts,
             NEW historyid \in Nat
      PROVE  [a EXCEPT !.historyid = historyid, !.registrant = registrant, !.nsset = nsset,
                       !.keyset = keyset, !.contacts = contacts] \in Entry
    BY DEF Entry
<1> DEFINE registrant == IF "registrant" \in o.set THEN o.registrant ELSE a.registrant
           nsset == IF "nsset" \in o.set THEN o.nsset ELSE a.nsset
           keyset == IF "keyset" \in o.set THEN o.keyset ELSE a.keyset
           contacts == (a.contacts \cup o.add) \ o.rem
           historyid == a.historyid + 1
<1>2. /\ registrant \in Contacts \cup {NoObject} /\ nsset \in Nssets \cup {NoObject}
      /\ keyset \in Keysets \cup {NoObject} /\ contacts \in SUBSET Contacts
      /\ historyid \in Nat
    BY OperationTyped DEF Entry
<1>3. UpdatedEntry(a, o) =
          [a EXCEPT !.historyid = historyid, !.registrant = registrant, !.nsset = nsset,
                    !.keyset = keyset, !.contacts = contacts]
    BY Zenon DEF UpdatedEntry
<1> HIDE DEF registrant, nsset, keyset, contacts, historyid
<1>4. [a EXCEPT !.historyid = historyid, !.registrant = registrant, !.nsset = nsset,
                !.keyset = keyset, !.contacts = contacts] \in Entry
    BY <1>1, <1>2, Zenon
<1> QED
    BY <1>3, <1>4

LEMMA UpdatedEntryFields ==
    ASSUME NEW a \in Entry, NEW o \in Operation
    PROVE  LET e == UpdatedEntry(a, o) IN
           /\ e.life = a.life
           /\ e.sponsor = a.sponsor
           /\ e.historyid = a.historyid + 1
           /\ e.registrant = IF "registrant" \in o.set THEN o.registrant ELSE a.registrant
           /\ e.nsset = IF "nsset" \in o.set THEN o.nsset ELSE a.nsset
           /\ e.keyset = IF "keyset" \in o.set THEN o.keyset ELSE a.keyset
           /\ e.contacts = (a.contacts \cup o.add) \ o.rem
BY DEF UpdatedEntry, Entry

(* UpdateContact, UpdateNsset, UpdateKeyset, UpdateDomain                  *)
LEMMA UpdatedConsistent ==
    ASSUME NEW d, Consistent(d), NEW o \in Operation, Expressible(o),
           IsLive(d, o.obj), \A r \in NewReferences(o) : IsLive(d, r)
    PROVE  Consistent(Updated(d, o))
<1> DEFINE a == d[o.obj]
           e == UpdatedEntry(a, o)
           f == Updated(d, o)
<1>1. o.obj \in Objects
    BY OperationTyped
<1>2. /\ a \in Entry /\ a.life = "live"
      /\ \A r \in References(a) : IsLive(d, r)
    BY <1>1, EntryShaped DEF IsLive
<1>3. e \in Entry /\ e.life = "live"
    BY <1>2, UpdatedEntryTyped, UpdatedEntryFields
<1>4. References(e) \subseteq References(a) \cup NewReferences(o)
    BY <1>2, UpdatedEntryFields DEF References, NewReferences
<1>5. /\ o.obj \notin Domains =>
            e.registrant = NoObject /\ e.nsset = NoObject /\ e.keyset = NoObject
      /\ o.obj \in Contacts => e.contacts = {}
    BY <1>1, <1>2, EntryShaped, UpdatedEntryFields DEF Expressible
<1>6. f \in Contents /\ f[o.obj] = e /\ \A p \in Objects \ {o.obj} : f[p] = d[p]
    BY <1>1, <1>3 DEF Updated, Consistent, Contents
<1> HIDE DEF e, f
<1>7. /\ \A r \in References(e) : IsLive(d, r)
      /\ IsLive(f, o.obj)
    BY <1>2, <1>3, <1>4, <1>6 DEF IsLive
<1>8. Consistent(f)
    BY <1>1, <1>5, <1>6, <1>7, ReplacedConsistent
<1> QED
    BY <1>8 DEF f

(* Contents that differ neither in which objects are live nor in what they *)
(* refer to.                                                               *)
LEMMA SameLinksConsistent ==
    ASSUME NEW d, Consistent(d), NEW f \in Contents,
           \A p \in Objects : /\ f[p].life = d[p].life
                              /\ f[p].registrant = d[p].registrant
                              /\ f[p].nsset = d[p].nsset
                              /\ f[p].keyset = d[p].keyset
                              /\ f[p].contacts = d[p].contacts
    PROVE  Consistent(f)
<1>1. d \in Contents /\ WellShaped(d) /\ NoDangling(d)
    BY DEF Consistent
<1>2. WellShaped(f)
    BY <1>1, TypesDisjoint DEF WellShaped, Objects
<1>3. \A p \in Objects : References(f[p]) = References(d[p]) /\ References(d[p]) \subseteq Objects
    BY <1>1, ReferencesTyped DEF References, Contents
<1>4. NoDangling(f)
    BY <1>1, <1>3 DEF NoDangling, IsLive
<1> QED
    BY <1>2, <1>4 DEF Consistent

LEMMA Bumped ==
    ASSUME NEW d \in Contents, NEW o \in Objects
    PROVE  LET f == [d EXCEPT ![o].historyid = @ + 1] IN
           /\ f \in Contents
           /\ \A p \in Objects : /\ f[p].life = d[p].life
                                 /\ f[p].sponsor = d[p].sponsor
                                 /\ f[p].registrant = d[p].registrant
                                 /\ f[p].nsset = d[p].nsset
                                 /\ f[p].keyset = d[p].keyset
                                 /\ f[p].contacts = d[p].contacts
<1> DEFINE a == d[o]
           b == [a EXCEPT !.historyid = a.historyid + 1]
           f == [d EXCEPT ![o] = b]
<1>1. a \in Entry
    BY DEF Contents
<1>2. /\ b \in Entry
      /\ b.life = a.life /\ b.sponsor = a.sponsor /\ b.registrant = a.registrant
      /\ b.nsset = a.nsset /\ b.keyset = a.keyset /\ b.contacts = a.contacts
    BY <1>1 DEF Entry
<1> HIDE DEF b
<1>3. /\ f \in Contents
      /\ f[o] = b /\ \A p \in Objects \ {o} : f[p] = d[p]
    BY <1>2 DEF Contents
<1>4. f = [d EXCEPT ![o].historyid = @ + 1]
    BY DEF b
<1> HIDE DEF f
<1> QED
    BY <1>2, <1>3, <1>4

(* RenewDomain                                                             *)
LEMMA RenewedConsistent ==
    ASSUME NEW d, Consistent(d), NEW o \in Operation
    PROVE  Consistent(Renewed(d, o))
<1> DEFINE f == Renewed(d, o)
<1>1. d \in Contents /\ o.obj \in Objects
    BY OperationTyped DEF Consistent
<1>2. /\ f \in Contents
      /\ \A p \in Objects : /\ f[p].life = d[p].life
                            /\ f[p].registrant = d[p].registrant
                            /\ f[p].nsset = d[p].nsset
                            /\ f[p].keyset = d[p].keyset
                            /\ f[p].contacts = d[p].contacts
    BY <1>1, Bumped DEF Renewed
<1> HIDE DEF f
<1>3. Consistent(f)
    BY <1>2, SameLinksConsistent
<1> QED
    BY <1>3 DEF f

(* TransferContact, TransferNsset, TransferKeyset, TransferDomain          *)
LEMMA TransferredFields ==
    ASSUME NEW d \in Contents, NEW o \in Operation
    PROVE  LET f == Transferred(d, o) IN
           /\ f \in Contents
           /\ \A p \in Objects : /\ f[p].life = d[p].life
                                 /\ p # o.obj => f[p].sponsor = d[p].sponsor
                                 /\ f[p].registrant = d[p].registrant
                                 /\ f[p].nsset = d[p].nsset
                                 /\ f[p].keyset = d[p].keyset
                                 /\ f[p].contacts = d[p].contacts
<1> DEFINE a == d[o.obj]
           historyid == a.historyid + 1
           b == [a EXCEPT !.sponsor = o.registrar, !.historyid = historyid]
           f == [d EXCEPT ![o.obj] = b]
<1>1. a \in Entry /\ o.obj \in Objects /\ o.registrar \in Registrars
    BY OperationTyped DEF Contents
<1>2. /\ b \in Entry
      /\ b.life = a.life /\ b.registrant = a.registrant
      /\ b.nsset = a.nsset /\ b.keyset = a.keyset /\ b.contacts = a.contacts
  <2>1. historyid \in Nat
      BY <1>1 DEF Entry
  <2> HIDE DEF a, historyid
  <2> QED
      BY <1>1, <2>1 DEF Entry
<1>3. f = Transferred(d, o)
    BY <1>1 DEF Transferred, Contents, Entry
<1> HIDE DEF b
<1>4. /\ f \in Contents
      /\ f[o.obj] = b /\ \A p \in Objects \ {o.obj} : f[p] = d[p]
    BY <1>1, <1>2 DEF Contents
<1> HIDE DEF f
<1> QED
    BY <1>2, <1>3, <1>4

LEMMA TransferredConsistent ==
    ASSUME NEW d, Consistent(d), NEW o \in Operation
    PROVE  Consistent(Transferred(d, o))
BY TransferredFields, SameLinksConsistent DEF Consistent

-----------------------------------------------------------------------------
LEMMA ErasedEntryFields ==
    ASSUME NEW a \in Entry
    PROVE  LET e == ErasedEntry(a) IN
           /\ e \in Entry
           /\ e.life = "erased" /\ e.sponsor = a.sponsor
           /\ e.registrant = NoObject /\ e.nsset = NoObject /\ e.keyset = NoObject
           /\ e.contacts = {}
BY DEF ErasedEntry, Entry

LEMMA ErasedFields ==
    ASSUME NEW d \in Contents, NEW o \in Objects
    PROVE  /\ Erased(d, o) \in Contents
           /\ Erased(d, o)[o] = ErasedEntry(d[o])
           /\ \A p \in Objects \ {o} : Erased(d, o)[p] = d[p]
<1> DEFINE e == ErasedEntry(d[o])
<1>1. e \in Entry
    BY ErasedEntryFields DEF Contents
<1>2. Erased(d, o) = [d EXCEPT ![o] = e]
    BY DEF Erased
<1> HIDE DEF e
<1>3. /\ Erased(d, o) \in Contents
      /\ Erased(d, o)[o] = e
      /\ \A p \in Objects \ {o} : Erased(d, o)[p] = d[p]
    BY <1>1, <1>2 DEF Contents
<1> QED
    BY <1>3 DEF e

(* DeleteContact, DeleteNsset, DeleteKeyset and DeleteDomain: erasing what *)
(* nothing refers to leaves no reference dangling.                         *)
LEMMA ErasedConsistent ==
    ASSUME NEW d, Consistent(d), NEW o \in Objects, o \in Domains \/ ~IsLinked(d, o)
    PROVE  Consistent(Erased(d, o))
<1> DEFINE f == Erased(d, o)
<1>1. d \in Contents /\ WellShaped(d) /\ NoDangling(d)
    BY DEF Consistent
<1>2. /\ f \in Contents /\ f[o] = ErasedEntry(d[o])
      /\ \A p \in Objects \ {o} : f[p] = d[p]
    BY <1>1, ErasedFields
<1>3. /\ f[o].life = "erased"
      /\ f[o].registrant = NoObject /\ f[o].nsset = NoObject /\ f[o].keyset = NoObject
      /\ f[o].contacts = {}
    BY <1>1, <1>2, ErasedEntryFields DEF Contents
<1> HIDE DEF f
<1>4. WellShaped(f)
    BY <1>1, <1>2, <1>3 DEF WellShaped
<1>5. NoDangling(f)
  <2> SUFFICES ASSUME NEW p \in Objects, IsLive(f, p), NEW r \in References(f[p])
               PROVE  IsLive(f, r)
      BY DEF NoDangling
  <2>1. p # o /\ f[p] = d[p] /\ IsLive(d, p)
      BY <1>2, <1>3 DEF IsLive
  <2>2. IsLive(d, r) /\ r \in Objects \ Domains
      BY <1>1, <2>1, ReferencesTyped DEF NoDangling, Contents
  <2>3. r # o
      BY <2>1, <2>2 DEF IsLinked
  <2> QED
      BY <1>2, <2>2, <2>3 DEF IsLive
<1> QED
    BY <1>2, <1>4, <1>5 DEF Consistent, f

(* MergeContact                                                            *)
LEMMA MergeTyped ==
    ASSUME NEW o \in Operation, Expressible(o), o.kind = "merge"
    PROVE  /\ o.obj \in Contacts /\ o.dst \in Contacts /\ o.dst # o.obj
           /\ o.obj \in Objects /\ o.dst \in Objects
BY DEF Expressible, Objects

(* On the objects in os, f differs from d as Relinked says.                *)
LinksReplaced(f, d, o, R, C, os) ==
    \A p \in os :
        /\ f[p].life = d[p].life
        /\ f[p].sponsor = d[p].sponsor
        /\ f[p].nsset = d[p].nsset
        /\ f[p].keyset = d[p].keyset
        /\ p \in R => f[p].registrant = o.dst
        /\ p \notin R => f[p].registrant = d[p].registrant
        /\ p \in C => f[p].contacts = (d[p].contacts \ {o.obj}) \cup {o.dst}
        /\ p \notin C => f[p].contacts = d[p].contacts

LEMMA RelinkedFields ==
    ASSUME NEW d \in Contents, NEW o \in Operation, Expressible(o), o.kind = "merge",
           NEW R \in SUBSET Domains, NEW C \in SUBSET Objects
    PROVE  LET f == Relinked(d, o, R, C) IN
           /\ f \in Contents
           /\ LinksReplaced(f, d, o, R, C, Objects)
<1> DEFINE f == Relinked(d, o, R, C)
           registrant(p) == IF p \in R THEN o.dst ELSE d[p].registrant
           contacts(p) == IF p \in C THEN (d[p].contacts \ {o.obj}) \cup {o.dst}
                                     ELSE d[p].contacts
           historyid(p) == d[p].historyid + (IF p \in R THEN 1 ELSE 0)
                                          + (IF p \in C THEN 1 ELSE 0)
           e(p) == [d[p] EXCEPT !.registrant = registrant(p), !.contacts = contacts(p),
                                !.historyid = historyid(p)]
<1>1. f = [p \in Objects |-> e(p)]
    BY Zenon DEF Relinked
<1>2. \A p \in Objects : d[p] \in Entry
    BY DEF Contents
<1>3. \A p \in Objects : /\ registrant(p) \in Contacts \cup {NoObject}
                         /\ contacts(p) \in SUBSET Contacts
                         /\ historyid(p) \in Nat
    BY <1>2, MergeTyped DEF Entry
<1> HIDE DEF registrant, contacts, historyid, f
<1>4. \A p \in Objects : /\ e(p) \in Entry
                         /\ e(p).life = d[p].life
                         /\ e(p).sponsor = d[p].sponsor
                         /\ e(p).nsset = d[p].nsset
                         /\ e(p).keyset = d[p].keyset
                         /\ e(p).registrant = registrant(p)
                         /\ e(p).contacts = contacts(p)
    BY <1>2, <1>3 DEF Entry
<1> HIDE DEF e
<1>5. f \in Contents /\ \A p \in Objects : f[p] = e(p)
    BY <1>1, <1>4 DEF Contents
<1> QED
    BY <1>4, <1>5 DEF f, registrant, contacts, LinksReplaced

LEMMA RelinkedConsistent ==
    ASSUME NEW d, Consistent(d), NEW o \in Operation, Expressible(o), o.kind = "merge",
           NEW R \in SUBSET Domains, NEW C \in SUBSET (Objects \ Contacts),
           IsLive(d, o.dst)
    PROVE  Consistent(Relinked(d, o, R, C))
<1> DEFINE f == Relinked(d, o, R, C)
<1>1. d \in Contents /\ WellShaped(d) /\ NoDangling(d)
    BY DEF Consistent
<1>2. /\ f \in Contents
      /\ LinksReplaced(f, d, o, R, C, Objects)
    BY <1>1, RelinkedFields
<1> HIDE DEF f
<1>3. WellShaped(f)
    BY <1>1, <1>2 DEF WellShaped, LinksReplaced
<1>4. NoDangling(f)
  <2> SUFFICES ASSUME NEW p \in Objects, IsLive(f, p), NEW r \in References(f[p])
               PROVE  IsLive(f, r)
      BY DEF NoDangling
  <2>1. IsLive(d, p)
      BY <1>2 DEF IsLive, LinksReplaced
  <2>2. r \in References(d[p]) \/ r = o.dst
      BY <1>2 DEF References, LinksReplaced
  <2>3. IsLive(d, r) /\ r \in Objects
      BY <1>1, <2>1, <2>2, MergeTyped, ReferencesTyped DEF NoDangling, Contents
  <2> QED
      BY <1>2, <2>3 DEF IsLive, LinksReplaced
<1> QED
    BY <1>2, <1>3, <1>4 DEF Consistent, f

LEMMA MergedFields ==
    ASSUME NEW d \in Contents, NEW o \in Operation, Expressible(o), o.kind = "merge",
           NEW R \in SUBSET Domains, NEW C \in SUBSET Objects
    PROVE  LET g == Erased(Relinked(d, o, R, C), o.obj)
               h == Merged(d, o, R, C) IN
           /\ g \in Contents /\ h \in Contents
           /\ \A p \in Objects : /\ h[p].life = g[p].life
                                 /\ h[p].sponsor = g[p].sponsor
                                 /\ h[p].registrant = g[p].registrant
                                 /\ h[p].nsset = g[p].nsset
                                 /\ h[p].keyset = g[p].keyset
                                 /\ h[p].contacts = g[p].contacts
<1> DEFINE f == Relinked(d, o, R, C)
           g == Erased(f, o.obj)
           h == Merged(d, o, R, C)
<1>1. f \in Contents /\ o.obj \in Objects /\ o.dst \in Objects
    BY RelinkedFields, MergeTyped
<1>2. h = [g EXCEPT ![o.dst].historyid = @ + 1]
    BY DEF Merged
<1> HIDE DEF f
<1>3. g \in Contents
    BY <1>1, ErasedFields
<1> HIDE DEF g, h
<1> DEFINE k == [g EXCEPT ![o.dst].historyid = @ + 1]
<1>4. /\ k \in Contents
      /\ \A p \in Objects : /\ k[p].life = g[p].life
                            /\ k[p].sponsor = g[p].sponsor
                            /\ k[p].registrant = g[p].registrant
                            /\ k[p].nsset = g[p].nsset
                            /\ k[p].keyset = g[p].keyset
                            /\ k[p].contacts = g[p].contacts
    BY <1>1, <1>3, Bumped
<1>5. h = k
    BY <1>2
<1> HIDE DEF k
<1> QED
    BY <1>3, <1>4, <1>5 DEF f, g, h

LEMMA MergedConsistent ==
    ASSUME NEW d, Consistent(d), NEW o \in Operation, Expressible(o), o.kind = "merge",
           NEW R \in SUBSET Domains, NEW C \in SUBSET (Objects \ Contacts),
           IsLive(d, o.dst), ~IsLinked(Relinked(d, o, R, C), o.obj)
    PROVE  Consistent(Merged(d, o, R, C))
<1> DEFINE f == Relinked(d, o, R, C)
           g == Erased(f, o.obj)
           h == Merged(d, o, R, C)
<1>1. Consistent(g)
    BY RelinkedConsistent, ErasedConsistent, MergeTyped
<1>2. /\ h \in Contents
      /\ \A p \in Objects : /\ h[p].life = g[p].life
                            /\ h[p].registrant = g[p].registrant
                            /\ h[p].nsset = g[p].nsset
                            /\ h[p].keyset = g[p].keyset
                            /\ h[p].contacts = g[p].contacts
  <2>1. d \in Contents /\ C \in SUBSET Objects
      BY DEF Consistent
  <2> HIDE DEF f
  <2>2. g = Erased(Relinked(d, o, R, C), o.obj)
      BY DEF f
  <2> QED
      BY <2>1, <2>2, MergedFields
<1> HIDE DEF g, h
<1>3. Consistent(h)
    BY <1>1, <1>2, SameLinksConsistent
<1> QED
    BY <1>3 DEF h

(* A merge as a whole: the source is erased, the links to it are replaced. *)
LEMMA MergedEffect ==
    ASSUME NEW d \in Contents, NEW o \in Operation, Expressible(o), o.kind = "merge",
           NEW R \in SUBSET Domains, NEW C \in SUBSET Objects
    PROVE  LET h == Merged(d, o, R, C) IN
           /\ h[o.obj].life = "erased"
           /\ h[o.obj].sponsor = d[o.obj].sponsor
           /\ LinksReplaced(h, d, o, R, C, Objects \ {o.obj})
<1> DEFINE f == Relinked(d, o, R, C)
           g == Erased(f, o.obj)
           h == Merged(d, o, R, C)
<1>1. o.obj \in Objects
    BY OperationTyped
<1>2. /\ f \in Contents
      /\ LinksReplaced(f, d, o, R, C, Objects)
    BY RelinkedFields
<1>3. \A p \in Objects : /\ h[p].life = g[p].life
                         /\ h[p].sponsor = g[p].sponsor
                         /\ h[p].registrant = g[p].registrant
                         /\ h[p].nsset = g[p].nsset
                         /\ h[p].keyset = g[p].keyset
                         /\ h[p].contacts = g[p].contacts
    BY MergedFields
<1> HIDE DEF f, h
<1>4. /\ g[o.obj] = ErasedEntry(f[o.obj])
      /\ \A p \in Objects \ {o.obj} : g[p] = f[p]
    BY <1>1, <1>2, ErasedFields
<1> HIDE DEF g
<1>5. g[o.obj].life = "erased" /\ g[o.obj].sponsor = f[o.obj].sponsor
  <2>1. f[o.obj] \in Entry
      BY <1>1, <1>2 DEF Contents
  <2> QED
      BY <1>4, <2>1, ErasedEntryFields
<1>6. h[o.obj].life = "erased" /\ h[o.obj].sponsor = d[o.obj].sponsor
    BY <1>1, <1>2, <1>3, <1>5 DEF LinksReplaced
<1>7. LinksReplaced(h, d, o, R, C, Objects \ {o.obj})
    BY <1>2, <1>3, <1>4 DEF LinksReplaced
<1> QED
    BY <1>6, <1>7 DEF h

-----------------------------------------------------------------------------
USE DEF Running, Ended

-----------------------------------------------------------------------------
(* Types                                                                   *)

(* Requests are operations the interface can express.                      *)
LEMMA OpTyped ==
    ASSUME TypeOK, NEW t \in Tx
    PROVE  /\ op[t] \in Requests
           /\ op[t] \in Operation
           /\ Expressible(op[t])
           /\ op[t].obj \in Objects
           /\ op[t].add \subseteq Contacts
           /\ op[t].kind = "merge" => op[t].dst \in Contacts /\ op[t].dst # op[t].obj
BY RequestsExpressible DEF TypeOK, Operation, Expressible

(* A single lock request of a plan is well typed.                          *)
LEMMA LockTyped ==
    ASSUME NEW table \in {"registry", "object"}, NEW o \in Objects,
           NEW mode \in {"share", "update"}, NEW rank \in 1..9,
           NEW how \in {"lookup", "info"}
    PROVE  /\ Lock(table, o, mode, rank, how) \in LockRequest
           /\ Optionally(Lock(table, o, mode, rank, how)) \in LockRequest
BY DEF Lock, Optionally, LockRequest, Rows

LEMMA ShareTyped ==
    ASSUME NEW os \in SUBSET (Objects \cup {NoObject}), NEW rank \in 1..9
    PROVE  Share(os, rank) \subseteq LockRequest
BY LockTyped DEF Share

LEMMA RelinkTyped ==
    ASSUME NEW os \in SUBSET Objects, NEW rank \in 1..8
    PROVE  RelinkLocks(os, rank) \subseteq LockRequest
<1>1. rank \in 1..9 /\ rank + 1 \in 1..9
    OBVIOUS
<1> QED
    BY <1>1, LockTyped DEF RelinkLocks

(* Every plan is a set of lock requests.                                   *)
LEMMA PlansTyped ==
    ASSUME NEW o \in Operation
    PROVE  /\ Expressible(o) => FirstLocks(o) \subseteq LockRequest
           /\ EraseLocks(o) \subseteq LockRequest
           /\ \A contacts \in SUBSET (Contacts \cup {NoObject}) :
                 AuthorizeLocks(o, contacts) \subseteq LockRequest
           /\ o.kind = "merge" /\ Expressible(o) =>
                 \A os \in SUBSET Objects : RelinkContactLocks(o, os) \subseteq LockRequest
<1>0. /\ o.obj \in Objects
      /\ o.registrant \in Objects \cup {NoObject} /\ o.nsset \in Objects \cup {NoObject}
      /\ o.keyset \in Objects \cup {NoObject}
      /\ o.add \subseteq Objects /\ o.rem \subseteq Objects
      /\ o.kind \in {"create", "update", "delete", "renew", "transfer", "merge"}
      /\ o.dst \in Objects \cup {NoObject}
    BY DEF Operation, Objects
<1>1. CreateLocks(o) \subseteq LockRequest
  <2>1. /\ Share({o.registrant}, 1) \subseteq LockRequest
        /\ Share({o.nsset}, 2) \subseteq LockRequest
        /\ Share({o.keyset}, 3) \subseteq LockRequest
        /\ Share(o.add, 4) \subseteq LockRequest
      BY <1>0, ShareTyped
  <2> QED
      BY <2>1 DEF CreateLocks
<1>2. UpdateLocks(o) \subseteq LockRequest
  <2>1. /\ Share(IF "nsset" \in o.set THEN {o.nsset} ELSE {}, 3) \subseteq LockRequest
        /\ Share(IF "keyset" \in o.set THEN {o.keyset} ELSE {}, 4) \subseteq LockRequest
        /\ Share(IF "registrant" \in o.set THEN {o.registrant} ELSE {}, 5) \subseteq LockRequest
        /\ Share(o.add, 6) \subseteq LockRequest
        /\ Share(o.rem, 7) \subseteq LockRequest
      BY <1>0, ShareTyped
  <2>2. LookupObject(o) \in LockRequest /\ Lock("object", o.obj, "update", 2, "lookup") \in LockRequest
      BY <1>0, LockTyped DEF LookupObject
  <2> QED
      BY <2>1, <2>2 DEF UpdateLocks
<1>3. RenewLocks(o) \subseteq LockRequest /\ DeleteLocks(o) \subseteq LockRequest
      /\ EraseLocks(o) \subseteq LockRequest /\ TransferLocks(o) \subseteq LockRequest
    BY <1>0, LockTyped DEF RenewLocks, DeleteLocks, EraseLocks, TransferLocks
<1>4. o.kind = "merge" /\ Expressible(o) => o.dst \in Objects
    BY DEF Expressible, Objects
<1>5. MergeLocks(o) \subseteq LockRequest \/ ~(o.kind = "merge" /\ Expressible(o))
    BY <1>0, <1>4, LockTyped DEF MergeLocks
<1>6. Expressible(o) => FirstLocks(o) \subseteq LockRequest
    BY <1>0, <1>1, <1>2, <1>3, <1>5 DEF FirstLocks
<1>7. \A contacts \in SUBSET (Contacts \cup {NoObject}) : AuthorizeLocks(o, contacts) \subseteq LockRequest
    BY <1>0, LockTyped DEF AuthorizeLocks, Objects
<1>8. ASSUME o.kind = "merge", Expressible(o), NEW os \in SUBSET Objects
      PROVE  RelinkContactLocks(o, os) \subseteq LockRequest
  <2>1. /\ RelinkLocks(os \cap Domains, 1) \subseteq LockRequest
        /\ RelinkLocks(os \cap Nssets, 3) \subseteq LockRequest
        /\ RelinkLocks(os \cap Keysets, 5) \subseteq LockRequest
      BY RelinkTyped
  <2>2. /\ Lock("object", o.obj, "update", 7, "lookup") \in LockRequest
        /\ Lock("object", o.dst, "update", 8, "lookup") \in LockRequest
      BY <1>0, <1>4, <1>8, LockTyped
  <2> QED
      BY <2>1, <2>2 DEF RelinkContactLocks
<1> QED
    BY <1>3, <1>6, <1>7, <1>8

(* Only a merge and a transfer go on without a row that is missing, and    *)
(* never without the rows of their first stage.                            *)
LEMMA LockFields ==
    ASSUME NEW table, NEW o, NEW mode, NEW rank, NEW how
    PROVE  LET r == Lock(table, o, mode, rank, how) IN
           /\ r.row = <<table, o>> /\ r.mode = mode /\ r.how = how /\ ~r.optional
           /\ Optionally(r).row = <<table, o>> /\ Optionally(r).mode = mode
           /\ Optionally(r).how = how
BY DEF Lock, Optionally

LEMMA FirstLocksNeeded ==
    ASSUME NEW o \in Operation
    PROVE  /\ \A r \in FirstLocks(o) : ~r.optional
           /\ \A r \in EraseLocks(o) : ~r.optional
<1>1. \A r \in CreateLocks(o) : ~r.optional
    BY LockFields DEF CreateLocks, Share
<1>2. \A r \in UpdateLocks(o) : ~r.optional
    BY LockFields DEF UpdateLocks, LookupObject, Share
<1>3. \A r \in TransferLocks(o) : ~r.optional
    BY LockFields DEF TransferLocks
<1>4. \A r \in RenewLocks(o) \cup DeleteLocks(o) \cup EraseLocks(o) \cup MergeLocks(o) : ~r.optional
    BY LockFields DEF RenewLocks, DeleteLocks, EraseLocks, MergeLocks
<1> QED
    BY <1>1, <1>2, <1>3, <1>4 DEF FirstLocks, Operation

(* The registry row of an object is among the rows that are to be locked   *)
RowAsked(requests, p) ==
    \E r \in requests : r.row = <<"registry", p>> /\ r.mode = "update"

LEMMA RelinkAsksRow ==
    ASSUME NEW os, NEW rank, NEW p \in os
    PROVE  RowAsked(RelinkLocks(os, rank), p)
<1> DEFINE lock == Optionally(Lock("registry", p, "update", rank, "lookup"))
<1>1. lock \in RelinkLocks(os, rank)
    BY DEF RelinkLocks
<1>2. lock.row = <<"registry", p>> /\ lock.mode = "update"
    BY LockFields
<1> QED
    BY <1>1, <1>2 DEF RowAsked

LEMMA RelinksLookUp ==
    ASSUME NEW os, NEW rank
    PROVE  /\ \A r \in RelinkLocks(os, rank) : r.how = "lookup"
           /\ \A p \in os : RowAsked(RelinkLocks(os, rank), p)
<1>1. \A r \in RelinkLocks(os, rank) : r.how = "lookup"
    BY LockFields DEF RelinkLocks
<1> QED
    BY <1>1, RelinkAsksRow

LEMMA RelinkContactsLookUp ==
    ASSUME NEW o \in Operation, NEW os \in SUBSET (Objects \ Contacts)
    PROVE  /\ \A r \in RelinkContactLocks(o, os) : r.how = "lookup"
           /\ \A p \in os : \E r \in RelinkContactLocks(o, os) :
                 r.row = <<"registry", p>> /\ r.mode = "update"
           /\ RelinkContactLocks(o, {}) \subseteq RelinkContactLocks(o, os)
<1>1. \A r \in RelinkContactLocks(o, os) : r.how = "lookup"
    BY RelinksLookUp, LockFields DEF RelinkContactLocks
<1>2. ASSUME NEW p \in os
      PROVE  \E r \in RelinkContactLocks(o, os) : r.row = <<"registry", p>> /\ r.mode = "update"
  <2>1. p \in os \cap Domains \/ p \in os \cap Nssets \/ p \in os \cap Keysets
      BY DEF Objects
  <2>2. /\ RelinkLocks(os \cap Domains, 1) \subseteq RelinkContactLocks(o, os)
        /\ RelinkLocks(os \cap Nssets, 3) \subseteq RelinkContactLocks(o, os)
        /\ RelinkLocks(os \cap Keysets, 5) \subseteq RelinkContactLocks(o, os)
      BY DEF RelinkContactLocks
  <2>3. CASE p \in os \cap Domains
    <3>1. RowAsked(RelinkLocks(os \cap Domains, 1), p)
        BY <2>3, RelinkAsksRow
    <3> QED
        BY <2>2, <3>1 DEF RowAsked
  <2>4. CASE p \in os \cap Nssets
    <3>1. RowAsked(RelinkLocks(os \cap Nssets, 3), p)
        BY <2>4, RelinkAsksRow
    <3> QED
        BY <2>2, <3>1 DEF RowAsked
  <2>5. CASE p \in os \cap Keysets
    <3>1. RowAsked(RelinkLocks(os \cap Keysets, 5), p)
        BY <2>5, RelinkAsksRow
    <3> QED
        BY <2>2, <3>1 DEF RowAsked
  <2> QED
      BY <2>1, <2>3, <2>4, <2>5
<1>3. RelinkContactLocks(o, {}) \subseteq RelinkContactLocks(o, os)
    BY DEF RelinkContactLocks, RelinkLocks
<1> QED
    BY <1>1, <1>2, <1>3

-----------------------------------------------------------------------------
(* The inductive invariant                                                 *)

IInv ==
    /\ TypeOK
    /\ WellShaped(db)
    /\ NoDangling(db)
    /\ LocksProtect
    /\ PlanIsKept
    /\ ChecksStayTrue

THEOREM InvInit == Init => IInv
<1> SUFFICES ASSUME Init PROVE IInv
    OBVIOUS
<1> USE DEF Init
<1>1. TypeOK
  <2>1. db \in [Objects -> Entry] /\ WellShaped(db) /\ NoDangling(db)
      BY InitialDbsConsistent
  <2>2. NoList \in [registrant : SUBSET Domains, contact : SUBSET Objects]
      BY DEF NoList
  <2> QED
      BY <2>1, <2>2 DEF TypeOK
<1>2. WellShaped(db) /\ NoDangling(db)
    BY InitialDbsConsistent
<1>3. LocksProtect
    BY DEF LocksProtect
<1>4. PlanIsKept
    BY DEF PlanIsKept, KeepsPlan
<1>5. ChecksStayTrue
    BY DEF ChecksStayTrue, ChecksHold
<1> QED
    BY <1>1, <1>2, <1>3, <1>4, <1>5 DEF IInv

-----------------------------------------------------------------------------
(* Locks and plans                                                         *)

(* A row locked by t, alone.                                               *)
LEMMA Alone ==
    ASSUME LocksProtect, NEW row \in Rows, NEW t \in owner[row], NEW u, Holds(u, row)
    PROVE  t = u
BY DEF LocksProtect, Holds

LEMMA HeldIsLive ==
    ASSUME LocksProtect, NEW o \in Objects, NEW table \in {"registry", "object"},
           NEW t, Holds(t, <<table, o>>)
    PROVE  IsLive(db, o)
<1>1. <<table, o>> \in Rows /\ <<table, o>>[2] = o
    BY DEF Rows
<1> QED
    BY <1>1 DEF LocksProtect, Holds

(* The rows that an operation in a later stage has locked.                 *)
LEMMA LaterStagesHold ==
    ASSUME TypeOK, PlanIsKept, NEW t \in Tx, stage[t] \in {"second", "third"}
    PROVE  LET o == op[t] IN
           /\ o.kind = "delete" => t \in owner[<<"registry", o.obj>>]
           /\ o.kind = "transfer" => t \in owner[<<"object", o.obj>>]
           /\ o.kind = "merge" => /\ t \in owner[<<"registry", o.obj>>]
                                  /\ t \in owner[<<"registry", o.dst>>]
<1>1. \A r \in FirstLocks(op[t]) : Has(t, r)
    BY DEF PlanIsKept, KeepsPlan
<1>2. CASE op[t].kind = "delete"
    BY <1>1, <1>2 DEF FirstLocks, DeleteLocks, Lock, Has
<1>3. CASE op[t].kind = "transfer"
  <2>1. Lock("object", op[t].obj, "update", 2, "lookup") \in FirstLocks(op[t])
      BY <1>3 DEF FirstLocks, TransferLocks
  <2> QED
      BY <1>1, <1>3, <2>1 DEF Lock, Has
<1>4. CASE op[t].kind = "merge"
    BY <1>1, <1>4 DEF FirstLocks, MergeLocks, Lock, Has
<1> QED
    BY <1>2, <1>3, <1>4


(* A transaction that keeps its stage and its locks, and strikes from its  *)
(* plan only what it has got, still keeps its plan.                        *)
LEMMA PlanUndisturbed ==
    ASSUME IInv, NEW u \in Tx, op' = op,
           stage'[u] = stage[u], listed'[u] = listed[u],
           need'[u] \subseteq need[u], \A r \in need[u] \ need'[u] : Has(u, r)',
           \A row \in Rows : /\ u \in owner[row] => u \in owner'[row]
                             /\ u \in sharers[row] => u \in sharers'[row]
    PROVE  KeepsPlan(u)'
<1>1. TypeOK /\ KeepsPlan(u)
    BY DEF IInv, PlanIsKept
<1>2. \A r \in LockRequest : (Has(u, r) => Has(u, r)') /\ (HasOrNeeds(u, r) => HasOrNeeds(u, r)')
    BY DEF Has, HasOrNeeds, LockRequest
<1>3. /\ FirstLocks(op[u]) \subseteq LockRequest
      /\ EraseLocks(op[u]) \subseteq LockRequest
      /\ op[u].kind = "merge" => RelinkContactLocks(op[u], {}) \subseteq LockRequest
    BY <1>1, OpTyped, PlansTyped
<1>4. \A o \in listed[u].registrant \cup listed[u].contact :
          u \in owner[<<"registry", o>>] => u \in owner'[<<"registry", o>>]
  <2>1. \A o \in listed[u].registrant \cup listed[u].contact : <<"registry", o>> \in Rows
      BY <1>1 DEF TypeOK, Rows, Objects
  <2> QED
      BY <2>1
<1>5. stage[u] = "first" => \A r \in FirstLocks(op[u]) : HasOrNeeds(u, r)'
    BY <1>1, <1>2, <1>3 DEF KeepsPlan
<1>6. stage[u] \in {"second", "third"} => \A r \in FirstLocks(op[u]) : Has(u, r)'
    BY <1>1, <1>2, <1>3 DEF KeepsPlan
<1>7. stage[u] = "second" /\ op[u].kind = "delete" =>
          \A r \in EraseLocks(op[u]) : HasOrNeeds(u, r)'
    BY <1>1, <1>2, <1>3 DEF KeepsPlan
<1>8. stage[u] \in {"second", "third"} /\ op[u].kind = "merge" =>
          \A o \in listed[u].registrant \cup listed[u].contact :
              \/ u \in owner'[<<"registry", o>>]
              \/ \E r \in need'[u] : r.row = <<"registry", o>> /\ r.mode = "update"
    BY <1>1, <1>4 DEF KeepsPlan, Has
<1>9. stage[u] = "third" =>
          /\ op[u].kind = "merge"
          /\ \A r \in RelinkContactLocks(op[u], {}) : HasOrNeeds(u, r)'
    BY <1>1, <1>2, <1>3 DEF KeepsPlan
<1>10. \A r \in need'[u] : r.optional =>
          /\ stage[u] \in {"second", "third"}
          /\ op[u].kind = "transfer" \/ (op[u].kind = "merge" /\ r.how = "lookup")
    BY <1>1 DEF KeepsPlan
<1> QED
    BY <1>5, <1>6, <1>7, <1>8, <1>9, <1>10 DEF KeepsPlan

-----------------------------------------------------------------------------
(* The end of a transaction                                                *)

(* Transaction t changes the register only where its locks allow it to:    *)
(* it erases only what it has locked FOR UPDATE, moves only an object      *)
(* whose row of object it has locked, and makes or cuts a link to a        *)
(* contact, nsset or keyset only with the object_registry row of that one  *)
(* locked.  It never uses an identifier twice.                             *)
CoveredWrite(t) ==
    \A o \in Objects :
        /\ db[o].life # "free" =>
              db'[o].life # "free" /\ (IsLive(db', o) => IsLive(db, o))
        /\ IsLive(db, o) =>
              \/ IsLive(db', o)
              \/ t \in owner[<<"registry", o>>] /\ t \in owner[<<"object", o>>]
        /\ IsLive(db, o) =>
              db'[o].sponsor = db[o].sponsor \/ t \in owner[<<"object", o>>]
        /\ IsLive(db', o) =>
              \A r \in References(db'[o]) :
                 \/ IsLive(db, o) /\ r \in References(db[o])
                 \/ Holds(t, <<"registry", r>>)
        /\ IsLive(db', o) /\ db'[o].registrant # NoObject =>
              \/ IsLive(db, o) /\ db[o].registrant = db'[o].registrant
              \/ Holds(t, <<"registry", db'[o].registrant>>)
        /\ IsLive(db', o) =>
              \A c \in db'[o].contacts :
                 \/ IsLive(db, o) /\ c \in db[o].contacts
                 \/ Holds(t, <<"registry", c>>)
        /\ IsLive(db, o) /\ IsLive(db', o) =>
              \A c \in db[o].contacts :
                 c \in db'[o].contacts \/ Holds(t, <<"registry", c>>)

LEMMA NoWriteIsCovered ==
    ASSUME NEW t \in Tx, UNCHANGED db
    PROVE  CoveredWrite(t)
BY DEF CoveredWrite

LEMMA EndKeepsType ==
    ASSUME IInv, NEW t \in Tx, NEW outcome \in Ended, End(t, outcome),
           db' \in [Objects -> Entry]
    PROVE  TypeOK'
<1>1. NoList \in [registrant : SUBSET Domains, contact : SUBSET Objects]
    BY DEF NoList
<1> QED
    BY <1>1 DEF IInv, TypeOK, End

LEMMA EndKeepsLocks ==
    ASSUME IInv, NEW t \in Tx, NEW outcome \in Ended, End(t, outcome), CoveredWrite(t)
    PROVE  LocksProtect'
<1>1. \A row \in Rows : owner'[row] = owner[row] \ {t} /\ sharers'[row] = sharers[row] \ {t}
    BY DEF End
<1> SUFFICES ASSUME NEW row \in Rows
             PROVE  /\ \A v \in owner'[row], u \in owner'[row] \cup sharers'[row] : v = u
                    /\ owner'[row] \cup sharers'[row] # {} => IsLive(db', row[2])
    BY DEF LocksProtect
<1>2. \A v \in owner'[row], u \in owner'[row] \cup sharers'[row] : v = u
    BY <1>1 DEF IInv, LocksProtect
<1>3. ASSUME NEW u \in owner'[row] \cup sharers'[row]
      PROVE  IsLive(db', row[2])
  <2>1. u \in owner[row] \cup sharers[row] /\ u # t
      BY <1>1, <1>3
  <2>2. IsLive(db, row[2])
      BY <2>1 DEF IInv, LocksProtect
  <2>3. row[2] \in Objects /\ (row = <<"registry", row[2]>> \/ row = <<"object", row[2]>>)
      BY DEF Rows
  <2>4. t \notin owner[row]
      BY <2>1 DEF IInv, LocksProtect
  <2> QED
      BY <2>2, <2>3, <2>4 DEF CoveredWrite
<1> QED
    BY <1>2, <1>3


LEMMA EndKeepsPlan ==
    ASSUME IInv, NEW t \in Tx, NEW outcome \in Ended, End(t, outcome)
    PROVE  PlanIsKept'
<1> SUFFICES ASSUME NEW u \in Tx PROVE KeepsPlan(u)'
    BY DEF PlanIsKept
<1>1. CASE u = t
  <2>1. stage'[u] = outcome /\ need'[u] = {}
      BY <1>1 DEF End, IInv, TypeOK
  <2> QED
      BY <2>1 DEF KeepsPlan
<1>2. CASE u # t
  <2>1. /\ op' = op
        /\ stage'[u] = stage[u] /\ need'[u] = need[u] /\ listed'[u] = listed[u]
        /\ \A row \in Rows : /\ u \in owner[row] => u \in owner'[row]
                             /\ u \in sharers[row] => u \in sharers'[row]
      BY <1>2 DEF End, IInv, TypeOK
  <2> QED
      BY <2>1, PlanUndisturbed
<1> QED
    BY <1>1, <1>2

(* What another transaction has read stays true.                           *)
LEMMA ChecksUndisturbed ==
    ASSUME IInv, NEW t \in Tx, CoveredWrite(t), NEW u \in Tx, u # t, op' = op,
           stage'[u] = stage[u], listed'[u] = listed[u], db' \in [Objects -> Entry]
    PROVE  ChecksHold(u)'
<1> DEFINE o == op[u].obj
<1>1. /\ TypeOK /\ LocksProtect /\ PlanIsKept /\ ChecksHold(u)
      /\ o \in Objects /\ <<"registry", o>> \in Rows /\ <<"object", o>> \in Rows
    BY OpTyped DEF IInv, ChecksStayTrue, Rows
<1>2. u \in owner[<<"registry", o>>] => ~Holds(t, <<"registry", o>>)
    BY <1>1, Alone
<1>3. u \in owner[<<"object", o>>] => ~Holds(t, <<"object", o>>) /\ IsLive(db, o)
    BY <1>1, Alone, HeldIsLive DEF Holds
<1>4. ASSUME stage[u] = "second", op[u].kind = "delete", o \notin Domains
      PROVE  ~IsLinked(db', o)
  <2>1. ~Holds(t, <<"registry", o>>)
      BY <1>1, <1>2, <1>4, LaterStagesHold
  <2>2. ~IsLinked(db, o)
      BY <1>1, <1>4 DEF ChecksHold
  <2> QED
      BY <2>1, <2>2 DEF IsLinked, CoveredWrite
<1>5. ASSUME stage[u] = "second", op[u].kind = "transfer"
      PROVE  db'[o].sponsor # op[u].registrar
  <2>1. ~Holds(t, <<"object", o>>) /\ IsLive(db, o)
      BY <1>1, <1>3, <1>5, LaterStagesHold
  <2>2. db[o].sponsor # op[u].registrar
      BY <1>1, <1>5 DEF ChecksHold
  <2> QED
      BY <1>1, <2>1, <2>2 DEF CoveredWrite, Holds
<1>6. ASSUME stage[u] \in {"second", "third"}, op[u].kind = "merge"
      PROVE  /\ RegisteredBy(db', o) \subseteq RegisteredBy(db, o)
             /\ \A p \in Objects : IsLive(db', p) =>
                   (o \in db'[p].contacts <=> IsLive(db, p) /\ o \in db[p].contacts)
  <2>1. ~Holds(t, <<"registry", o>>)
      BY <1>1, <1>2, <1>6, LaterStagesHold
  <2>2. o # NoObject
      BY <1>1, TypesDisjoint
  <2>3. RegisteredBy(db', o) \subseteq RegisteredBy(db, o)
      BY <2>1, <2>2 DEF RegisteredBy, CoveredWrite, Objects
  <2>4. ASSUME NEW p \in Objects, IsLive(db', p)
        PROVE  o \in db'[p].contacts <=> IsLive(db, p) /\ o \in db[p].contacts
      BY <2>1, <2>4 DEF CoveredWrite
  <2> QED
      BY <2>3, <2>4
<1>7. ASSUME stage[u] \in {"second", "third"}, op[u].kind = "merge"
      PROVE  RegisteredBy(db', o) \subseteq listed[u].registrant
    BY <1>1, <1>6, <1>7 DEF ChecksHold
<1>8. ASSUME stage[u] = "third"
      PROVE  /\ ContactOf(db', o) = {p \in listed[u].contact : IsLive(db', p)}
             /\ \A p \in listed[u].contact : db'[p].life # "free"
  <2>1. op[u].kind = "merge"
      BY <1>1, <1>8 DEF PlanIsKept, KeepsPlan
  <2>2. listed[u].contact \subseteq Objects
      BY <1>1 DEF TypeOK
  <2>3. /\ ContactOf(db, o) = {p \in listed[u].contact : IsLive(db, p)}
        /\ \A p \in listed[u].contact : db[p].life # "free"
      BY <1>1, <1>8 DEF ChecksHold
  <2>4. \A p \in listed[u].contact :
           db'[p].life # "free" /\ (IsLive(db', p) => IsLive(db, p))
      BY <2>2, <2>3 DEF CoveredWrite
  <2>5. ASSUME NEW p \in Objects, IsLive(db', p)
        PROVE  o \in db'[p].contacts <=> IsLive(db, p) /\ o \in db[p].contacts
      BY <1>6, <1>8, <2>1, <2>5
  <2> QED
      BY <2>2, <2>3, <2>4, <2>5 DEF ContactOf
<1> QED
    BY <1>4, <1>5, <1>7, <1>8 DEF ChecksHold

LEMMA EndKeepsChecks ==
    ASSUME IInv, NEW t \in Tx, NEW outcome \in Ended, End(t, outcome), CoveredWrite(t),
           db' \in [Objects -> Entry]
    PROVE  ChecksStayTrue'
<1> SUFFICES ASSUME NEW u \in Tx PROVE ChecksHold(u)'
    BY DEF ChecksStayTrue
<1>1. CASE u = t
  <2>1. stage'[u] = outcome
      BY <1>1 DEF End, IInv, TypeOK
  <2> QED
      BY <2>1 DEF ChecksHold
<1>2. CASE u # t
  <2>1. op' = op /\ stage'[u] = stage[u] /\ listed'[u] = listed[u]
      BY <1>2 DEF End, IInv, TypeOK
  <2> QED
      BY <1>2, <2>1, ChecksUndisturbed
<1> QED
    BY <1>1, <1>2

(* Ending a transaction keeps the invariant, whatever it has written under *)
(* its locks.                                                              *)
LEMMA EndKeepsInv ==
    ASSUME IInv, NEW t \in Tx, NEW outcome \in Ended, End(t, outcome),
           Consistent(db'), CoveredWrite(t)
    PROVE  IInv'
<1>1. db' \in [Objects -> Entry] /\ WellShaped(db') /\ NoDangling(db')
    BY DEF Consistent, Contents
<1> QED
    BY <1>1, EndKeepsType, EndKeepsLocks, EndKeepsPlan, EndKeepsChecks DEF IInv

-----------------------------------------------------------------------------
(* Steps that take a lock or enter the next stage                          *)

LEMMA StepKeepsInv ==
    ASSUME IInv, NEW t \in Tx, UNCHANGED <<db, op>>,
           \A u \in Tx \ {t} :
              stage'[u] = stage[u] /\ need'[u] = need[u] /\ listed'[u] = listed[u],
           \A row \in Rows : owner[row] \subseteq owner'[row] /\ sharers[row] \subseteq sharers'[row],
           TypeOK', LocksProtect', KeepsPlan(t)', ChecksHold(t)'
    PROVE  IInv'
<1>1. WellShaped(db)' /\ NoDangling(db)'
    BY DEF IInv
<1>2. PlanIsKept'
  <2> SUFFICES ASSUME NEW u \in Tx, u # t PROVE KeepsPlan(u)'
      BY DEF PlanIsKept
  <2> QED
      BY PlanUndisturbed
<1>3. ChecksStayTrue'
  <2> SUFFICES ASSUME NEW u \in Tx, u # t PROVE ChecksHold(u)'
      BY DEF ChecksStayTrue
  <2>1. db' \in [Objects -> Entry]
      BY DEF TypeOK
  <2>2. CoveredWrite(t)
      BY NoWriteIsCovered
  <2> QED
      BY <2>1, <2>2, ChecksUndisturbed
<1> QED
    BY <1>1, <1>2, <1>3 DEF IInv

(* A transaction starts its operation.                                     *)
LEMMA StartKeepsInv ==
    ASSUME IInv, NEW t \in Tx, Start(t)
    PROVE  IInv'
<1>1. TypeOK /\ LocksProtect
    BY DEF IInv
<1>2. FirstLocks(op[t]) \subseteq LockRequest
    BY <1>1, OpTyped, PlansTyped
<1>3. TypeOK'
    BY <1>1, <1>2 DEF TypeOK, Start, Enter, lockVars
<1>4. LocksProtect'
    BY <1>1 DEF LocksProtect, Start, lockVars
<1>5. stage'[t] = "first" /\ need'[t] = FirstLocks(op[t]) /\ op' = op
    BY <1>1 DEF Start, Enter, TypeOK
<1>6. \A r \in FirstLocks(op[t]) : ~r.optional
    BY <1>1, OpTyped, FirstLocksNeeded
<1>7. KeepsPlan(t)'
    BY <1>5, <1>6 DEF KeepsPlan, HasOrNeeds
<1>8. ChecksHold(t)'
    BY <1>5 DEF ChecksHold
<1>9. \A u \in Tx \ {t} :
          stage'[u] = stage[u] /\ need'[u] = need[u] /\ listed'[u] = listed[u]
    BY <1>1 DEF Start, Enter, TypeOK
<1> QED
    BY <1>3, <1>4, <1>7, <1>8, <1>9, StepKeepsInv DEF Start, lockVars

(* A look-up begins.                                                       *)
LEMMA BeginLookupKeepsInv ==
    ASSUME IInv, NEW t \in Tx, BeginLookup(t)
    PROVE  IInv'
<1>1. TypeOK /\ LocksProtect /\ KeepsPlan(t) /\ ChecksHold(t)
    BY DEF IInv, PlanIsKept, ChecksStayTrue
<1>2. PICK r \in Foremost(need[t]) :
          /\ waiting' = [waiting EXCEPT ![t] = {r}]
          /\ seen' = [seen EXCEPT ![t] = db[r.row[2]].historyid]
    BY DEF BeginLookup
<1>3. r \in LockRequest /\ r.row[2] \in Objects /\ db[r.row[2]].historyid \in Nat
    BY <1>1, <1>2 DEF TypeOK, Foremost, LockRequest, Rows, Entry
<1>4. UNCHANGED <<db, op, stage, need, listed, owner, sharers>>
    BY DEF BeginLookup, lockVars
<1>5. TypeOK'
    BY <1>1, <1>2, <1>3, <1>4 DEF TypeOK
<1>6. LocksProtect'
    BY <1>1, <1>4 DEF LocksProtect
<1>7. KeepsPlan(t)'
    BY <1>1, <1>4, PlanUndisturbed
<1>8. ChecksHold(t)'
    BY <1>1, <1>4 DEF ChecksHold
<1> QED
    BY <1>4, <1>5, <1>6, <1>7, <1>8, StepKeepsInv

(* A row is locked.                                                        *)
LEMMA GetLockKeepsInv ==
    ASSUME IInv, NEW t \in Tx, GetLock(t)
    PROVE  IInv'
<1>1. TypeOK /\ LocksProtect /\ KeepsPlan(t) /\ ChecksHold(t)
    BY DEF IInv, PlanIsKept, ChecksStayTrue
<1>2. PICK r \in waiting[t] :
        /\ Blockers(t, r) = {}
        /\ Found(t, r)
        /\ need' = [need EXCEPT ![t] = @ \ {r}]
        /\ waiting' = [waiting EXCEPT ![t] = {}]
        /\ seen' = [seen EXCEPT ![t] = 0]
        /\ owner' = IF r.mode = "update" THEN [owner EXCEPT ![r.row] = @ \cup {t}] ELSE owner
        /\ sharers' = IF r.mode = "share" THEN [sharers EXCEPT ![r.row] = @ \cup {t}] ELSE sharers
        /\ UNCHANGED <<db, op, stage, listed>>
    BY DEF GetLock
<1>3. r \in LockRequest /\ r.row \in Rows /\ r.mode \in {"share", "update"}
    BY <1>1, <1>2 DEF TypeOK, LockRequest
<1>4. TypeOK'
    BY <1>1, <1>2, <1>3 DEF TypeOK
<1>5. LocksProtect'
  <2> SUFFICES ASSUME NEW row \in Rows
               PROVE  /\ \A v \in owner'[row], u \in owner'[row] \cup sharers'[row] : v = u
                      /\ owner'[row] \cup sharers'[row] # {} => IsLive(db, row[2])
      BY <1>2 DEF LocksProtect
  <2>1. CASE row # r.row
    <3>1. owner'[row] = owner[row] /\ sharers'[row] = sharers[row]
        BY <1>1, <1>2, <2>1 DEF TypeOK
    <3> QED
        BY <1>1, <3>1 DEF LocksProtect
  <2>2. CASE row = r.row
    <3>1. IsLive(db, row[2])
        BY <1>2, <2>2 DEF Found
    <3>2. CASE r.mode = "update"
      <4>1. owner'[row] = owner[row] \cup {t} /\ sharers'[row] = sharers[row]
          BY <1>1, <1>2, <2>2, <3>2 DEF TypeOK
      <4>2. owner[row] \cup sharers[row] \subseteq {t}
          BY <1>2, <2>2, <3>2 DEF Blockers
      <4> QED
          BY <3>1, <4>1, <4>2
    <3>3. CASE r.mode = "share"
      <4>1. owner'[row] = owner[row] /\ sharers'[row] = sharers[row] \cup {t}
          BY <1>1, <1>2, <2>2, <3>3 DEF TypeOK
      <4>2. owner[row] \subseteq {t}
          BY <1>2, <2>2, <3>3 DEF Blockers
      <4> QED
          BY <1>1, <3>1, <4>1, <4>2 DEF LocksProtect
    <3> QED
        BY <1>3, <3>2, <3>3
  <2> QED
      BY <2>1, <2>2
<1>6. \A row \in Rows : owner[row] \subseteq owner'[row] /\ sharers[row] \subseteq sharers'[row]
    BY <1>1, <1>2, <1>3 DEF TypeOK
<1>7. ChecksHold(t)'
    BY <1>1, <1>2 DEF ChecksHold
<1>8. KeepsPlan(t)'
  <2>1. need'[t] = need[t] \ {r}
      BY <1>1, <1>2 DEF TypeOK
  <2>2. Has(t, r)'
      BY <1>1, <1>2, <1>3 DEF Has, TypeOK
  <2> QED
      BY <1>2, <1>6, <2>1, <2>2, PlanUndisturbed
<1>9. \A u \in Tx \ {t} :
          stage'[u] = stage[u] /\ need'[u] = need[u] /\ listed'[u] = listed[u]
    BY <1>1, <1>2 DEF TypeOK
<1> QED
    BY <1>2, <1>4, <1>5, <1>6, <1>7, <1>8, <1>9, StepKeepsInv

(* A row that is gone is left out.                                         *)
LEMMA SkipMissingKeepsInv ==
    ASSUME IInv, NEW t \in Tx, SkipMissing(t)
    PROVE  IInv'
<1>1. TypeOK /\ LocksProtect /\ PlanIsKept /\ KeepsPlan(t) /\ ChecksHold(t)
    BY DEF IInv, PlanIsKept, ChecksStayTrue
<1>2. PICK r \in need[t] :
        /\ Misses(t, r) /\ r.optional
        /\ need' = [need EXCEPT ![t] = {s \in @ : s.row[2] # r.row[2]}]
        /\ listed' = [listed EXCEPT ![t] = [registrant |-> @.registrant \ {r.row[2]},
                                            contact |-> @.contact \ {r.row[2]}]]
    BY DEF SkipMissing
<1> DEFINE gone == r.row[2]
<1>3. /\ waiting' = [waiting EXCEPT ![t] = {}]
      /\ seen' = [seen EXCEPT ![t] = 0]
      /\ UNCHANGED <<db, op, stage, owner, sharers>>
    BY DEF SkipMissing, lockVars
<1>4. /\ stage[t] \in {"second", "third"}
      /\ op[t].kind = "transfer" \/ (op[t].kind = "merge" /\ r.how = "lookup")
    BY <1>1, <1>2 DEF KeepsPlan
<1>5. op[t].kind = "merge" => ~IsLive(db, gone)
    BY <1>2, <1>4 DEF Misses, Found
<1>6. /\ need'[t] = {s \in need[t] : s.row[2] # gone}
      /\ listed'[t].registrant = listed[t].registrant \ {gone}
      /\ listed'[t].contact = listed[t].contact \ {gone}
    BY <1>1, <1>2 DEF TypeOK
<1>7. TypeOK'
  <2>1. [registrant |-> listed[t].registrant \ {gone}, contact |-> listed[t].contact \ {gone}]
           \in [registrant : SUBSET Domains, contact : SUBSET Objects]
      BY <1>1 DEF TypeOK
  <2> QED
      BY <1>1, <1>2, <1>3, <2>1 DEF TypeOK
<1>8. LocksProtect'
    BY <1>1, <1>3 DEF LocksProtect
<1>9. KeepsPlan(t)'
  <2>1. \A r2 \in FirstLocks(op[t]) : Has(t, r2)'
      BY <1>1, <1>3, <1>4 DEF KeepsPlan, Has
  <2>2. ASSUME op[t].kind = "merge", NEW o \in listed'[t].registrant \cup listed'[t].contact
        PROVE  \/ t \in owner'[<<"registry", o>>]
               \/ \E r2 \in need'[t] : r2.row = <<"registry", o>> /\ r2.mode = "update"
    <3>1. o # gone /\ o \in listed[t].registrant \cup listed[t].contact
        BY <1>6
    <3>2. \/ t \in owner[<<"registry", o>>]
          \/ \E r2 \in need[t] : r2.row = <<"registry", o>> /\ r2.mode = "update"
        BY <1>1, <1>4, <2>2, <3>1 DEF KeepsPlan
    <3>3. ASSUME NEW r2 \in need[t], r2.row = <<"registry", o>>
          PROVE  r2 \in need'[t]
      <4>1. r2.row[2] = o
          BY <3>3
      <4> QED
          BY <1>6, <3>1, <4>1
    <3> QED
        BY <1>3, <3>2, <3>3
  <2>3. ASSUME stage[t] = "third"
        PROVE  /\ op[t].kind = "merge"
               /\ \A r2 \in RelinkContactLocks(op[t], {}) : HasOrNeeds(t, r2)'
    <3>1. op[t].kind = "merge"
        BY <1>1, <2>3 DEF KeepsPlan
    <3>2. IsLive(db, op[t].obj) /\ IsLive(db, op[t].dst)
        BY <1>1, <2>3, <3>1, LaterStagesHold, HeldIsLive, OpTyped DEF Holds, Objects
    <3>3. ASSUME NEW r2 \in RelinkContactLocks(op[t], {})
          PROVE  HasOrNeeds(t, r2)'
      <4>1. r2.row[2] = op[t].obj \/ r2.row[2] = op[t].dst
          BY LockFields DEF RelinkContactLocks, RelinkLocks
      <4>2. HasOrNeeds(t, r2)
          BY <1>1, <2>3 DEF KeepsPlan
      <4> QED
          BY <1>3, <1>5, <1>6, <3>1, <3>2, <4>1, <4>2 DEF HasOrNeeds, Has
    <3> QED
        BY <3>1, <3>3
  <2>4. need'[t] \subseteq need[t]
      BY <1>6
  <2> QED
      BY <1>1, <1>3, <1>4, <2>1, <2>2, <2>3, <2>4 DEF KeepsPlan
<1>10. ChecksHold(t)'
  <2>1. op[t].kind = "merge" =>
           /\ gone \notin RegisteredBy(db, op[t].obj)
           /\ {o \in listed'[t].contact : IsLive(db, o)} = {o \in listed[t].contact : IsLive(db, o)}
      BY <1>5, <1>6 DEF RegisteredBy
  <2>2. stage[t] = "third" => op[t].kind = "merge"
      BY <1>1 DEF KeepsPlan
  <2> QED
      BY <1>1, <1>3, <1>4, <1>6, <2>1, <2>2 DEF ChecksHold
<1>11. \A u \in Tx \ {t} :
          stage'[u] = stage[u] /\ need'[u] = need[u] /\ listed'[u] = listed[u]
    BY <1>1, <1>2, <1>3 DEF TypeOK
<1> QED
    BY <1>3, <1>7, <1>8, <1>9, <1>10, <1>11, StepKeepsInv

(* A transaction enters its second or third stage.                         *)
LEMMA EnterKeepsInv ==
    ASSUME IInv, NEW t \in Tx, NEW s \in {"second", "third"}, NEW requests \in SUBSET LockRequest,
           Enter(t, s, requests), UNCHANGED <<db, op, waiting, seen, lockVars>>,
           NEW l \in [registrant : SUBSET Domains, contact : SUBSET Objects],
           listed' = [listed EXCEPT ![t] = l],
           KeepsPlan(t)', ChecksHold(t)'
    PROVE  IInv'
<1>1. TypeOK /\ LocksProtect
    BY DEF IInv
<1>2. TypeOK'
    BY <1>1 DEF TypeOK, Enter, lockVars
<1>3. LocksProtect'
    BY <1>1 DEF LocksProtect, lockVars
<1>4. \A u \in Tx \ {t} :
          stage'[u] = stage[u] /\ need'[u] = need[u] /\ listed'[u] = listed[u]
    BY <1>1 DEF TypeOK, Enter
<1> QED
    BY <1>2, <1>3, <1>4, StepKeepsInv DEF lockVars

(* The locks that an operation has when its first stage is done.           *)
LEMMA FirstStageDone ==
    ASSUME TypeOK, NEW t \in Tx, KeepsPlan(t), Ready(t, "first")
    PROVE  \A r \in FirstLocks(op[t]) : Has(t, r)
BY DEF KeepsPlan, Ready, HasOrNeeds

(* An unlinked object is going to be deleted.                              *)
LEMMA CheckNotLinkedKeepsInv ==
    ASSUME IInv, NEW t \in Tx, CheckNotLinked(t)
    PROVE  IInv'
<1>1. TypeOK /\ KeepsPlan(t)
    BY DEF IInv, PlanIsKept
<1>2. op[t].kind = "delete" /\ Ready(t, "first") /\ UNCHANGED db
    BY DEF CheckNotLinked
<1>3. CASE /\ op[t].obj \in Domains \/ ~IsLinked(db, op[t].obj)
           /\ Enter(t, "second", EraseLocks(op[t]))
           /\ UNCHANGED <<op, waiting, seen, listed, lockVars>>
  <2>1. EraseLocks(op[t]) \in SUBSET LockRequest
      BY <1>1, OpTyped, PlansTyped
  <2>2. stage'[t] = "second" /\ need'[t] = EraseLocks(op[t])
      BY <1>1, <1>3 DEF Enter, TypeOK
  <2>3. \A r \in FirstLocks(op[t]) : Has(t, r)'
      BY <1>1, <1>2, <1>3, FirstStageDone DEF Has, lockVars
  <2>4. \A r \in EraseLocks(op[t]) : ~r.optional
      BY <1>1, OpTyped, FirstLocksNeeded
  <2>5. KeepsPlan(t)'
      BY <1>2, <1>3, <2>2, <2>3, <2>4 DEF KeepsPlan, HasOrNeeds
  <2>6. ChecksHold(t)'
      BY <1>2, <1>3, <2>2 DEF ChecksHold
  <2>7. listed' = [listed EXCEPT ![t] = listed[t]]
        /\ listed[t] \in [registrant : SUBSET Domains, contact : SUBSET Objects]
      BY <1>1, <1>3 DEF TypeOK
  <2> QED
      BY <1>2, <1>3, <2>1, <2>5, <2>6, <2>7, EnterKeepsInv
<1>4. CASE End(t, "refused")
  <2>1. Consistent(db')
      BY <1>2 DEF IInv, TypeOK, Consistent, Contents
  <2> QED
      BY <1>2, <1>4, <2>1, NoWriteIsCovered, EndKeepsInv
<1> QED
    BY <1>3, <1>4 DEF CheckNotLinked

(* The object to transfer has another sponsor.                             *)
LEMMA CheckSponsorKeepsInv ==
    ASSUME IInv, NEW t \in Tx, CheckSponsor(t)
    PROVE  IInv'
<1> DEFINE entry == db[op[t].obj]
           requests == AuthorizeLocks(op[t], entry.contacts \cup {entry.registrant})
<1>1. TypeOK /\ KeepsPlan(t)
    BY DEF IInv, PlanIsKept
<1>2. op[t].kind = "transfer" /\ Ready(t, "first") /\ UNCHANGED db
    BY DEF CheckSponsor
<1>3. CASE /\ entry.sponsor # op[t].registrar
           /\ Enter(t, "second", requests)
           /\ UNCHANGED <<op, waiting, seen, listed, lockVars>>
  <2>1. entry \in Entry
      BY <1>1, OpTyped DEF TypeOK
  <2>2. entry.contacts \cup {entry.registrant} \in SUBSET (Contacts \cup {NoObject})
      BY <2>1 DEF Entry
  <2>3. requests \in SUBSET LockRequest
      BY <1>1, <2>2, OpTyped, PlansTyped
  <2> HIDE DEF requests
  <2>4. stage'[t] = "second" /\ need'[t] = requests
      BY <1>1, <1>3 DEF Enter, TypeOK
  <2>5. \A r \in FirstLocks(op[t]) : Has(t, r)'
      BY <1>1, <1>2, <1>3, FirstStageDone DEF Has, lockVars
  <2>6. KeepsPlan(t)'
      BY <1>2, <1>3, <2>4, <2>5 DEF KeepsPlan
  <2>7. ChecksHold(t)'
      BY <1>2, <1>3, <2>4 DEF ChecksHold
  <2>8. listed' = [listed EXCEPT ![t] = listed[t]]
        /\ listed[t] \in [registrant : SUBSET Domains, contact : SUBSET Objects]
      BY <1>1, <1>3 DEF TypeOK
  <2> QED
      BY <1>2, <1>3, <2>3, <2>6, <2>7, <2>8, EnterKeepsInv
<1>4. CASE End(t, "refused")
  <2>1. Consistent(db')
      BY <1>2 DEF IInv, TypeOK, Consistent, Contents
  <2> QED
      BY <1>2, <1>4, <2>1, NoWriteIsCovered, EndKeepsInv
<1> QED
    BY <1>3, <1>4 DEF CheckSponsor

(* A merge has listed the domains of its source.                           *)
LEMMA ListRegistrantsKeepsInv ==
    ASSUME IInv, NEW t \in Tx, ListRegistrants(t)
    PROVE  IInv'
<1> DEFINE os == RegisteredBy(db, op[t].obj)
           l == [registrant |-> os, contact |-> {}]
           requests == RelinkLocks(os, 1)
<1>1. TypeOK /\ KeepsPlan(t)
    BY DEF IInv, PlanIsKept
<1>2. /\ op[t].kind = "merge" /\ Ready(t, "first")
      /\ listed' = [listed EXCEPT ![t] = l]
      /\ Enter(t, "second", requests)
      /\ UNCHANGED <<db, op, waiting, seen, lockVars>>
    BY DEF ListRegistrants
<1>3. os \subseteq Domains /\ os \in SUBSET Objects
    BY DEF RegisteredBy, Objects
<1>4. requests \in SUBSET LockRequest
    BY <1>3, RelinkTyped
<1>5. /\ \A r \in requests : r.how = "lookup"
      /\ \A p \in os : RowAsked(requests, p)
    BY RelinksLookUp
<1> HIDE DEF requests
<1>6. stage'[t] = "second" /\ need'[t] = requests /\ listed'[t] = l
    BY <1>1, <1>2 DEF Enter, TypeOK
<1>7. \A r \in FirstLocks(op[t]) : Has(t, r)'
    BY <1>1, <1>2, FirstStageDone DEF Has, lockVars
<1>8. KeepsPlan(t)'
    BY <1>2, <1>5, <1>6, <1>7 DEF KeepsPlan, RowAsked
<1>9. ChecksHold(t)'
    BY <1>2, <1>6 DEF ChecksHold
<1>10. l \in [registrant : SUBSET Domains, contact : SUBSET Objects]
    BY <1>3
<1> QED
    BY <1>2, <1>4, <1>8, <1>9, <1>10, EnterKeepsInv

(* A merge has locked those and lists what its source is a contact of.     *)
LEMMA ListContactsKeepsInv ==
    ASSUME IInv, NEW t \in Tx, ListContacts(t)
    PROVE  IInv'
<1> DEFINE os == ContactOf(db, op[t].obj)
           l == [listed[t] EXCEPT !.contact = os]
           requests == RelinkContactLocks(op[t], os)
<1>1. TypeOK /\ WellShaped(db) /\ KeepsPlan(t) /\ ChecksHold(t)
    BY DEF IInv, PlanIsKept, ChecksStayTrue
<1>2. /\ op[t].kind = "merge" /\ stage[t] = "second" /\ need[t] = {}
      /\ listed' = [listed EXCEPT ![t] = l]
      /\ Enter(t, "third", requests)
      /\ UNCHANGED <<db, op, waiting, seen, lockVars>>
    BY DEF ListContacts, Ready
<1>3. os \in SUBSET (Objects \ Contacts)
    BY <1>1, TypesDisjoint DEF ContactOf, WellShaped, Objects
<1>4. requests \in SUBSET LockRequest
    BY <1>1, <1>2, <1>3, OpTyped, PlansTyped
<1>5. /\ \A r \in requests : r.how = "lookup"
      /\ \A p \in os : \E r \in requests : r.row = <<"registry", p>> /\ r.mode = "update"
      /\ RelinkContactLocks(op[t], {}) \subseteq requests
    BY <1>1, <1>3, OpTyped, RelinkContactsLookUp
<1>6. l \in [registrant : SUBSET Domains, contact : SUBSET Objects]
      /\ l.registrant = listed[t].registrant /\ l.contact = os
    BY <1>1, <1>3 DEF TypeOK
<1>7. \A p \in os : IsLive(db, p)
    BY DEF ContactOf
<1> HIDE DEF requests, l
<1>8. stage'[t] = "third" /\ need'[t] = requests /\ listed'[t] = l
    BY <1>1, <1>2 DEF Enter, TypeOK
<1>9. \A r \in FirstLocks(op[t]) : Has(t, r)'
    BY <1>1, <1>2 DEF KeepsPlan, Has, lockVars
<1>10. \A o \in listed[t].registrant : t \in owner'[<<"registry", o>>]
    BY <1>1, <1>2 DEF KeepsPlan, lockVars
<1>11. KeepsPlan(t)'
    BY <1>2, <1>5, <1>6, <1>8, <1>9, <1>10 DEF KeepsPlan, HasOrNeeds
<1>12. ChecksHold(t)'
  <2>1. RegisteredBy(db, op[t].obj) \subseteq l.registrant
      BY <1>1, <1>2, <1>6 DEF ChecksHold
  <2>2. os = {o \in os : IsLive(db, o)} /\ \A o \in os : db[o].life # "free"
      BY <1>7 DEF IsLive
  <2> QED
      BY <1>2, <1>6, <1>8, <2>1, <2>2 DEF ChecksHold
<1> QED
    BY <1>2, <1>4, <1>6, <1>11, <1>12, EnterKeepsInv

-----------------------------------------------------------------------------
(* Steps that end a transaction                                            *)

(* A transaction that ends without writing: refused, unknown object,       *)
(* rolled back, chosen by the deadlock detector.                           *)
LEMMA AbortKeepsInv ==
    ASSUME IInv, NEW t \in Tx, NEW outcome \in Ended, End(t, outcome), UNCHANGED db
    PROVE  IInv'
<1>1. Consistent(db')
    BY DEF IInv, TypeOK, Consistent, Contents
<1> QED
    BY <1>1, NoWriteIsCovered, EndKeepsInv

(* What create and update link, and what update unlinks, is locked.        *)
LEMMA ShareHolds ==
    ASSUME NEW t, NEW os, NEW rank, NEW o \in os, o # NoObject,
           \A r \in Share(os, rank) : Has(t, r)
    PROVE  Holds(t, <<"registry", o>>)
<1> DEFINE r == Lock("registry", o, "share", rank, "lookup")
<1>1. r \in Share(os, rank)
    BY DEF Share
<1>2. Has(t, r) /\ r.row = <<"registry", o>> /\ r.mode = "share"
    BY <1>1, LockFields
<1> HIDE DEF r
<1> QED
    BY <1>2 DEF Has, Holds

LEMMA CreateHolds ==
    ASSUME NEW t \in Tx, NEW o \in Operation, o.kind = "create",
           \A r \in FirstLocks(o) : Has(t, r)
    PROVE  \A r \in NewReferences(o) : Holds(t, <<"registry", r>>)
<1>1. /\ \A r \in Share({o.registrant}, 1) : Has(t, r)
      /\ \A r \in Share({o.nsset}, 2) : Has(t, r)
      /\ \A r \in Share({o.keyset}, 3) : Has(t, r)
      /\ \A r \in Share(o.add, 4) : Has(t, r)
    BY DEF FirstLocks, CreateLocks
<1>2. SUFFICES ASSUME NEW r \in NewReferences(o) PROVE Holds(t, <<"registry", r>>)
    OBVIOUS
<1>3. r # NoObject /\ (r \in {o.registrant} \/ r \in {o.nsset} \/ r \in {o.keyset} \/ r \in o.add)
    BY <1>2 DEF NewReferences
<1>4. CASE r \in {o.registrant}
    BY <1>1, <1>3, <1>4, ShareHolds
<1>5. CASE r \in {o.nsset}
    BY <1>1, <1>3, <1>5, ShareHolds
<1>6. CASE r \in {o.keyset}
    BY <1>1, <1>3, <1>6, ShareHolds
<1>7. CASE r \in o.add
    BY <1>1, <1>3, <1>7, ShareHolds
<1> QED
    BY <1>3, <1>4, <1>5, <1>6, <1>7

LEMMA UpdateHolds ==
    ASSUME NEW t \in Tx, NEW o \in Operation, o.kind = "update",
           \A r \in FirstLocks(o) : Has(t, r)
    PROVE  /\ \A r \in NewReferences(o) : Holds(t, <<"registry", r>>)
           /\ \A c \in o.rem : Holds(t, <<"registry", c>>)
           /\ t \in owner[<<"registry", o.obj>>]
<1>1. /\ \A r \in Share(IF "nsset" \in o.set THEN {o.nsset} ELSE {}, 3) : Has(t, r)
      /\ \A r \in Share(IF "keyset" \in o.set THEN {o.keyset} ELSE {}, 4) : Has(t, r)
      /\ \A r \in Share(IF "registrant" \in o.set THEN {o.registrant} ELSE {}, 5) : Has(t, r)
      /\ \A r \in Share(o.add, 6) : Has(t, r)
      /\ \A r \in Share(o.rem, 7) : Has(t, r)
      /\ Has(t, LookupObject(o))
    BY DEF FirstLocks, UpdateLocks
<1>2. ASSUME NEW r \in NewReferences(o) PROVE Holds(t, <<"registry", r>>)
  <2>1. r # NoObject
      BY <1>2 DEF NewReferences
  <2>2. \/ "registrant" \in o.set /\ r = o.registrant
        \/ "nsset" \in o.set /\ r = o.nsset
        \/ "keyset" \in o.set /\ r = o.keyset
        \/ r \in o.add
      BY <1>2 DEF NewReferences
  <2>3. CASE "registrant" \in o.set /\ r = o.registrant
    <3>1. r \in (IF "registrant" \in o.set THEN {o.registrant} ELSE {})
        BY <2>3
    <3> QED
        BY <1>1, <2>1, <3>1, ShareHolds
  <2>4. CASE "nsset" \in o.set /\ r = o.nsset
    <3>1. r \in (IF "nsset" \in o.set THEN {o.nsset} ELSE {})
        BY <2>4
    <3> QED
        BY <1>1, <2>1, <3>1, ShareHolds
  <2>5. CASE "keyset" \in o.set /\ r = o.keyset
    <3>1. r \in (IF "keyset" \in o.set THEN {o.keyset} ELSE {})
        BY <2>5
    <3> QED
        BY <1>1, <2>1, <3>1, ShareHolds
  <2>6. CASE r \in o.add
      BY <1>1, <2>1, <2>6, ShareHolds
  <2> QED
      BY <2>2, <2>3, <2>4, <2>5, <2>6
<1>3. ASSUME NEW c \in o.rem PROVE Holds(t, <<"registry", c>>)
  <2>1. c # NoObject
      BY TypesDisjoint, OperationTyped DEF Objects
  <2> QED
      BY <1>1, <2>1, ShareHolds
<1>4. t \in owner[<<"registry", o.obj>>]
    BY <1>1 DEF Has, LookupObject, Lock
<1> QED
    BY <1>2, <1>3, <1>4

LEMMA InvConsistent ==
    ASSUME IInv, NEW t \in Tx
    PROVE  /\ TypeOK /\ LocksProtect /\ PlanIsKept /\ KeepsPlan(t) /\ ChecksHold(t)
           /\ Consistent(db) /\ db \in Contents
           /\ op[t] \in Operation /\ Expressible(op[t]) /\ op[t].obj \in Objects
BY OpTyped DEF IInv, TypeOK, PlanIsKept, ChecksStayTrue, Consistent, Contents

LEMMA HeldReferencesLive ==
    ASSUME IInv, NEW t \in Tx, NEW rs, rs \subseteq Objects,
           \A r \in rs : Holds(t, <<"registry", r>>)
    PROVE  \A r \in rs : IsLive(db, r)
BY HeldIsLive DEF IInv

LEMMA NewReferencesTyped ==
    ASSUME NEW o \in Operation
    PROVE  NewReferences(o) \subseteq Objects
BY OperationTyped DEF NewReferences, Objects

LEMMA CreateGuard ==
    ASSUME IInv, NEW t \in Tx, op[t].kind = "create", Ready(t, "first")
    PROVE  /\ \A r \in NewReferences(op[t]) : Holds(t, <<"registry", r>>)
           /\ \A r \in NewReferences(op[t]) : IsLive(db, r)
<1>1. \A r \in FirstLocks(op[t]) : Has(t, r)
    BY InvConsistent, FirstStageDone
<1>2. \A r \in NewReferences(op[t]) : Holds(t, <<"registry", r>>)
    BY <1>1, InvConsistent, CreateHolds
<1> QED
    BY <1>2, InvConsistent, NewReferencesTyped, HeldReferencesLive

LEMMA UpdateGuard ==
    ASSUME IInv, NEW t \in Tx, op[t].kind = "update", Ready(t, "first")
    PROVE  /\ \A r \in NewReferences(op[t]) : Holds(t, <<"registry", r>>)
           /\ \A r \in NewReferences(op[t]) : IsLive(db, r)
           /\ \A c \in op[t].rem : Holds(t, <<"registry", c>>)
           /\ IsLive(db, op[t].obj)
<1>1. \A r \in FirstLocks(op[t]) : Has(t, r)
    BY InvConsistent, FirstStageDone
<1>2. /\ \A r \in NewReferences(op[t]) : Holds(t, <<"registry", r>>)
      /\ \A c \in op[t].rem : Holds(t, <<"registry", c>>)
      /\ t \in owner[<<"registry", op[t].obj>>]
    BY <1>1, InvConsistent, UpdateHolds
<1>3. IsLive(db, op[t].obj)
    BY <1>2, InvConsistent, HeldIsLive DEF Holds
<1> QED
    BY <1>2, <1>3, InvConsistent, NewReferencesTyped, HeldReferencesLive

LEMMA CreateKeepsInv ==
    ASSUME IInv, NEW t \in Tx, Create(t)
    PROVE  IInv'
<1> DEFINE o == op[t]
           e == [life |-> "live", sponsor |-> o.registrar, historyid |-> 1,
                 registrant |-> o.registrant, nsset |-> o.nsset, keyset |-> o.keyset,
                 contacts |-> o.add]
<1>1. o.kind = "create" /\ Ready(t, "first")
    BY DEF Create
<1>2. CASE db[o.obj].life = "free" /\ db' = Created(db, o) /\ End(t, "committed")
  <2>1. Consistent(db')
      BY <1>1, <1>2, InvConsistent, CreateGuard, CreatedConsistent
  <2>2. db'[o.obj] = e /\ \A p \in Objects \ {o.obj} : db'[p] = db[p]
      BY <1>2, InvConsistent DEF Created, Contents
  <2>3. References(e) \subseteq NewReferences(o)
      BY <1>1 DEF References, NewReferences
  <2>4. /\ e.registrant # NoObject => e.registrant \in NewReferences(o)
        /\ e.contacts \subseteq NewReferences(o)
      BY <1>1, InvConsistent, OperationTyped, TypesDisjoint DEF NewReferences, Objects
  <2>5. \A r \in NewReferences(o) : Holds(t, <<"registry", r>>)
      BY <1>1, CreateGuard
  <2> HIDE DEF e
  <2>6. ~IsLive(db, o.obj)
      BY <1>2 DEF IsLive
  <2>7. CoveredWrite(t)
      BY <1>2, <2>2, <2>3, <2>4, <2>5, <2>6 DEF CoveredWrite, IsLive
  <2> QED
      BY <1>2, <2>1, <2>7, EndKeepsInv
<1>3. CASE UNCHANGED db /\ End(t, "refused")
    BY <1>3, AbortKeepsInv
<1> QED
    BY <1>2, <1>3 DEF Create

LEMMA UpdateKeepsInv ==
    ASSUME IInv, NEW t \in Tx, Update(t)
    PROVE  IInv'
<1> DEFINE o == op[t]
           a == db[o.obj]
           e == UpdatedEntry(a, o)
<1>1. o.kind = "update" /\ Ready(t, "first")
    BY DEF Update
<1>2. CASE db' = Updated(db, o) /\ End(t, "committed")
  <2>1. /\ \A r \in NewReferences(o) : Holds(t, <<"registry", r>>)
        /\ \A c \in o.rem : Holds(t, <<"registry", c>>)
        /\ IsLive(db, o.obj)
      BY <1>1, UpdateGuard
  <2>2. Consistent(db')
      BY <1>1, <1>2, <2>1, InvConsistent, UpdateGuard, UpdatedConsistent
  <2>3. a \in Entry
      BY InvConsistent DEF Contents
  <2>4. db'[o.obj] = e /\ \A p \in Objects \ {o.obj} : db'[p] = db[p]
      BY <1>2, InvConsistent DEF Updated, Contents
  <2>5. /\ e.life = a.life /\ e.sponsor = a.sponsor
        /\ e.registrant = IF "registrant" \in o.set THEN o.registrant ELSE a.registrant
        /\ e.nsset = IF "nsset" \in o.set THEN o.nsset ELSE a.nsset
        /\ e.keyset = IF "keyset" \in o.set THEN o.keyset ELSE a.keyset
        /\ e.contacts = (a.contacts \cup o.add) \ o.rem
      BY <2>3, InvConsistent, UpdatedEntryFields
  <2> HIDE DEF e
  <2>6. References(e) \subseteq References(a) \cup NewReferences(o)
      BY <2>5 DEF References, NewReferences
  <2>7. e.registrant # NoObject => e.registrant = a.registrant \/ e.registrant \in NewReferences(o)
      BY <2>5 DEF NewReferences
  <2>8. \A c \in e.contacts : c \in a.contacts \/ c \in NewReferences(o)
      BY <2>5, InvConsistent, OperationTyped, TypesDisjoint DEF NewReferences, Objects
  <2>9. \A c \in a.contacts : c \in e.contacts \/ c \in o.rem
      BY <2>5
  <2> HIDE DEF a
  <2>10. db[o.obj] = a
      BY DEF a
  <2>11. CoveredWrite(t)
      BY <2>1, <2>4, <2>5, <2>6, <2>7, <2>8, <2>9, <2>10 DEF CoveredWrite, IsLive
  <2> QED
      BY <1>2, <2>2, <2>11, EndKeepsInv
<1>3. CASE UNCHANGED db /\ End(t, "refused")
    BY <1>3, AbortKeepsInv
<1> QED
    BY <1>2, <1>3 DEF Update

(* A write that changes neither life nor links, and the sponsor only of an *)
(* object whose row of object is locked.                                   *)
LEMMA SameLinksCovered ==
    ASSUME NEW t,
           \A p \in Objects : /\ db'[p].life = db[p].life
                              /\ db'[p].sponsor = db[p].sponsor \/ t \in owner[<<"object", p>>]
                              /\ db'[p].registrant = db[p].registrant
                              /\ db'[p].nsset = db[p].nsset
                              /\ db'[p].keyset = db[p].keyset
                              /\ db'[p].contacts = db[p].contacts
    PROVE  CoveredWrite(t)
<1>1. \A p \in Objects : References(db'[p]) = References(db[p])
    BY DEF References
<1> QED
    BY <1>1 DEF CoveredWrite, IsLive

LEMMA RenewKeepsInv ==
    ASSUME IInv, NEW t \in Tx, Renew(t)
    PROVE  IInv'
<1>1. db' = Renewed(db, op[t]) /\ End(t, "committed")
    BY DEF Renew
<1>2. Consistent(db')
    BY <1>1, InvConsistent, RenewedConsistent
<1>3. \A p \in Objects : /\ db'[p].life = db[p].life
                         /\ db'[p].sponsor = db[p].sponsor
                         /\ db'[p].registrant = db[p].registrant
                         /\ db'[p].nsset = db[p].nsset
                         /\ db'[p].keyset = db[p].keyset
                         /\ db'[p].contacts = db[p].contacts
    BY <1>1, InvConsistent, Bumped DEF Renewed
<1>4. CoveredWrite(t)
    BY <1>3, SameLinksCovered
<1> QED
    BY <1>1, <1>2, <1>4, EndKeepsInv

LEMMA TransferKeepsInv ==
    ASSUME IInv, NEW t \in Tx, Transfer(t)
    PROVE  IInv'
<1>1. /\ op[t].kind = "transfer" /\ stage[t] = "second"
      /\ db' = Transferred(db, op[t]) /\ End(t, "committed")
    BY DEF Transfer, Ready
<1>2. Consistent(db')
    BY <1>1, InvConsistent, TransferredConsistent
<1>3. t \in owner[<<"object", op[t].obj>>]
    BY <1>1, InvConsistent, LaterStagesHold
<1>4. \A p \in Objects : /\ db'[p].life = db[p].life
                         /\ db'[p].sponsor = db[p].sponsor \/ t \in owner[<<"object", p>>]
                         /\ db'[p].registrant = db[p].registrant
                         /\ db'[p].nsset = db[p].nsset
                         /\ db'[p].keyset = db[p].keyset
                         /\ db'[p].contacts = db[p].contacts
    BY <1>1, <1>3, InvConsistent, TransferredFields
<1>5. CoveredWrite(t)
    BY <1>4, SameLinksCovered
<1> QED
    BY <1>1, <1>2, <1>5, EndKeepsInv

(* The guard of a deletion still holds when it is made.                    *)
LEMMA DeleteGuard ==
    ASSUME IInv, NEW t \in Tx, op[t].kind = "delete", Ready(t, "second")
    PROVE  /\ t \in owner[<<"registry", op[t].obj>>] /\ t \in owner[<<"object", op[t].obj>>]
           /\ IsLive(db, op[t].obj)
           /\ op[t].obj \in Domains \/ ~IsLinked(db, op[t].obj)
<1>1. t \in owner[<<"registry", op[t].obj>>]
    BY InvConsistent, LaterStagesHold DEF Ready
<1>2. HasOrNeeds(t, Lock("object", op[t].obj, "update", 1, "lookup"))
    BY InvConsistent DEF Ready, KeepsPlan, EraseLocks
<1>3. t \in owner[<<"object", op[t].obj>>]
    BY <1>2, LockFields DEF Ready, HasOrNeeds, Has
<1>4. IsLive(db, op[t].obj)
    BY <1>1, InvConsistent, HeldIsLive DEF Holds
<1>5. op[t].obj \in Domains \/ ~IsLinked(db, op[t].obj)
    BY InvConsistent DEF Ready, ChecksHold
<1> QED
    BY <1>1, <1>3, <1>4, <1>5

LEMMA DeleteKeepsInv ==
    ASSUME IInv, NEW t \in Tx, Delete(t)
    PROVE  IInv'
<1> DEFINE o == op[t].obj
<1>1. /\ op[t].kind = "delete" /\ Ready(t, "second")
      /\ db' = Erased(db, o) /\ End(t, "committed")
    BY DEF Delete
<1>2. /\ t \in owner[<<"registry", o>>] /\ t \in owner[<<"object", o>>]
      /\ IsLive(db, o) /\ (o \in Domains \/ ~IsLinked(db, o))
    BY <1>1, DeleteGuard
<1>3. Consistent(db')
    BY <1>1, <1>2, InvConsistent, ErasedConsistent
<1>4. /\ db'[o] = ErasedEntry(db[o])
      /\ \A p \in Objects \ {o} : db'[p] = db[p]
    BY <1>1, InvConsistent, ErasedFields
<1>5. db'[o].life = "erased" /\ db'[o].sponsor = db[o].sponsor
    BY <1>4, InvConsistent, ErasedEntryFields DEF Contents
<1>6. CoveredWrite(t)
    BY <1>2, <1>4, <1>5 DEF CoveredWrite, IsLive
<1> QED
    BY <1>1, <1>3, <1>6, EndKeepsInv

(* When a merge has all its locks, its lists are exactly what it needs.    *)
LEMMA MergeGuard ==
    ASSUME IInv, NEW t \in Tx, op[t].kind = "merge", Ready(t, "third")
    PROVE  LET o == op[t] IN
           /\ t \in owner[<<"registry", o.obj>>] /\ t \in owner[<<"registry", o.dst>>]
           /\ t \in owner[<<"object", o.obj>>]
           /\ IsLive(db, o.obj) /\ IsLive(db, o.dst)
           /\ RegisteredBy(db, o.obj) \subseteq listed[t].registrant
           /\ listed[t].registrant \subseteq {d \in Domains : IsLive(db, d)}
           /\ listed[t].contact = ContactOf(db, o.obj)
           /\ listed[t].contact \subseteq Objects \ Contacts
<1> DEFINE o == op[t]
<1>1. /\ stage[t] = "third" /\ need[t] = {}
      /\ o.obj \in Objects /\ o.dst \in Objects
    BY InvConsistent, OpTyped DEF Ready, Objects
<1>2. t \in owner[<<"registry", o.obj>>] /\ t \in owner[<<"registry", o.dst>>]
    BY <1>1, InvConsistent, LaterStagesHold
<1>3. t \in owner[<<"object", o.obj>>]
  <2>1. Lock("object", o.obj, "update", 7, "lookup") \in RelinkContactLocks(o, {})
      BY DEF RelinkContactLocks
  <2>2. Has(t, Lock("object", o.obj, "update", 7, "lookup"))
      BY <1>1, <2>1, InvConsistent DEF KeepsPlan, HasOrNeeds
  <2> QED
      BY <2>2, LockFields DEF Has
<1>4. IsLive(db, o.obj) /\ IsLive(db, o.dst)
    BY <1>1, <1>2, InvConsistent, HeldIsLive DEF Holds
<1>5. /\ RegisteredBy(db, o.obj) \subseteq listed[t].registrant
      /\ ContactOf(db, o.obj) = {p \in listed[t].contact : IsLive(db, p)}
    BY <1>1, InvConsistent DEF ChecksHold
<1>6. listed[t].registrant \subseteq Domains /\ listed[t].contact \subseteq Objects
    BY InvConsistent DEF TypeOK
<1>7. \A p \in listed[t].registrant \cup listed[t].contact : IsLive(db, p)
  <2>1. \A p \in listed[t].registrant \cup listed[t].contact : t \in owner[<<"registry", p>>]
      BY <1>1, InvConsistent DEF KeepsPlan
  <2> QED
      BY <1>6, <2>1, InvConsistent, HeldIsLive DEF Holds, Objects
<1>8. listed[t].contact \subseteq Objects \ Contacts
  <2>1. WellShaped(db)
      BY DEF IInv
  <2> QED
      BY <1>5, <1>6, <1>7, <2>1, TypesDisjoint DEF WellShaped, ContactOf, Objects
<1> QED
    BY <1>2, <1>3, <1>4, <1>5, <1>6, <1>7, <1>8

LEMMA MergeKeepsInv ==
    ASSUME IInv, NEW t \in Tx, Merge(t)
    PROVE  IInv'
<1> DEFINE o == op[t]
           R == listed[t].registrant
           C == listed[t].contact
<1>1. o.kind = "merge" /\ Ready(t, "third")
    BY DEF Merge
<1>2. CASE UNCHANGED db /\ End(t, "refused")
    BY <1>2, AbortKeepsInv
<1>3. CASE /\ ~IsLinked(Relinked(db, o, R, C), o.obj)
           /\ db' = Merged(db, o, R, C)
           /\ End(t, "committed")
  <2>1. /\ Consistent(db) /\ db \in Contents
        /\ o \in Operation /\ Expressible(o) /\ o.obj \in Objects
      BY InvConsistent
  <2>2. /\ t \in owner[<<"registry", o.obj>>] /\ t \in owner[<<"registry", o.dst>>]
        /\ t \in owner[<<"object", o.obj>>]
        /\ IsLive(db, o.obj) /\ IsLive(db, o.dst)
        /\ R \in SUBSET Domains
        /\ C \in SUBSET (Objects \ Contacts) /\ C \in SUBSET Objects
        /\ \A p \in R \cup C : IsLive(db, p)
      BY <1>1, MergeGuard DEF ContactOf
  <2>3. Consistent(db')
      BY <1>1, <1>3, <2>2, InvConsistent, MergedConsistent
  <2>4. db' = Merged(db, o, R, C)
      BY <1>3
  <2>5. /\ db'[o.obj].life = "erased" /\ db'[o.obj].sponsor = db[o.obj].sponsor
        /\ LinksReplaced(db', db, o, R, C, Objects \ {o.obj})
    <3> HIDE DEF o, R, C
    <3> USE <1>1, <2>1, <2>2, <2>4, MergedEffect
    <3>1. db'[o.obj].life = "erased"
        OBVIOUS
    <3>2. db'[o.obj].sponsor = db[o.obj].sponsor
        OBVIOUS
    <3>3. LinksReplaced(db', db, o, R, C, Objects \ {o.obj})
        OBVIOUS
    <3> QED
        BY <3>1, <3>2, <3>3
  <2>6. Holds(t, <<"registry", o.obj>>) /\ Holds(t, <<"registry", o.dst>>)
      BY <2>2 DEF Holds
  <2>7. \A p \in Objects \ {o.obj} : References(db'[p]) \subseteq References(db[p]) \cup {o.dst}
      BY <2>5 DEF References, LinksReplaced
  <2>8. CoveredWrite(t)
    <3>1. \A p \in Objects : IsLive(db', p) <=> IsLive(db, p) /\ p # o.obj
        BY <2>5 DEF IsLive, LinksReplaced
    <3>2. \A p \in Objects : db[p].life # "free" => db'[p].life # "free"
        BY <2>5 DEF LinksReplaced
    <3>3. \A p \in Objects : db'[p].sponsor = db[p].sponsor
        BY <2>5 DEF LinksReplaced
    <3>4. ASSUME NEW p \in Objects, IsLive(db', p)
          PROVE  \A r \in References(db'[p]) :
                    r \in References(db[p]) \/ Holds(t, <<"registry", r>>)
        BY <2>6, <2>7, <3>1, <3>4
    <3>5. ASSUME NEW p \in Objects, IsLive(db', p), db'[p].registrant # NoObject
          PROVE  \/ db[p].registrant = db'[p].registrant
                 \/ Holds(t, <<"registry", db'[p].registrant>>)
        BY <2>5, <2>6, <3>1, <3>5 DEF LinksReplaced
    <3>6. ASSUME NEW p \in Objects, IsLive(db', p)
          PROVE  /\ \A c \in db'[p].contacts :
                       c \in db[p].contacts \/ Holds(t, <<"registry", c>>)
                 /\ \A c \in db[p].contacts :
                       c \in db'[p].contacts \/ Holds(t, <<"registry", c>>)
        BY <2>5, <2>6, <3>1, <3>6 DEF LinksReplaced
    <3> QED
        BY <2>2, <3>1, <3>2, <3>3, <3>4, <3>5, <3>6 DEF CoveredWrite
  <2> QED
      BY <1>3, <2>3, <2>8, EndKeepsInv
<1> QED
    BY <1>2, <1>3 DEF Merge

-----------------------------------------------------------------------------
(* The theorems                                                            *)

(* Every step keeps the invariant.                                         *)
THEOREM InvNext == IInv /\ [Next]_vars => IInv'
<1> SUFFICES ASSUME IInv, [Next]_vars PROVE IInv'
    OBVIOUS
<1>1. CASE UNCHANGED vars
  <2> USE <1>1 DEF vars
  <2>1. TypeOK' /\ WellShaped(db)' /\ NoDangling(db)'
      BY DEF IInv, TypeOK, WellShaped, NoDangling, IsLive, References
  <2>2. LocksProtect'
      BY DEF IInv, LocksProtect, IsLive
  <2>3. \A t \in Tx : KeepsPlan(t) => KeepsPlan(t)'
      BY DEF KeepsPlan, HasOrNeeds, Has
  <2>4. \A t \in Tx : ChecksHold(t) => ChecksHold(t)'
      BY DEF ChecksHold, RegisteredBy, ContactOf, IsLinked, IsLive, References
  <2> QED
      BY <2>1, <2>2, <2>3, <2>4 DEF IInv, PlanIsKept, ChecksStayTrue
<1>2. ASSUME NEW t \in Tx, Start(t) PROVE IInv'
    BY <1>2, StartKeepsInv
<1>3. ASSUME NEW t \in Tx, Step(t) PROVE IInv'
  <2>1. CASE BeginLookup(t)
      BY <2>1, BeginLookupKeepsInv
  <2>2. CASE GetLock(t)
      BY <2>2, GetLockKeepsInv
  <2>3. CASE ObjectUnknown(t)
      BY <2>3, AbortKeepsInv DEF ObjectUnknown
  <2>4. CASE SkipMissing(t)
      BY <2>4, SkipMissingKeepsInv
  <2>5. CASE Create(t)
      BY <2>5, CreateKeepsInv
  <2>6. CASE Update(t)
      BY <2>6, UpdateKeepsInv
  <2>7. CASE Renew(t)
      BY <2>7, RenewKeepsInv
  <2>8. CASE CheckNotLinked(t)
      BY <2>8, CheckNotLinkedKeepsInv
  <2>9. CASE Delete(t)
      BY <2>9, DeleteKeepsInv
  <2>10. CASE CheckSponsor(t)
      BY <2>10, CheckSponsorKeepsInv
  <2>11. CASE Transfer(t)
      BY <2>11, TransferKeepsInv
  <2>12. CASE ListRegistrants(t)
      BY <2>12, ListRegistrantsKeepsInv
  <2>13. CASE ListContacts(t)
      BY <2>13, ListContactsKeepsInv
  <2>14. CASE Merge(t)
      BY <2>14, MergeKeepsInv
  <2> QED
      BY <1>3, <2>1, <2>2, <2>3, <2>4, <2>5, <2>6, <2>7, <2>8, <2>9, <2>10, <2>11, <2>12,
         <2>13, <2>14 DEF Step
<1>4. ASSUME NEW t \in Tx, Rollback(t) PROVE IInv'
    BY <1>4, AbortKeepsInv DEF Rollback
<1>5. ASSUME NEW t \in Tx, BreakDeadlock(t) PROVE IInv'
    BY <1>5, AbortKeepsInv DEF BreakDeadlock
<1> QED
    BY <1>1, <1>2, <1>3, <1>4, <1>5 DEF Next

(* The invariant holds in every reachable state.                           *)
THEOREM Invariance == Spec => []IInv
<1>1. Init => IInv
    BY InvInit
<1>2. IInv /\ [Next]_vars => IInv'
    BY InvNext
<1> QED
    BY <1>1, <1>2, PTL DEF Spec

(* Types: transactions hold locks on rows that exist, and so on.           *)
THEOREM TypeCorrect == Spec => []TypeOK
<1>1. IInv => TypeOK
    BY DEF IInv
<1> QED
    BY <1>1, Invariance, PTL

(* No interleaving of DeleteContact, DeleteNsset, DeleteKeyset and         *)
(* MergeContact with the operations that link leaves a reference to an     *)
(* erased object.                                                          *)
THEOREM ReferencesNeverDangle == Spec => []NoDanglingReference
<1>1. IInv => NoDanglingReference
    BY DEF IInv, NoDanglingReference
<1> QED
    BY <1>1, Invariance, PTL

(* What an operation has checked or listed between two of its statements   *)
(* cannot be changed by another transaction before it commits.             *)
THEOREM ChecksAlwaysStayTrue == Spec => []ChecksStayTrue
<1>1. IInv => ChecksStayTrue
    BY DEF IInv
<1> QED
    BY <1>1, Invariance, PTL


-----------------------------------------------------------------------------
(* The order of locks                                                      *)

(* Operations that lock against the order of all others                    *)
Inverts(t) ==
    \/ op[t].kind = "merge"
    \/ op[t].kind = "transfer" /\ op[t].obj \in Contacts

(* What t still has to lock is part of its plan, and what it waits for is  *)
(* next.                                                                   *)
NeedsPlanned(t) ==
    /\ waiting[t] \subseteq Foremost(need[t])
    /\ stage[t] \notin Running => need[t] = {}
    /\ stage[t] = "idle" => \A row \in Rows : ~Holds(t, row)
    /\ ~Inverts(t) =>
          /\ stage[t] = "first" => need[t] \subseteq FirstLocks(op[t])
          /\ stage[t] = "second" =>
                \/ op[t].kind = "delete" /\ need[t] \subseteq EraseLocks(op[t])
                \/ op[t].kind = "transfer" /\ need[t] \subseteq AuthorizeLocks(op[t], Contacts)

(* FOR UPDATE it locks the rows of its own object, beginning with that of  *)
(* object_registry, before all others; FOR SHARE only rows of              *)
(* object_registry.                                                        *)
OwnRowFirst(t) ==
    LET registered == <<"registry", op[t].obj>> IN
    ~Inverts(t) =>
        /\ \A row \in Rows : t \in owner[row] => row[2] = op[t].obj /\ t \in owner[registered]
        /\ \A row \in Rows : t \in sharers[row] => row[1] = "registry"
        /\ \A r \in need[t] : r.row = registered /\ r.mode = "update" =>
              t \in owner[registered] \/ \A row \in Rows : ~Holds(t, row)

OrderIsKept == \A t \in Tx : NeedsPlanned(t) /\ OwnRowFirst(t)

(* What the plans of these operations have in common: FOR UPDATE is only   *)
(* their own object, which they look up first and before its row of        *)
(* object; FOR SHARE are contacts, and nssets and keysets for a domain.    *)
LEMMA ShareFields ==
    ASSUME NEW os, NEW rank
    PROVE  \A r \in Share(os, rank) :
              /\ r.row[1] = "registry" /\ r.row[2] \in os \ {NoObject}
              /\ r.mode = "share" /\ r.rank = rank
BY DEF Share, Lock

SharesOf(o) ==
    Contacts \cup (IF o.obj \in Domains THEN Nssets \cup Keysets ELSE {})

InOrder(o, r) ==
    \/ /\ r.row = <<"registry", o.obj>> /\ r.mode = "update" /\ r.rank = 1
       /\ o.kind # "create"
    \/ /\ r.row = <<"object", o.obj>> /\ r.mode = "update" /\ r.rank = 2
       /\ o.kind \in {"update", "transfer"}
    \/ /\ r.row[1] = "registry" /\ r.mode = "share" /\ o.obj \notin Contacts
       /\ r.row[2] \in SharesOf(o)
       /\ o.kind # "create" => r.rank > 2

LEMMA UpdatePlanInOrder ==
    ASSUME NEW o \in Operation, Expressible(o), o.kind = "update", NEW r \in UpdateLocks(o)
    PROVE  InOrder(o, r)
<1>1. /\ o.registrant \in Contacts \cup {NoObject} /\ o.nsset \in Nssets \cup {NoObject}
      /\ o.keyset \in Keysets \cup {NoObject} /\ o.add \subseteq Contacts /\ o.rem \subseteq Contacts
    BY DEF Operation
<1>2. /\ o.obj \notin Domains => o.registrant = NoObject /\ o.nsset = NoObject /\ o.keyset = NoObject
      /\ o.obj \in Contacts => o.add = {} /\ o.rem = {} /\ o.obj \notin Domains
    BY TypesDisjoint DEF Expressible
<1>3. CASE r = LookupObject(o) \/ r = Lock("object", o.obj, "update", 2, "lookup")
    BY <1>3 DEF LookupObject, Lock, InOrder
<1>4. CASE r \in Share(IF "nsset" \in o.set THEN {o.nsset} ELSE {}, 3)
  <2>1. r.row[1] = "registry" /\ r.row[2] = o.nsset /\ o.nsset # NoObject /\ r.mode = "share" /\ r.rank = 3
      BY <1>4, ShareFields
  <2> QED
      BY <1>1, <1>2, <2>1 DEF InOrder, SharesOf
<1>5. CASE r \in Share(IF "keyset" \in o.set THEN {o.keyset} ELSE {}, 4)
  <2>1. r.row[1] = "registry" /\ r.row[2] = o.keyset /\ o.keyset # NoObject /\ r.mode = "share" /\ r.rank = 4
      BY <1>5, ShareFields
  <2> QED
      BY <1>1, <1>2, <2>1 DEF InOrder, SharesOf
<1>6. CASE r \in Share(IF "registrant" \in o.set THEN {o.registrant} ELSE {}, 5)
  <2>1. r.row[1] = "registry" /\ r.row[2] = o.registrant /\ o.registrant # NoObject
        /\ r.mode = "share" /\ r.rank = 5
      BY <1>6, ShareFields
  <2> QED
      BY <1>1, <1>2, <2>1 DEF InOrder, SharesOf
<1>7. CASE r \in Share(o.add, 6) \cup Share(o.rem, 7)
  <2>1. r.row[1] = "registry" /\ r.row[2] \in o.add \cup o.rem /\ r.mode = "share" /\ r.rank \in {6, 7}
      BY <1>7, ShareFields
  <2> QED
      BY <1>1, <1>2, <2>1 DEF InOrder, SharesOf
<1> QED
    BY <1>3, <1>4, <1>5, <1>6, <1>7 DEF UpdateLocks

LEMMA CreatePlanInOrder ==
    ASSUME NEW o \in Operation, Expressible(o), o.kind = "create", NEW r \in CreateLocks(o)
    PROVE  InOrder(o, r)
<1>1. /\ o.registrant \in Contacts \cup {NoObject} /\ o.nsset \in Nssets \cup {NoObject}
      /\ o.keyset \in Keysets \cup {NoObject} /\ o.add \subseteq Contacts
    BY DEF Operation
<1>2. /\ o.obj \notin Domains => o.registrant = NoObject /\ o.nsset = NoObject /\ o.keyset = NoObject
      /\ o.obj \in Contacts => o.add = {} /\ o.obj \notin Domains
    BY TypesDisjoint DEF Expressible
<1>3. r.row[1] = "registry" /\ r.mode = "share" /\ r.row[2] # NoObject
      /\ r.row[2] \in {o.registrant, o.nsset, o.keyset} \cup o.add
    BY ShareFields DEF CreateLocks
<1> QED
    BY <1>1, <1>2, <1>3 DEF InOrder, SharesOf

LEMMA FirstPlanInOrder ==
    ASSUME NEW o \in Operation, Expressible(o),
           o.kind # "merge", ~(o.kind = "transfer" /\ o.obj \in Contacts)
    PROVE  \A r \in FirstLocks(o) : InOrder(o, r)
<1> SUFFICES ASSUME NEW r \in FirstLocks(o) PROVE InOrder(o, r)
    OBVIOUS
<1>1. CASE o.kind = "create"
    BY <1>1, CreatePlanInOrder DEF FirstLocks
<1>2. CASE o.kind = "update"
    BY <1>2, UpdatePlanInOrder DEF FirstLocks
<1>3. CASE o.kind = "renew"
    BY <1>3 DEF FirstLocks, RenewLocks, Lock, InOrder
<1>4. CASE o.kind = "delete"
    BY <1>4 DEF FirstLocks, DeleteLocks, Lock, InOrder
<1>5. CASE o.kind = "transfer"
    BY <1>5 DEF FirstLocks, TransferLocks, Lock, InOrder
<1> QED
    BY <1>1, <1>2, <1>3, <1>4, <1>5 DEF Operation

(* Who has its object's own row among the locks of its plan                *)
LEMMA OwnRowPlanned ==
    ASSUME NEW o, o.kind \in {"update", "transfer"}, ~(o.kind = "transfer" /\ o.obj \in Contacts)
    PROVE  \E s \in FirstLocks(o) : s.row = <<"registry", o.obj>> /\ s.mode = "update" /\ s.rank = 1
<1>1. CASE o.kind = "update"
  <2>1. LookupObject(o) \in FirstLocks(o)
      BY <1>1 DEF FirstLocks, UpdateLocks
  <2> QED
      BY <2>1 DEF LookupObject, Lock
<1>2. CASE o.kind = "transfer"
  <2>1. Lock("registry", o.obj, "update", 1, "info") \in FirstLocks(o)
      BY <1>2 DEF FirstLocks, TransferLocks
  <2> QED
      BY <2>1 DEF Lock
<1> QED
    BY <1>1, <1>2

(* In their second stage they have their own row.                          *)
LEMMA SecondStageOwns ==
    ASSUME TypeOK, PlanIsKept, NEW t \in Tx, ~Inverts(t), stage[t] = "second",
           op[t].kind \in {"delete", "transfer"}
    PROVE  t \in owner[<<"registry", op[t].obj>>]
<1>1. CASE op[t].kind = "delete"
    BY <1>1, LaterStagesHold
<1>2. CASE op[t].kind = "transfer"
  <2>1. PICK s \in FirstLocks(op[t]) : s.row = <<"registry", op[t].obj>> /\ s.mode = "update"
      BY <1>2, OwnRowPlanned DEF Inverts
  <2> QED
      BY <2>1 DEF PlanIsKept, KeepsPlan, Has
<1> QED
    BY <1>1, <1>2

LEMMA SecondPlanInOrder ==
    ASSUME NEW o \in Operation
    PROVE  /\ \A r \in EraseLocks(o) : r.row = <<"object", o.obj>> /\ r.mode = "update"
           /\ \A r \in AuthorizeLocks(o, Contacts) :
                 /\ r.row[1] = "registry"
                 /\ r.mode = "update" => r.row[2] = o.obj
                 /\ r.mode = "share" => r.row[2] \in Contacts \cup {o.obj}
                 /\ r.mode \in {"update", "share"}
<1>1. \A r \in EraseLocks(o) : r.row = <<"object", o.obj>> /\ r.mode = "update"
    BY DEF EraseLocks, Lock
<1>2. ASSUME NEW r \in AuthorizeLocks(o, Contacts)
      PROVE  /\ r.row[1] = "registry"
             /\ r.mode = "update" => r.row[2] = o.obj
             /\ r.mode = "share" => r.row[2] \in Contacts \cup {o.obj}
             /\ r.mode \in {"update", "share"}
  <2>1. \/ r = Lock("registry", o.obj, "share", 1, "lookup")
        \/ r = Lock("registry", o.obj, "update", 3, "lookup")
        \/ \E c \in Contacts : r = Optionally(Lock("registry", c, "share", 2, "info"))
      BY DEF AuthorizeLocks
  <2>2. CASE \/ r = Lock("registry", o.obj, "share", 1, "lookup")
             \/ r = Lock("registry", o.obj, "update", 3, "lookup")
      BY <2>2 DEF Lock
  <2>3. CASE \E c \in Contacts : r = Optionally(Lock("registry", c, "share", 2, "info"))
    <3>1. PICK c \in Contacts : r = Optionally(Lock("registry", c, "share", 2, "info"))
        BY <2>3
    <3>2. r.row = <<"registry", c>> /\ r.mode = "share"
        BY <3>1, LockFields
    <3> QED
        BY <3>2
  <2> QED
      BY <2>1, <2>2, <2>3
<1> QED
    BY <1>1, <1>2


(* A transaction that keeps its locks and shortens its plan keeps the      *)
(* order.                                                                  *)
LEMMA OrderUndisturbed ==
    ASSUME TypeOK, NEW u \in Tx, NeedsPlanned(u), OwnRowFirst(u), op' = op,
           stage'[u] = stage[u], need'[u] \subseteq need[u],
           waiting'[u] \subseteq Foremost(need'[u]),
           \A row \in Rows : /\ u \in owner'[row] <=> u \in owner[row]
                             /\ u \in sharers'[row] <=> u \in sharers[row]
    PROVE  NeedsPlanned(u)' /\ OwnRowFirst(u)'
<1>1. Inverts(u)' <=> Inverts(u)
    BY DEF Inverts
<1>2. \A row \in Rows : Holds(u, row)' <=> Holds(u, row)
    BY DEF Holds
<1>3. NeedsPlanned(u)'
    BY <1>1, <1>2 DEF NeedsPlanned
<1>4. <<"registry", op[u].obj>> \in Rows
    BY OpTyped DEF Rows
<1>5. OwnRowFirst(u)'
    BY <1>1, <1>2, <1>4 DEF OwnRowFirst
<1> QED
    BY <1>3, <1>5

(* A step of t is a matter of its own plan and locks.                      *)
LEMMA OrderOfOthers ==
    ASSUME TypeOK, OrderIsKept, NEW t \in Tx, op' = op,
           \A u \in Tx \ {t} :
              stage'[u] = stage[u] /\ need'[u] = need[u] /\ waiting'[u] = waiting[u],
           \A u \in Tx \ {t} : \A row \in Rows :
              /\ u \in owner'[row] <=> u \in owner[row]
              /\ u \in sharers'[row] <=> u \in sharers[row],
           NeedsPlanned(t)', OwnRowFirst(t)'
    PROVE  OrderIsKept'
<1> SUFFICES ASSUME NEW u \in Tx, u # t PROVE NeedsPlanned(u)' /\ OwnRowFirst(u)'
    BY DEF OrderIsKept
<1>1. NeedsPlanned(u) /\ OwnRowFirst(u)
    BY DEF OrderIsKept
<1>2. waiting'[u] \subseteq Foremost(need'[u])
    BY <1>1 DEF NeedsPlanned
<1> QED
    BY <1>1, <1>2, OrderUndisturbed

LEMMA EndKeepsOrder ==
    ASSUME IInv, OrderIsKept, NEW t \in Tx, NEW outcome \in Ended, End(t, outcome)
    PROVE  OrderIsKept'
<1>1. TypeOK
    BY DEF IInv
<1>2. /\ op' = op /\ stage'[t] = outcome /\ need'[t] = {} /\ waiting'[t] = {}
      /\ \A u \in Tx \ {t} :
            stage'[u] = stage[u] /\ need'[u] = need[u] /\ waiting'[u] = waiting[u]
    BY <1>1 DEF End, TypeOK
<1>3. \A row \in Rows : owner'[row] = owner[row] \ {t} /\ sharers'[row] = sharers[row] \ {t}
    BY DEF End
<1>4. \A row \in Rows : t \notin owner'[row] /\ t \notin sharers'[row]
    BY <1>3
<1>5. NeedsPlanned(t)'
    BY <1>2 DEF NeedsPlanned
<1>6. OwnRowFirst(t)'
    BY <1>2, <1>4 DEF OwnRowFirst
<1> QED
    BY <1>1, <1>2, <1>3, <1>5, <1>6, OrderOfOthers

LEMMA StartKeepsOrder ==
    ASSUME IInv, OrderIsKept, NEW t \in Tx, Start(t)
    PROVE  OrderIsKept'
<1>1. TypeOK /\ NeedsPlanned(t)
    BY DEF IInv, OrderIsKept
<1>2. /\ op' = op /\ stage'[t] = "first" /\ need'[t] = FirstLocks(op[t])
      /\ waiting' = waiting /\ owner' = owner /\ sharers' = sharers
      /\ \A u \in Tx \ {t} : stage'[u] = stage[u] /\ need'[u] = need[u]
    BY <1>1 DEF Start, Enter, lockVars, TypeOK
<1>3. stage[t] = "idle" /\ need[t] = {} /\ \A row \in Rows : ~Holds(t, row)
    BY <1>1 DEF Start, NeedsPlanned
<1>4. waiting'[t] = {}
    BY <1>1, <1>2, <1>3 DEF NeedsPlanned, Foremost
<1>5. NeedsPlanned(t)'
    BY <1>2, <1>4 DEF NeedsPlanned
<1>6. OwnRowFirst(t)'
    BY <1>2, <1>3 DEF OwnRowFirst, Holds
<1> QED
    BY <1>1, <1>2, <1>5, <1>6, OrderOfOthers

LEMMA BeginLookupKeepsOrder ==
    ASSUME IInv, OrderIsKept, NEW t \in Tx, BeginLookup(t)
    PROVE  OrderIsKept'
<1>1. TypeOK /\ NeedsPlanned(t) /\ OwnRowFirst(t)
    BY DEF IInv, OrderIsKept
<1>2. PICK r \in Foremost(need[t]) : waiting' = [waiting EXCEPT ![t] = {r}]
    BY DEF BeginLookup
<1>3. UNCHANGED <<op, stage, need, owner, sharers>>
    BY DEF BeginLookup, lockVars
<1>4. waiting'[t] = {r} /\ \A u \in Tx \ {t} : waiting'[u] = waiting[u]
    BY <1>1, <1>2 DEF TypeOK
<1>5. NeedsPlanned(t)' /\ OwnRowFirst(t)'
    BY <1>1, <1>2, <1>3, <1>4, OrderUndisturbed
<1> QED
    BY <1>1, <1>3, <1>4, <1>5, OrderOfOthers

LEMMA SkipMissingKeepsOrder ==
    ASSUME IInv, OrderIsKept, NEW t \in Tx, SkipMissing(t)
    PROVE  OrderIsKept'
<1>1. TypeOK /\ NeedsPlanned(t) /\ OwnRowFirst(t)
    BY DEF IInv, OrderIsKept
<1>2. PICK r \in need[t] : need' = [need EXCEPT ![t] = {s \in @ : s.row[2] # r.row[2]}]
    BY DEF SkipMissing
<1>3. UNCHANGED <<op, stage, owner, sharers>> /\ waiting' = [waiting EXCEPT ![t] = {}]
    BY DEF SkipMissing, lockVars
<1>4. /\ need'[t] \subseteq need[t] /\ waiting'[t] = {}
      /\ \A u \in Tx \ {t} : need'[u] = need[u] /\ waiting'[u] = waiting[u]
    BY <1>1, <1>2, <1>3 DEF TypeOK
<1>5. NeedsPlanned(t)' /\ OwnRowFirst(t)'
    BY <1>1, <1>3, <1>4, OrderUndisturbed
<1> QED
    BY <1>1, <1>3, <1>4, <1>5, OrderOfOthers

(* What t locks next FOR UPDATE is its own object's, and unless that is    *)
(* the row of object_registry, t has that one already.                     *)
LEMMA NextLockInOrder ==
    ASSUME IInv, NEW t \in Tx, NeedsPlanned(t), OwnRowFirst(t), ~Inverts(t), NEW r \in waiting[t]
    PROVE  LET registered == <<"registry", op[t].obj>> IN
           /\ r.mode = "update" => r.row[2] = op[t].obj
           /\ r.mode = "share" => r.row[1] = "registry"
           /\ \/ t \in owner[registered]
              \/ r.row = registered /\ r.mode = "update"
              \/ op[t].kind = "create" /\ \A s \in need[t] : s.mode = "share"
<1> DEFINE registered == <<"registry", op[t].obj>>
<1>0. TypeOK /\ PlanIsKept /\ KeepsPlan(t)
    BY DEF IInv, PlanIsKept
<1>1. op[t] \in Operation /\ Expressible(op[t])
    BY <1>0, OpTyped
<1>2. r \in need[t] /\ \A s \in need[t] : r.rank <= s.rank
    BY DEF NeedsPlanned, Foremost
<1>3. stage[t] \in {"first", "second"}
    BY <1>0, <1>2 DEF NeedsPlanned, KeepsPlan, Inverts
<1>4. CASE stage[t] = "first"
  <2>1. r \in FirstLocks(op[t])
      BY <1>2, <1>4 DEF NeedsPlanned
  <2>2. InOrder(op[t], r)
      BY <1>1, <2>1, FirstPlanInOrder DEF Inverts
  <2>3. /\ r.mode = "update" => r.row[2] = op[t].obj
        /\ r.mode = "share" => r.row[1] = "registry"
      BY <2>2 DEF InOrder
  <2>4. ASSUME ~(r.row = registered /\ r.mode = "update"), op[t].kind # "create"
        PROVE  t \in owner[registered]
    <3>0. r.rank \in 1..9
        BY <1>0, <1>2 DEF TypeOK, LockRequest
    <3>1. r.rank > 1
        BY <2>2, <2>4, <3>0 DEF InOrder
    <3>2. op[t].kind \in {"update", "transfer"}
      <4>1. op[t].kind # "renew"
          BY <2>1, <3>1 DEF FirstLocks, RenewLocks, Lock
      <4>2. op[t].kind # "delete"
          BY <2>1, <3>1 DEF FirstLocks, DeleteLocks, Lock
      <4>3. op[t].kind # "merge"
          BY DEF Inverts
      <4> QED
          BY <1>1, <2>4, <4>1, <4>2, <4>3 DEF Operation
    <3>3. PICK s \in FirstLocks(op[t]) : s.row = registered /\ s.mode = "update" /\ s.rank = 1
      <4>1. ~(op[t].kind = "transfer" /\ op[t].obj \in Contacts)
          BY DEF Inverts
      <4> QED
          BY <3>2, <4>1, OwnRowPlanned
    <3>4. s \notin need[t]
        BY <1>2, <3>0, <3>1, <3>3
    <3>5. HasOrNeeds(t, s)
        BY <1>0, <1>4 DEF KeepsPlan
    <3> QED
        BY <3>3, <3>4, <3>5 DEF HasOrNeeds, Has
  <2>5. ASSUME op[t].kind = "create", NEW s \in need[t] PROVE s.mode = "share"
    <3>1. s \in FirstLocks(op[t])
        BY <1>4 DEF NeedsPlanned
    <3>2. InOrder(op[t], s)
        BY <1>1, <3>1, FirstPlanInOrder DEF Inverts
    <3> QED
        BY <2>5, <3>2 DEF InOrder
  <2> QED
      BY <2>3, <2>4, <2>5
<1>5. CASE stage[t] = "second"
  <2>1. op[t].kind \in {"delete", "transfer"}
        /\ (r \in EraseLocks(op[t]) \/ r \in AuthorizeLocks(op[t], Contacts))
      BY <1>2, <1>5 DEF NeedsPlanned
  <2>2. t \in owner[registered]
      BY <1>0, <1>5, <2>1, SecondStageOwns
  <2>3. /\ r.mode = "update" => r.row[2] = op[t].obj
        /\ r.mode = "share" => r.row[1] = "registry"
      BY <1>1, <2>1, SecondPlanInOrder
  <2> QED
      BY <2>2, <2>3
<1> QED
    BY <1>3, <1>4, <1>5


LEMMA GetLockKeepsOrder ==
    ASSUME IInv, OrderIsKept, NEW t \in Tx, GetLock(t)
    PROVE  OrderIsKept'
<1> DEFINE registered == <<"registry", op[t].obj>>
<1>1. TypeOK /\ NeedsPlanned(t) /\ OwnRowFirst(t)
    BY DEF IInv, OrderIsKept
<1>2. PICK r \in waiting[t] :
        /\ need' = [need EXCEPT ![t] = @ \ {r}]
        /\ waiting' = [waiting EXCEPT ![t] = {}]
        /\ owner' = IF r.mode = "update" THEN [owner EXCEPT ![r.row] = @ \cup {t}] ELSE owner
        /\ sharers' = IF r.mode = "share" THEN [sharers EXCEPT ![r.row] = @ \cup {t}] ELSE sharers
        /\ UNCHANGED <<op, stage>>
    BY DEF GetLock
<1>3. r.row \in Rows /\ registered \in Rows /\ r \in need[t]
    BY <1>1, <1>2, OpTyped DEF TypeOK, LockRequest, Rows, NeedsPlanned, Foremost
<1>4. /\ need'[t] \subseteq need[t] /\ waiting'[t] = {}
      /\ \A u \in Tx \ {t} : need'[u] = need[u] /\ waiting'[u] = waiting[u]
    BY <1>1, <1>2 DEF TypeOK
<1>5. \A row \in Rows :
        /\ owner'[row] = IF row = r.row /\ r.mode = "update" THEN owner[row] \cup {t} ELSE owner[row]
        /\ sharers'[row] = IF row = r.row /\ r.mode = "share" THEN sharers[row] \cup {t} ELSE sharers[row]
    BY <1>1, <1>2, <1>3 DEF TypeOK
<1>6. Inverts(t)' <=> Inverts(t)
    BY <1>2 DEF Inverts
<1>7. NeedsPlanned(t)'
    BY <1>1, <1>2, <1>3, <1>4, <1>6 DEF NeedsPlanned
<1>8. ASSUME ~Inverts(t)
      PROVE  /\ \A row \in Rows : t \in owner'[row] => row[2] = op[t].obj /\ t \in owner'[registered]
             /\ \A row \in Rows : t \in sharers'[row] => row[1] = "registry"
             /\ \A s \in need'[t] : s.row = registered /\ s.mode = "update" =>
                   t \in owner'[registered] \/ \A row \in Rows : ~Holds(t, row)'
  <2>1. /\ r.mode = "update" => r.row[2] = op[t].obj
        /\ r.mode = "share" => r.row[1] = "registry"
        /\ \/ t \in owner[registered]
           \/ r.row = registered /\ r.mode = "update"
           \/ op[t].kind = "create" /\ \A s \in need[t] : s.mode = "share"
      BY <1>1, <1>2, <1>8, NextLockInOrder
  <2>2. \A row \in Rows : t \in owner[row] => row[2] = op[t].obj /\ t \in owner[registered]
      BY <1>1, <1>8 DEF OwnRowFirst
  <2>5. \A row \in Rows : t \in sharers'[row] => row[1] = "registry"
      BY <1>1, <1>5, <1>8, <2>1 DEF OwnRowFirst
  <2>3. CASE t \in owner'[registered]
    <3>1. \A row \in Rows : t \in owner'[row] => row[2] = op[t].obj
        BY <1>5, <2>1, <2>2
    <3> QED
        BY <2>3, <2>5, <3>1
  <2>4. CASE t \notin owner'[registered]
    <3>1. t \notin owner[registered] /\ ~(r.row = registered /\ r.mode = "update")
        BY <1>3, <1>5, <2>4
    <3>2. \A s \in need[t] : s.mode = "share"
        BY <2>1, <3>1
    <3>3. r.mode = "share" /\ \A s \in need'[t] : s.mode = "share"
        BY <1>3, <1>4, <3>2
    <3>4. \A row \in Rows : t \notin owner'[row]
        BY <1>5, <2>2, <3>1, <3>3
    <3> QED
        BY <2>5, <3>3, <3>4
  <2> QED
      BY <2>3, <2>4
<1>9. OwnRowFirst(t)'
    BY <1>2, <1>6, <1>8 DEF OwnRowFirst
<1>10. \A u \in Tx \ {t} : \A row \in Rows :
          /\ u \in owner'[row] <=> u \in owner[row]
          /\ u \in sharers'[row] <=> u \in sharers[row]
    BY <1>5
<1> QED
    BY <1>1, <1>2, <1>4, <1>7, <1>9, <1>10, OrderOfOthers

(* The next stage begins with all locks of the stage before.               *)
LEMMA EnterKeepsOrder ==
    ASSUME IInv, OrderIsKept, NEW t \in Tx, NEW s \in {"second", "third"}, NEW requests,
           need[t] = {}, Enter(t, s, requests), UNCHANGED <<op, waiting, lockVars>>,
           \/ Inverts(t)
           \/ s = "second" /\ op[t].kind = "delete" /\ requests = EraseLocks(op[t])
           \/ /\ s = "second" /\ op[t].kind = "transfer" /\ t \in owner[<<"registry", op[t].obj>>]
              /\ requests \subseteq AuthorizeLocks(op[t], Contacts)
    PROVE  OrderIsKept'
<1> DEFINE registered == <<"registry", op[t].obj>>
<1>1. TypeOK /\ NeedsPlanned(t) /\ OwnRowFirst(t)
    BY DEF IInv, OrderIsKept
<1>2. /\ stage'[t] = s /\ need'[t] = requests /\ op' = op
      /\ waiting' = waiting /\ owner' = owner /\ sharers' = sharers
      /\ \A u \in Tx \ {t} : stage'[u] = stage[u] /\ need'[u] = need[u]
    BY <1>1 DEF Enter, lockVars, TypeOK
<1>3. waiting'[t] = {}
    BY <1>1, <1>2 DEF NeedsPlanned, Foremost
<1>4. Inverts(t)' <=> Inverts(t)
    BY <1>2 DEF Inverts
<1>5. NeedsPlanned(t)'
    BY <1>2, <1>3, <1>4 DEF NeedsPlanned
<1>6. ASSUME ~Inverts(t), NEW r \in requests, r.row = registered, r.mode = "update"
      PROVE  t \in owner[registered]
  <2>1. CASE op[t].kind = "transfer" /\ t \in owner[registered]
      BY <2>1
  <2>2. CASE requests = EraseLocks(op[t])
    <3>1. r.row = <<"object", op[t].obj>>
        BY <1>1, <2>2, OpTyped, SecondPlanInOrder
    <3> QED
        BY <1>6, <3>1
  <2> QED
      BY <1>6, <2>1, <2>2
<1>7. OwnRowFirst(t)'
    BY <1>1, <1>2, <1>4, <1>6 DEF OwnRowFirst
<1> QED
    BY <1>1, <1>2, <1>5, <1>7, OrderOfOthers

LEMMA CheckNotLinkedKeepsOrder ==
    ASSUME IInv, OrderIsKept, NEW t \in Tx, CheckNotLinked(t)
    PROVE  OrderIsKept'
<1>1. CASE /\ Enter(t, "second", EraseLocks(op[t]))
           /\ UNCHANGED <<op, waiting, seen, listed, lockVars>>
  <2>1. op[t].kind = "delete" /\ need[t] = {}
      BY DEF CheckNotLinked, Ready
  <2> QED
      BY <1>1, <2>1, EnterKeepsOrder
<1>2. CASE End(t, "refused")
    BY <1>2, EndKeepsOrder
<1> QED
    BY <1>1, <1>2 DEF CheckNotLinked

LEMMA CheckSponsorKeepsOrder ==
    ASSUME IInv, OrderIsKept, NEW t \in Tx, CheckSponsor(t)
    PROVE  OrderIsKept'
<1> DEFINE entry == db[op[t].obj]
           requests == AuthorizeLocks(op[t], entry.contacts \cup {entry.registrant})
<1>1. CASE /\ Enter(t, "second", requests)
           /\ UNCHANGED <<op, waiting, seen, listed, lockVars>>
  <2>1. op[t].kind = "transfer" /\ need[t] = {} /\ Ready(t, "first")
      BY DEF CheckSponsor, Ready
  <2>2. requests \subseteq AuthorizeLocks(op[t], Contacts)
      BY DEF AuthorizeLocks
  <2>3. Inverts(t) \/ t \in owner[<<"registry", op[t].obj>>]
    <3>1. SUFFICES ASSUME ~Inverts(t) PROVE t \in owner[<<"registry", op[t].obj>>]
        OBVIOUS
    <3>2. PICK s \in FirstLocks(op[t]) : s.row = <<"registry", op[t].obj>> /\ s.mode = "update"
        BY <2>1, <3>1, OwnRowPlanned DEF Inverts
    <3> QED
        BY <2>1, <3>2, FirstStageDone DEF IInv, PlanIsKept, Has
  <2> HIDE DEF requests
  <2> QED
      BY <1>1, <2>1, <2>2, <2>3, EnterKeepsOrder
<1>2. CASE End(t, "refused")
    BY <1>2, EndKeepsOrder
<1> QED
    BY <1>1, <1>2 DEF CheckSponsor

LEMMA MergeListsKeepOrder ==
    ASSUME IInv, OrderIsKept, NEW t \in Tx, ListRegistrants(t) \/ ListContacts(t)
    PROVE  OrderIsKept'
<1>1. Inverts(t) /\ need[t] = {}
    BY DEF ListRegistrants, ListContacts, Inverts, Ready
<1>2. PICK s, requests :
        s \in {"second", "third"} /\ Enter(t, s, requests) /\ UNCHANGED <<op, waiting, lockVars>>
    BY DEF ListRegistrants, ListContacts
<1> QED
    BY <1>1, <1>2, EnterKeepsOrder

LEMMA OrderNext == IInv /\ OrderIsKept /\ [Next]_vars => OrderIsKept'
<1> SUFFICES ASSUME IInv, OrderIsKept, [Next]_vars PROVE OrderIsKept'
    OBVIOUS
<1>1. CASE UNCHANGED vars
  <2>1. \A u \in Tx : (Inverts(u)' <=> Inverts(u)) /\ \A row \in Rows : Holds(u, row)' <=> Holds(u, row)
      BY <1>1 DEF vars, Inverts, Holds
  <2> QED
      BY <1>1, <2>1 DEF OrderIsKept, NeedsPlanned, OwnRowFirst, vars
<1>2. ASSUME NEW t \in Tx, Start(t) PROVE OrderIsKept'
    BY <1>2, StartKeepsOrder
<1>3. ASSUME NEW t \in Tx, Step(t) PROVE OrderIsKept'
  <2>1. CASE BeginLookup(t)
      BY <2>1, BeginLookupKeepsOrder
  <2>2. CASE GetLock(t)
      BY <2>2, GetLockKeepsOrder
  <2>3. CASE SkipMissing(t)
      BY <2>3, SkipMissingKeepsOrder
  <2>4. CASE CheckNotLinked(t)
      BY <2>4, CheckNotLinkedKeepsOrder
  <2>5. CASE CheckSponsor(t)
      BY <2>5, CheckSponsorKeepsOrder
  <2>6. CASE ListRegistrants(t) \/ ListContacts(t)
      BY <2>6, MergeListsKeepOrder
  <2>7. CASE \/ ObjectUnknown(t) \/ Create(t) \/ Update(t) \/ Renew(t)
             \/ Delete(t) \/ Transfer(t) \/ Merge(t)
    <3>1. End(t, "unknown") \/ End(t, "committed") \/ End(t, "refused")
        BY <2>7 DEF ObjectUnknown, Create, Update, Renew, Delete, Transfer, Merge
    <3> QED
        BY <3>1, EndKeepsOrder
  <2> QED
      BY <1>3, <2>1, <2>2, <2>3, <2>4, <2>5, <2>6, <2>7 DEF Step
<1>4. ASSUME NEW t \in Tx, Rollback(t) PROVE OrderIsKept'
    BY <1>4, EndKeepsOrder DEF Rollback
<1>5. ASSUME NEW t \in Tx, BreakDeadlock(t) PROVE OrderIsKept'
    BY <1>5, EndKeepsOrder DEF BreakDeadlock
<1> QED
    BY <1>1, <1>2, <1>3, <1>4, <1>5 DEF Next

LEMMA OrderInit == Init => OrderIsKept
BY DEF Init, OrderIsKept, NeedsPlanned, OwnRowFirst, Holds, Foremost


-----------------------------------------------------------------------------
(* Deadlocks                                                               *)

(* A transaction that holds nothing is in no ring.                         *)
LEMMA InRingHolds ==
    ASSUME TypeOK, NEW ts \in SUBSET Tx, Ring(ts), NEW t \in ts
    PROVE  \E row \in Rows : Holds(t, row)
<1> SUFFICES ASSUME \A row \in Rows : ~Holds(t, row) PROVE FALSE
    OBVIOUS
<1>1. \A v \in Tx : ~WaitsFor(v, t)
    BY DEF WaitsFor, Blockers, Holds, TypeOK, LockRequest
<1>2. \A v \in ts : \E u \in ts : WaitsFor(v, u)
    BY DEF Ring, Stuck
<1>3. ts \ {t} # {} /\ \A v \in ts \ {t} : \E u \in ts \ {t} : WaitsFor(v, u)
    BY <1>1, <1>2
<1>4. Stuck(ts \ {t})
    BY <1>3 DEF Stuck
<1> QED
    BY <1>4 DEF Ring

(* In a ring of operations that keep to the order, one waits FOR SHARE of  *)
(* an object that the next has locked FOR UPDATE because it is its own.    *)
LEMMA WaitsForReference ==
    ASSUME IInv, OrderIsKept, NEW ts \in SUBSET Tx, Ring(ts), \A t \in ts : ~Inverts(t),
           NEW t \in ts, NEW u \in ts, WaitsFor(t, u)
    PROVE  op[t].obj \notin Contacts /\ op[u].obj \in SharesOf(op[t])
<1> DEFINE registered == <<"registry", op[t].obj>>
<1>0. TypeOK /\ LocksProtect /\ PlanIsKept /\ KeepsPlan(t)
    BY DEF IInv, PlanIsKept
<1>1. NeedsPlanned(t) /\ OwnRowFirst(t) /\ OwnRowFirst(u) /\ ~Inverts(t) /\ ~Inverts(u)
    BY DEF OrderIsKept
<1>2. PICK r \in waiting[t] : u \in Blockers(t, r)
    BY DEF WaitsFor
<1>3. /\ r \in need[t] /\ r.row \in Rows /\ r.mode \in {"share", "update"} /\ registered \in Rows
      /\ op[t] \in Operation /\ Expressible(op[t])
    BY <1>0, <1>1, <1>2, OpTyped DEF TypeOK, LockRequest, Rows, NeedsPlanned, Foremost
<1>4. stage[t] \in {"first", "second"}
    BY <1>0, <1>1, <1>3 DEF NeedsPlanned, KeepsPlan, Inverts
<1>5. u # t /\ (u \in owner[r.row] \/ (r.mode = "update" /\ u \in sharers[r.row]))
    BY <1>2 DEF Blockers
<1>6. r.row # registered \/ t \notin owner[registered]
    BY <1>0, <1>3, <1>5, Alone DEF Holds
<1>7. r.mode = "share"
  <2> SUFFICES ASSUME r.mode = "update" PROVE FALSE
      BY <1>3
  <2>1. r.row[2] = op[t].obj /\ (t \in owner[registered] \/ r.row = registered)
      BY <1>1, <1>2, <1>3, NextLockInOrder
  <2>2. CASE r.row = registered
    <3>1. t \notin owner[registered]
        BY <1>6, <2>2
    <3>2. \A row \in Rows : ~Holds(t, row)
        BY <1>1, <1>3, <2>2, <3>1 DEF OwnRowFirst
    <3> QED
        BY <1>0, <3>2, InRingHolds
  <2>3. CASE r.row # registered
    <3>1. t \in owner[registered] /\ r.row[1] # "registry"
        BY <1>3, <2>1, <2>3 DEF Rows
    <3>2. u \in owner[r.row]
        BY <1>1, <1>3, <1>5, <3>1 DEF OwnRowFirst
    <3>3. u \in owner[registered]
        BY <1>1, <1>3, <2>1, <3>2 DEF OwnRowFirst
    <3> QED
        BY <1>0, <1>3, <1>5, <3>1, <3>3, Alone DEF Holds
  <2> QED
      BY <2>2, <2>3
<1>8. op[u].obj = r.row[2]
    BY <1>1, <1>3, <1>5, <1>7 DEF OwnRowFirst
<1>9. CASE stage[t] = "first"
  <2>1. InOrder(op[t], r)
    <3>1. r \in FirstLocks(op[t])
        BY <1>1, <1>3, <1>9 DEF NeedsPlanned
    <3> QED
        BY <1>1, <1>3, <3>1, FirstPlanInOrder DEF Inverts
  <2> QED
      BY <1>7, <1>8, <2>1 DEF InOrder
<1>10. CASE stage[t] = "second"
  <2>1. op[t].kind \in {"delete", "transfer"}
      BY <1>1, <1>10 DEF NeedsPlanned
  <2>2. t \in owner[registered]
      BY <1>0, <1>1, <1>10, <2>1, SecondStageOwns
  <2>3. r \notin EraseLocks(op[t])
      BY <1>3, <1>7, SecondPlanInOrder
  <2>4. op[t].kind = "transfer" /\ r \in AuthorizeLocks(op[t], Contacts)
      BY <1>1, <1>3, <1>10, <2>3 DEF NeedsPlanned
  <2>5. r.row[1] = "registry" /\ r.row[2] \in Contacts \cup {op[t].obj}
      BY <1>3, <1>7, <2>4, SecondPlanInOrder
  <2>6. r.row[2] # op[t].obj
      BY <1>3, <1>6, <2>2, <2>5 DEF Rows
  <2>7. op[t].obj \notin Contacts
      BY <1>1, <2>4 DEF Inverts
  <2> QED
      BY <1>8, <2>5, <2>6, <2>7 DEF SharesOf
<1> QED
    BY <1>4, <1>9, <1>10

LEMMA RingNeedsInversion == IInv /\ OrderIsKept => DeadlockNeedsInversion
<1> SUFFICES ASSUME IInv, OrderIsKept, NEW ts \in SUBSET Tx, Ring(ts), \A t \in ts : ~Inverts(t)
             PROVE  FALSE
    BY DEF DeadlockNeedsInversion, Inverts
<1>1. ts # {} /\ \A t \in ts : \E u \in ts : WaitsFor(t, u)
    BY DEF Ring, Stuck
<1>2. PICK t \in ts, u \in ts : WaitsFor(t, u)
    BY <1>1
<1>3. PICK v \in ts : WaitsFor(u, v)
    BY <1>1
<1>4. PICK w \in ts : WaitsFor(v, w)
    BY <1>1
<1>5. op[u].obj \in SharesOf(op[t]) /\ op[u].obj \notin Contacts
    BY <1>2, <1>3, WaitsForReference
<1>6. op[v].obj \in SharesOf(op[u]) /\ op[v].obj \notin Contacts
    BY <1>3, <1>4, WaitsForReference
<1>7. op[u].obj \in Nssets \cup Keysets /\ op[u].obj \in Domains
    BY <1>5, <1>6 DEF SharesOf
<1> QED
    BY <1>7, TypesDisjoint

(* A deadlock takes a merge or the transfer of a contact: the other        *)
(* operations lock their own object first, from domains over nssets and    *)
(* keysets to contacts, and object_registry before object.                 *)
THEOREM DeadlocksNeedInversion == Spec => []DeadlockNeedsInversion
<1>1. Init => IInv /\ OrderIsKept
    BY InvInit, OrderInit
<1>2. (IInv /\ OrderIsKept) /\ [Next]_vars => (IInv /\ OrderIsKept)'
    BY InvNext, OrderNext
<1>3. IInv /\ OrderIsKept => DeadlockNeedsInversion
    BY RingNeedsInversion
<1> QED
    BY <1>1, <1>2, <1>3, PTL DEF Spec

-----------------------------------------------------------------------------
(* Registry implements AtomicRegistry.  The refinement mapping is the      *)
(* identity on db; a commit is a step of the abstract operation and        *)
(* everything else stutters.  First, a commit of each kind is a step of    *)
(* the abstract operation.                                                 *)

LEMMA CreateIsAtomic ==
    ASSUME IInv, NEW t \in Tx, Create(t)
    PROVE  Atomic!Create(op[t]) \/ UNCHANGED db
<1>1. op[t].kind = "create" /\ Ready(t, "first")
    BY DEF Create
<1>2. \A r \in NewReferences(op[t]) : IsLive(db, r)
    BY <1>1, CreateGuard
<1> QED
    BY <1>2 DEF Create, Atomic!Create, Atomic!NewReferences, Atomic!IsLive, Atomic!Created,
                NewReferences, IsLive, Created

LEMMA UpdateIsAtomic ==
    ASSUME IInv, NEW t \in Tx, Update(t)
    PROVE  Atomic!Update(op[t]) \/ UNCHANGED db
<1>1. op[t].kind = "update" /\ Ready(t, "first")
    BY DEF Update
<1>2. (\A r \in NewReferences(op[t]) : IsLive(db, r)) /\ IsLive(db, op[t].obj)
    BY <1>1, UpdateGuard
<1> QED
    BY <1>2 DEF Update, Atomic!Update, Atomic!NewReferences, Atomic!IsLive, Atomic!Updated,
                Atomic!UpdatedEntry, Atomic!ContactsFit,
                NewReferences, IsLive, Updated, UpdatedEntry, ContactsFit

LEMMA RenewIsAtomic ==
    ASSUME IInv, NEW t \in Tx, Renew(t)
    PROVE  Atomic!Renew(op[t])
<1>1. op[t].kind = "renew" /\ Ready(t, "first") /\ db' = Renewed(db, op[t])
    BY DEF Renew
<1>2. Has(t, Lock("registry", op[t].obj, "update", 1, "lookup"))
    BY <1>1, InvConsistent, FirstStageDone DEF FirstLocks, RenewLocks
<1>3. t \in owner[<<"registry", op[t].obj>>]
    BY <1>2, LockFields DEF Has
<1>4. IsLive(db, op[t].obj)
    BY <1>3, InvConsistent, HeldIsLive DEF Holds
<1> QED
    BY <1>1, <1>4 DEF Atomic!Renew, Atomic!IsLive, Atomic!Renewed, IsLive, Renewed

(* The sponsor that CheckSponsor saw is still the sponsor.                 *)
LEMMA TransferIsAtomic ==
    ASSUME IInv, NEW t \in Tx, Transfer(t)
    PROVE  Atomic!Transfer(op[t])
<1>1. /\ op[t].kind = "transfer" /\ stage[t] = "second"
      /\ db' = Transferred(db, op[t])
    BY DEF Transfer, Ready
<1>2. IsLive(db, op[t].obj)
    BY <1>1, InvConsistent, LaterStagesHold, HeldIsLive DEF Holds
<1>3. db[op[t].obj].sponsor # op[t].registrar
    BY <1>1, InvConsistent DEF ChecksHold
<1> QED
    BY <1>1, <1>2, <1>3 DEF Atomic!Transfer, Atomic!IsLive, Atomic!Transferred, IsLive,
                            Transferred

(* The object that CheckNotLinked saw unlinked is still unlinked.          *)
LEMMA DeleteIsAtomic ==
    ASSUME IInv, NEW t \in Tx, Delete(t)
    PROVE  Atomic!Delete(op[t])
<1>1. op[t].kind = "delete" /\ Ready(t, "second") /\ db' = Erased(db, op[t].obj)
    BY DEF Delete
<1>2. IsLive(db, op[t].obj) /\ (op[t].obj \in Domains \/ ~IsLinked(db, op[t].obj))
    BY <1>1, DeleteGuard
<1> QED
    BY <1>1, <1>2 DEF Atomic!Delete, Atomic!IsLive, Atomic!IsLinked, Atomic!Erased,
                      Atomic!ErasedEntry, Atomic!References, Atomic!Objects,
                      IsLive, IsLinked, Erased, ErasedEntry, References, Objects

(* What a merge has listed is exactly what the source is a contact of, and *)
(* at least what it is the registrant of.                                  *)
LEMMA MergeIsAtomic ==
    ASSUME IInv, NEW t \in Tx, Merge(t)
    PROVE  Atomic!Merge(op[t]) \/ UNCHANGED db
<1> DEFINE o == op[t]
           R == listed[t].registrant
           C == listed[t].contact
<1>1. o.kind = "merge" /\ Ready(t, "third")
    BY DEF Merge
<1>2. /\ IsLive(db, o.obj) /\ IsLive(db, o.dst)
      /\ RegisteredBy(db, o.obj) \subseteq R
      /\ R \subseteq {d \in Domains : IsLive(db, d)}
      /\ C = ContactOf(db, o.obj)
    BY <1>1, MergeGuard
<1>3. CASE db' = Merged(db, o, R, C)
  <2>1. R = RegisteredBy(db, o.obj) \cup R
      BY <1>2
  <2>2. db' = Merged(db, o, RegisteredBy(db, o.obj) \cup R, ContactOf(db, o.obj))
      BY <1>2, <1>3, <2>1
  <2>3. db' = Atomic!Merged(db, o, Atomic!RegisteredBy(db, o.obj) \cup R,
                            Atomic!ContactOf(db, o.obj))
      BY <2>2 DEF Merged, Relinked, Erased, ErasedEntry, RegisteredBy, ContactOf, IsLive, Objects,
                  Atomic!Merged, Atomic!Relinked, Atomic!Erased, Atomic!ErasedEntry,
                  Atomic!RegisteredBy, Atomic!ContactOf, Atomic!IsLive, Atomic!Objects
  <2>4. R \in SUBSET {d \in Domains : Atomic!IsLive(db, d)}
      BY <1>2 DEF IsLive, Atomic!IsLive
  <2> QED
      BY <1>1, <1>2, <2>3, <2>4 DEF Atomic!Merge, Atomic!IsLive, IsLive
<1> QED
    BY <1>3 DEF Merge

-----------------------------------------------------------------------------
(* Every step maps to an abstract step or a stutter.                       *)
LEMMA StepIsAtomic ==
    ASSUME IInv, [Next]_vars
    PROVE  [Atomic!Next]_db
<1>1. ASSUME NEW t \in Tx, Atomic!Create(op[t]) \/ Atomic!Update(op[t]) \/ Atomic!Delete(op[t])
                           \/ Atomic!Renew(op[t]) \/ Atomic!Transfer(op[t]) \/ Atomic!Merge(op[t])
      PROVE  Atomic!Next
  <2>1. op[t] \in Requests
      BY InvConsistent DEF TypeOK
  <2> QED
      BY <1>1, <2>1 DEF Atomic!Next
<1>2. CASE UNCHANGED vars
    BY <1>2 DEF vars
<1>3. ASSUME NEW t \in Tx, Start(t) \/ Rollback(t) \/ BreakDeadlock(t)
      PROVE  UNCHANGED db
    BY <1>3 DEF Start, Rollback, BreakDeadlock
<1>4. ASSUME NEW t \in Tx, Step(t)
      PROVE  Atomic!Next \/ UNCHANGED db
  <2>1. CASE BeginLookup(t) \/ GetLock(t) \/ ObjectUnknown(t) \/ SkipMissing(t)
             \/ CheckNotLinked(t) \/ CheckSponsor(t) \/ ListRegistrants(t) \/ ListContacts(t)
      BY <2>1 DEF BeginLookup, GetLock, ObjectUnknown, SkipMissing, CheckNotLinked,
                  CheckSponsor, ListRegistrants, ListContacts
  <2>2. CASE Create(t)
      BY <2>2, <1>1, CreateIsAtomic
  <2>3. CASE Update(t)
      BY <2>3, <1>1, UpdateIsAtomic
  <2>4. CASE Renew(t)
      BY <2>4, <1>1, RenewIsAtomic
  <2>5. CASE Delete(t)
      BY <2>5, <1>1, DeleteIsAtomic
  <2>6. CASE Transfer(t)
      BY <2>6, <1>1, TransferIsAtomic
  <2>7. CASE Merge(t)
      BY <2>7, <1>1, MergeIsAtomic
  <2> QED
      BY <1>4, <2>1, <2>2, <2>3, <2>4, <2>5, <2>6, <2>7 DEF Step
<1> QED
    BY <1>2, <1>3, <1>4 DEF Next

(* The row locks make every operation atomic: what the detailed steps of   *)
(* any number of transactions do to the register, AtomicRegistry allows.   *)
THEOREM RegistryImplementsAtomic == Spec => OperationsAreAtomic
<1>1. Init => Atomic!Init
    BY DEF Init, Atomic!Init
<1>2. IInv /\ [Next]_vars => [Atomic!Next]_db
    BY StepIsAtomic
<1> QED
    BY <1>1, <1>2, Invariance, PTL DEF Spec, Atomic!Spec, OperationsAreAtomic
=============================================================================
