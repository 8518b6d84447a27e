-------------------------- MODULE Registration_proofs --------------------------
(***************************************************************************)
(* Theorems about names: which zone a new domain is in, what it was        *)
(* checked for, and what other operations may have changed meanwhile.      *)
(***************************************************************************)
EXTENDS Administration_proofs

-----------------------------------------------------------------------------
(* Suffixes                                                                *)

LEMMA SameSequence ==
    ASSUME NEW S, NEW s \in Seq(S), NEW t \in Seq(S), Len(s) = Len(t), \A k \in 1..Len(s) : s[k] = t[k]
    PROVE  s = t
  OBVIOUS

LEMMA SuffixIs ==
    ASSUME NEW S, NEW s \in Seq(S), NEW t \in Seq(S)
    PROVE  IsSuffix(s, t) <=>
              Len(s) <= Len(t) /\ \A i \in 1..Len(s) : s[Len(s) - i + 1] = t[Len(t) - i + 1]
<1>1. \A u \in Seq(S) :
         Len(u) \in Nat /\ Len(Reverse(u)) = Len(u) /\ DOMAIN Reverse(u) = 1..Len(u)
         /\ \A i \in 1..Len(u) : Reverse(u)[i] = u[Len(u) - i + 1]
  BY DEF Reverse
<1> QED BY <1>1 DEF IsSuffix, IsPrefix

(* Of two suffixes of a sequence the shorter is one of the longer.         *)
LEMMA SuffixesNest ==
    ASSUME NEW S, NEW s \in Seq(S), NEW t \in Seq(S), NEW u \in Seq(S),
           IsSuffix(s, u), IsSuffix(t, u), Len(s) <= Len(t)
    PROVE  IsSuffix(s, t) /\ (Len(s) = Len(t) => s = t)
<1>1. /\ \A i \in 1..Len(s) : s[Len(s) - i + 1] = u[Len(u) - i + 1]
      /\ \A i \in 1..Len(t) : t[Len(t) - i + 1] = u[Len(u) - i + 1]
      /\ Len(s) \in Nat /\ Len(t) \in Nat
  BY SuffixIs
<1>2. \A i \in 1..Len(s) : s[Len(s) - i + 1] = t[Len(t) - i + 1]
  BY <1>1
<1>3. IsSuffix(s, t)
  BY <1>2, SuffixIs
<1>4. ASSUME Len(s) = Len(t) PROVE s = t
  <2>1. ASSUME NEW k \in 1..Len(s) PROVE s[k] = t[k]
    <3>1. Len(s) - k + 1 \in 1..Len(s) /\ Len(s) - (Len(s) - k + 1) + 1 = k
      BY <1>1
    <3> QED BY <1>2, <1>4, <3>1
  <2> QED BY <1>4, <2>1, SameSequence
<1> QED BY <1>3, <1>4

LEMMA BeforeSuffix ==
    ASSUME NEW S, NEW s \in Seq(S), NEW u \in Seq(S), EndsWith(u, s),
           NEW own, own = SubSeq(u, 1, Len(u) - Len(s))
    PROVE  u = own \o s /\ own # <<>> /\ Len(own) = Len(u) - Len(s)
<1>1. /\ Len(s) \in Nat /\ Len(u) \in Nat /\ Len(u) > Len(s)
      /\ \A i \in 1..Len(s) : s[Len(s) - i + 1] = u[Len(u) - i + 1]
  BY SuffixIs DEF EndsWith
<1>2. /\ own \in Seq(S) /\ Len(own) = Len(u) - Len(s) /\ DOMAIN own = 1..(Len(u) - Len(s))
      /\ \A k \in 1..(Len(u) - Len(s)) : own[k] = u[k]
  BY <1>1
<1>3. ASSUME NEW k \in 1..Len(u) PROVE (own \o s)[k] = u[k]
  <2>1. CASE k <= Len(own)
    BY <1>1, <1>2, <2>1
  <2>2. CASE k > Len(own)
    <3> DEFINE i == Len(u) - k + 1
    <3>1. i \in 1..Len(s) /\ Len(s) - i + 1 = k - Len(own) /\ Len(u) - i + 1 = k
      <4>1. PICK a \in Nat, b \in Nat : a = Len(s) /\ b = Len(u) /\ Len(own) = b - a
        BY <1>1, <1>2
      <4>2. k \in 1..b /\ k > b - a
        BY <2>2, <4>1
      <4>3. b - k + 1 \in 1..a /\ a - (b - k + 1) + 1 = k - (b - a) /\ b - (b - k + 1) + 1 = k
        BY <4>2
      <4> QED BY <4>1, <4>3
    <3>2. s[k - Len(own)] = u[k]
      BY <1>1, <3>1
    <3> QED BY <1>1, <1>2, <2>2, <3>2
  <2> QED BY <1>1, <1>2, <2>1, <2>2
<1>4. own \o s \in Seq(S) /\ Len(own \o s) = Len(u)
  BY <1>1, <1>2
<1>5. u = own \o s
  <2>1. PICK whole \in Seq(S) : whole = own \o s
    BY <1>4
  <2>2. Len(whole) = Len(u) /\ \A k \in 1..Len(u) : u[k] = whole[k]
    BY <1>3, <1>4, <2>1
  <2> QED BY <2>1, <2>2, SameSequence
<1>6. own # <<>>
  <2>1. 1 \in DOMAIN own
    BY <1>1, <1>2
  <2>2. DOMAIN <<>> = {}
    OBVIOUS
  <2> QED BY <2>1, <2>2, Zenon
<1> QED BY <1>2, <1>5, <1>6

-----------------------------------------------------------------------------
(* The inductive invariant                                                 *)

SameZone(a, b) == a.fqdn = b.fqdn /\ a.enum = b.enum /\ a.dots = b.dots

(* No two zones have one name.                                             *)
ZonesApart ==
    \A i, j \in RowsOf("zone") : i # j => db["zone"][i].fqdn # db["zone"][j].fqdn

(* A zone that has been written is new, with a name that no other has or   *)
(* is about to have, or has periods changed.                               *)
ZonesKept(p) ==
    \A c \in draft[p] : c.table = "zone" =>
        /\ c.id \in Ids /\ c.row # None
        /\ IF db["zone"][c.id] # None THEN SameZone(c.row, db["zone"][c.id])
           ELSE Unique(p, "zone", 0, "fqdn", c.row.fqdn)
        /\ \A d \in draft[p] : d.table = "zone" => d = c

(* Tables that rows are only added to                                      *)
RowsAdded(p) ==
    \A c \in draft[p] : c.table \in {"domain", "domain_blacklist"} =>
        c.id \in Ids /\ c.row # None /\ db[c.table][c.id] = None

LabelsPass(name, fqdn, config) ==
    \A k \in 1..(Len(name) - Len(fqdn)), c \in config : name[k] \notin Rejects[c]

(* The longest of the zones that a name ends with                          *)
Longest(rows, name, z) ==
    /\ rows[z] # None /\ EndsWith(name, rows[z].fqdn)
    /\ \A i \in Ids : rows[i] # None /\ EndsWith(name, rows[i].fqdn) =>
          Len(rows[i].fqdn) <= Len(rows[z].fqdn)

(* What has been checked of the name that p registers, if it is in zone z  *)
Suits(p, z) ==
    LET name == call[p].name
        zone == db["zone"][z]
    IN /\ seen[p].step > 2 => Len(name) <= Len(zone.fqdn) + zone.dots
       /\ zone.enum => \A i \in seen[p].domains :
             db["domain"][i].zone = z => ~Nested(name, db["domain"][i].name)
       /\ seen[p].step > 7 => seen[p].system \/ LabelsPass(name, zone.fqdn, seen[p].passed.config)

(* The zone that was found is no shorter than those that were there at     *)
(* first.                                                                  *)
ZoneFound(p) ==
    LET name == call[p].name
        found == seen[p].zone
    IN found # None =>
          /\ found \in RowsOf("zone") /\ EndsWith(name, db["zone"][found].fqdn)
          /\ \A z \in seen[p].zones : EndsWith(name, db["zone"][z].fqdn) =>
                Len(db["zone"][z].fqdn) <= Len(db["zone"][found].fqdn)

(* A zone that was there at first and is still that of the name has been   *)
(* it for each check.                                                      *)
Checked(p) ==
    \A z \in seen[p].zones : Longest(db["zone"], call[p].name, z) \/ z = seen[p].zone => Suits(p, z)

(* The registrar that was read as the system's own is locked.              *)
SystemLocked(p) ==
    seen[p].step > 5 /\ seen[p].system =>
        \E r \in RowsOf("registrar") :
           /\ RowLock("registrar", r) \in locks[p]
           /\ db["registrar"][r].handle = call[p].handle /\ db["registrar"][r].system

RegistrationKept(p) ==
    stage[p] \in {"checking", "written"} /\ call[p].kind = "register" =>
        /\ DOMAIN seen[p] = {"step", "zone", "zones", "domains", "passed", "system"}
        /\ seen[p].step \in 1..8
        /\ seen[p].zones \subseteq RowsOf("zone") /\ seen[p].domains \subseteq RowsOf("domain")
        /\ ZoneFound(p) /\ Checked(p) /\ SystemLocked(p)
        /\ stage[p] = "written" =>
              /\ seen[p].step = 8 /\ seen[p].zone # None
              /\ \A c \in draft[p] : c.row = [name |-> call[p].name, zone |-> seen[p].zone]

Apart(a, b) ==
    ~(/\ b.to # None => a.from < b.to
      /\ a.to # None => b.from < a.to)

BlacklistKept(p) ==
    stage[p] \in {"checked", "written"} /\ call[p].kind = "blacklist" =>
        /\ seen[p] \subseteq RowsOf("domain_blacklist") /\ db["domain"][call[p].id] # None
        /\ \A i \in seen[p] :
              LET row == db["domain_blacklist"][i] IN
              row.regexp = NewBlacklisting(p).regexp => Apart(NewBlacklisting(p), row)
        /\ stage[p] = "written" => \A c \in draft[p] : c.row = NewBlacklisting(p)

Remembers(p) == seen[p] # None /\ call[p].kind = "setConfig"

(* Rows for checkers are new, and not those that others are about to       *)
(* delete.                                                                 *)
CheckersNew(p) ==
    \A c \in draft[p] : c.table = "checker_map" =>
        /\ c.id \in Ids
        /\ c.row # None =>
              /\ db["checker_map"][c.id] = None
              /\ \A q \in Process : Remembers(q) => c.id \notin seen[q].rows

ConfigKept(p) ==
    stage[p] \in {"found", "written"} /\ call[p].kind = "setConfig" =>
        /\ seen[p] \in SeenConfig
        /\ stage[p] = "written" =>
              LET checkers == call[p].checkers \cap DOMAIN Rejects IN
              /\ \A c \in draft[p] : c.table = "checker_map"
              /\ \A c \in draft[p] : c.row # None =>
                    /\ c.row.zone = seen[p].zone /\ c.row.checker \in checkers
                    /\ \A d \in draft[p] : d.id = c.id => d = c
              /\ \A x \in checkers : \E c \in draft[p] : c.row # None /\ c.row.checker = x
              /\ \A i \in seen[p].rows : db["checker_map"][i] # None =>
                    \E c \in draft[p] : c.id = i

NamesOf(p) ==
    /\ stage[p] = "idle" => seen[p] = None
    /\ ZonesKept(p) /\ RowsAdded(p) /\ CheckersNew(p)
    /\ RegistrationKept(p) /\ BlacklistKept(p) /\ ConfigKept(p)

NamesKept ==
    /\ RowsTyped("zone", ZoneRow) /\ RowsTyped("checker_map", CheckerRow)
    /\ RowsTyped("domain", DomainRow) /\ RowsTyped("domain_blacklist", BlacklistRow)
    /\ ZonesApart
    /\ \A p \in Process : NamesOf(p)

-----------------------------------------------------------------------------
(* What others do to what one has seen                                     *)

(* Zones stay what they are, domains and rows of the black list are kept.  *)
Grows ==
    \A i \in Ids :
        /\ db["zone"][i] # None => db'["zone"][i] # None /\ SameZone(db'["zone"][i], db["zone"][i])
        /\ db["domain"][i] # None => db'["domain"][i] = db["domain"][i]
        /\ db["domain_blacklist"][i] # None => db'["domain_blacklist"][i] = db["domain_blacklist"][i]

Undisturbed(p) ==
    /\ call'[p] = call[p] /\ stage'[p] = stage[p] /\ day'[p] = day[p]
    /\ draft'[p] = draft[p] /\ seen'[p] = seen[p] /\ locks'[p] = locks[p]

(* Registrars that p has locked are not changed.                           *)
RegistrarsStay(p) ==
    \A r \in Ids : RowLock("registrar", r) \in locks[p] => db'["registrar"][r] = db["registrar"][r]

(* A zone that is the longest was it when there were fewer.                *)
LEMMA LongestWas ==
    ASSUME NEW old, NEW new, NEW name, NEW z \in Ids, old[z] # None, Longest(new, name, z),
           \A i \in Ids : old[i] # None => new[i] # None /\ SameZone(new[i], old[i])
    PROVE  Longest(old, name, z)
  BY DEF Longest, SameZone

LEMMA FoundStays ==
    ASSUME NEW p \in Process, Grows, Undisturbed(p), ZoneFound(p), seen[p].zones \subseteq RowsOf("zone")
    PROVE  ZoneFound(p)'
<1> SUFFICES ASSUME seen[p].zone # None
             PROVE  /\ seen[p].zone \in RowsOf("zone")'
                    /\ EndsWith(call[p].name, db'["zone"][seen[p].zone].fqdn)
                    /\ \A z \in seen[p].zones : EndsWith(call[p].name, db'["zone"][z].fqdn) =>
                          Len(db'["zone"][z].fqdn) <= Len(db'["zone"][seen[p].zone].fqdn)
  BY DEF ZoneFound, Undisturbed
<1>1. \A z \in RowsOf("zone") : z \in RowsOf("zone")' /\ db'["zone"][z].fqdn = db["zone"][z].fqdn
  BY DEF Grows, SameZone, RowsOf
<1> QED BY <1>1 DEF ZoneFound

LEMMA SuitsStays ==
    ASSUME NEW p \in Process, Grows, Undisturbed(p), NEW z \in RowsOf("zone"), Suits(p, z),
           seen[p].domains \subseteq RowsOf("domain")
    PROVE  Suits(p, z)'
<1>1. SameZone(db'["zone"][z], db["zone"][z])
  BY DEF Grows, RowsOf
<1>2. \A i \in seen[p].domains : db'["domain"][i] = db["domain"][i]
  BY DEF Grows, RowsOf
<1> QED BY <1>1, <1>2 DEF Suits, Undisturbed, SameZone

LEMMA CheckedStays ==
    ASSUME NEW p \in Process, Grows, Undisturbed(p), Checked(p),
           seen[p].zones \subseteq RowsOf("zone"), seen[p].domains \subseteq RowsOf("domain")
    PROVE  Checked(p)'
<1> SUFFICES ASSUME NEW z \in seen[p].zones,
                    Longest(db'["zone"], call[p].name, z) \/ z = seen[p].zone
             PROVE  Suits(p, z)'
  BY DEF Checked, Undisturbed
<1>1. z \in Ids /\ db["zone"][z] # None
  BY DEF RowsOf
<1>2. Longest(db["zone"], call[p].name, z) \/ z = seen[p].zone
  BY <1>1, LongestWas DEF Grows
<1>3. Suits(p, z)
  BY <1>2 DEF Checked
<1> QED BY <1>3, SuitsStays

LEMMA RegistrationStays ==
    ASSUME NEW p \in Process, Grows, Undisturbed(p), RegistrarsStay(p), RegistrationKept(p)
    PROVE  RegistrationKept(p)'
<1> SUFFICES ASSUME call[p].kind = "register", stage[p] \in {"checking", "written"}
             PROVE  RegistrationKept(p)'
  BY DEF RegistrationKept, Undisturbed
<1>1. /\ seen[p].zones \subseteq RowsOf("zone") /\ seen[p].domains \subseteq RowsOf("domain")
      /\ ZoneFound(p) /\ Checked(p) /\ SystemLocked(p)
  BY DEF RegistrationKept
<1>2. seen[p].zones \subseteq RowsOf("zone")' /\ seen[p].domains \subseteq RowsOf("domain")'
  BY <1>1 DEF Grows, RowsOf
<1>3. SystemLocked(p)'
  <2> SUFFICES ASSUME seen[p].step > 5, seen[p].system
               PROVE  \E r \in RowsOf("registrar")' :
                         /\ RowLock("registrar", r) \in locks[p]
                         /\ db'["registrar"][r].handle = call[p].handle /\ db'["registrar"][r].system
    BY DEF SystemLocked, Undisturbed
  <2>1. PICK r \in RowsOf("registrar") :
           /\ RowLock("registrar", r) \in locks[p]
           /\ db["registrar"][r].handle = call[p].handle /\ db["registrar"][r].system
    BY <1>1 DEF SystemLocked
  <2>2. r \in RowsOf("registrar")' /\ db'["registrar"][r] = db["registrar"][r]
    BY <2>1 DEF RegistrarsStay, RowsOf
  <2> QED BY <2>1, <2>2
<1>4. ZoneFound(p)' /\ Checked(p)'
  BY <1>1, FoundStays, CheckedStays
<1> QED BY <1>2, <1>3, <1>4 DEF RegistrationKept, Undisturbed

LEMMA BlacklistStays ==
    ASSUME NEW p \in Process, Grows, Undisturbed(p), BlacklistKept(p),
           stage[p] # "idle" /\ call[p].kind = "blacklist" => call[p].id \in Ids
    PROVE  BlacklistKept(p)'
<1> SUFFICES ASSUME call[p].kind = "blacklist", stage[p] \in {"checked", "written"}
             PROVE  BlacklistKept(p)'
  BY DEF BlacklistKept, Undisturbed
<1>1. \A i \in seen[p] : i \in RowsOf("domain_blacklist")' /\ db'["domain_blacklist"][i] = db["domain_blacklist"][i]
  BY DEF BlacklistKept, Grows, RowsOf
<1>2. db'["domain"][call[p].id] # None /\ NewBlacklisting(p)' = NewBlacklisting(p)
  BY DEF BlacklistKept, Grows, Undisturbed, NewBlacklisting
<1> QED BY <1>1, <1>2 DEF BlacklistKept, Undisturbed

-----------------------------------------------------------------------------
(* The end of a transaction                                                *)

(* What a commit makes of the row of a zone                                *)
LEMMA CommittedZone ==
    ASSUME Base, NamesKept, NEW p \in Process, Commit(p), NEW i \in Ids
    PROVE  \/ db'["zone"][i] = db["zone"][i]
           \/ \E c \in draft[p] :
                 /\ c.table = "zone" /\ c.id = i /\ db'["zone"][i] = c.row /\ c.row # None
                 /\ IF db["zone"][i] # None THEN SameZone(c.row, db["zone"][i])
                    ELSE Unique(p, "zone", 0, "fqdn", c.row.fqdn)
<1>1. "zone" \in Tables /\ ZonesKept(p)
  BY StartIsStored DEF NamesKept, NamesOf
<1> QED BY <1>1, CommittedRows DEF ZonesKept

LEMMA CommitGrows ==
    ASSUME Base, NamesKept, NEW p \in Process, Commit(p)
    PROVE  Grows
<1>1. ASSUME NEW i \in Ids, db["zone"][i] # None
      PROVE  db'["zone"][i] # None /\ SameZone(db'["zone"][i], db["zone"][i])
  BY <1>1, CommittedZone DEF SameZone
<1>2. ASSUME NEW table \in {"domain", "domain_blacklist"}, NEW i \in Ids, db[table][i] # None
      PROVE  db'[table][i] = db[table][i]
  <2>1. table \in Tables /\ RowsAdded(p)
    BY StartIsStored DEF NamesKept, NamesOf
  <2> QED BY <1>2, <2>1, CommittedRows DEF RowsAdded
<1> QED BY <1>1, <1>2 DEF Grows

LEMMA EndGrows ==
    ASSUME Base, NamesKept, NEW p \in Process, Commit(p) \/ Rollback(p)
    PROVE  Grows
<1>1. CASE Commit(p)
  BY <1>1, CommitGrows
<1>2. CASE Rollback(p)
  BY <1>2 DEF Rollback, Grows, SameZone
<1> QED BY <1>1, <1>2

(* Rows that nobody but q has written or locked                            *)
LEMMA EndKeeps ==
    ASSUME Base, NEW p \in Process, Commit(p) \/ Rollback(p), NEW q \in Process \ {p},
           NEW table \in RowwiseTables, NEW id \in Ids, Unwritten(q, table, id)
    PROVE  db'[table][id] = db[table][id]
<1>1. \A c \in draft[p] : ~(c.table = table /\ c.id = id)
  BY DEF Unwritten
<1>2. table \in Tables
  BY StartIsStored DEF RowwiseTables, CheckTables, RowTables
<1> QED BY <1>1, <1>2, CommittedRows DEF Rollback

LEMMA EndZonesApart ==
    ASSUME Base, NamesKept, NEW p \in Process, Commit(p)
    PROVE  ZonesApart'
<1> SUFFICES ASSUME NEW i \in Ids, NEW j \in Ids, i # j, db'["zone"][i] # None, db'["zone"][j] # None
             PROVE  db'["zone"][i].fqdn # db'["zone"][j].fqdn
  BY DEF ZonesApart, RowsOf
<1> DEFINE New(k) == \E c \in draft[p] :
                        /\ c.table = "zone" /\ c.id = k /\ db'["zone"][k] = c.row
                        /\ Unique(p, "zone", 0, "fqdn", c.row.fqdn)
           Old(k) == db["zone"][k] # None /\ db'["zone"][k].fqdn = db["zone"][k].fqdn
<1>1. ASSUME NEW k \in Ids, db'["zone"][k] # None PROVE New(k) \/ Old(k)
  BY <1>1, CommittedZone DEF SameZone
<1>2. CASE Old(i) /\ Old(j)
  BY <1>2 DEF NamesKept, ZonesApart, RowsOf
<1>3. ASSUME NEW k \in Ids, NEW l \in Ids, New(k), Old(l)
      PROVE  db'["zone"][k].fqdn # db'["zone"][l].fqdn
  <2>1. Unique(p, "zone", 0, "fqdn", db'["zone"][k].fqdn)
    BY <1>3
  <2>2. l \in RowsOf("zone") \ {0}
    BY <1>3 DEF RowsOf, Ids
  <2> QED BY <1>3, <2>1, <2>2 DEF Unique
<1>4. ~(New(i) /\ New(j))
  BY DEF NamesKept, NamesOf, ZonesKept
<1> QED BY <1>1, <1>2, <1>3, <1>4

(* What q has written is as it was, when p ends.                           *)
LEMMA EndZonesKept ==
    ASSUME Base, RowsKept, NamesKept, NEW p \in Process, Commit(p) \/ Rollback(p), OnlyOf(p), draft'[p] = {},
           NEW q \in Process \ {p}
    PROVE  ZonesKept(q)'
<1>1. draft'[q] = draft[q] /\ ZonesKept(q) /\ RowsWritten(q)
  BY DEF OnlyOf, NamesKept, NamesOf, RowsKept
<1> SUFFICES ASSUME NEW c \in draft[q], c.table = "zone"
             PROVE  IF db'["zone"][c.id] # None THEN SameZone(c.row, db'["zone"][c.id])
                    ELSE Unique(q, "zone", 0, "fqdn", c.row.fqdn)'
  BY <1>1 DEF ZonesKept
<1>2. /\ c.id \in Ids /\ c.row # None
      /\ IF db["zone"][c.id] # None THEN SameZone(c.row, db["zone"][c.id])
         ELSE Unique(q, "zone", 0, "fqdn", c.row.fqdn)
  BY <1>1 DEF ZonesKept
<1>3. db'["zone"][c.id] = db["zone"][c.id]
  <2>1. "zone" \in RowwiseTables /\ Unwritten(q, "zone", c.id)
    BY <1>1 DEF RowsWritten, RowwiseTables, CheckTables, RowTables
  <2> QED BY <1>2, <2>1, EndKeeps
<1>4. ASSUME Unique(q, "zone", 0, "fqdn", c.row.fqdn)
      PROVE  Unique(q, "zone", 0, "fqdn", c.row.fqdn)'
  <2>1. ASSUME NEW i \in Ids, db'["zone"][i] # None PROVE db'["zone"][i].fqdn # c.row.fqdn
    <3>1. i # 0
      BY DEF Ids
    <3>2. CASE db["zone"][i] # None
      <4>1. db'["zone"][i].fqdn = db["zone"][i].fqdn
        BY <3>2, EndGrows DEF Grows, SameZone
      <4> QED BY <1>4, <3>1, <3>2, <4>1 DEF Unique, RowsOf
    <3>3. CASE db["zone"][i] = None
      <4>1. Commit(p)
        BY <2>1, <3>3 DEF Rollback
      <4>2. PICK d \in draft[p] : d.table = "zone" /\ db'["zone"][i] = d.row /\ d.row # None
        BY <2>1, <3>3, <4>1, CommittedZone
      <4> QED BY <1>4, <4>2 DEF Unique
    <3> QED BY <3>2, <3>3
  <2>2. \A r \in Process \ {q} : \A d \in draft'[r] :
           d.table = "zone" /\ d.row # None => d.row.fqdn # c.row.fqdn
    BY <1>4 DEF Unique, OnlyOf
  <2> QED BY <1>1, <2>1, <2>2 DEF Unique, RowsOf
<1> QED BY <1>2, <1>3, <1>4

LEMMA EndRowsAdded ==
    ASSUME Base, RowsKept, NamesKept, NEW p \in Process, Commit(p) \/ Rollback(p), OnlyOf(p),
           NEW q \in Process \ {p}
    PROVE  RowsAdded(q)'
<1>1. draft'[q] = draft[q] /\ RowsAdded(q) /\ RowsWritten(q)
  BY DEF OnlyOf, NamesKept, NamesOf, RowsKept
<1> SUFFICES ASSUME NEW c \in draft[q], c.table \in {"domain", "domain_blacklist"}
             PROVE  db'[c.table][c.id] = db[c.table][c.id]
  BY <1>1 DEF RowsAdded
<1>2. c.table \in RowwiseTables /\ c.id \in Ids /\ Unwritten(q, c.table, c.id)
  BY <1>1 DEF RowsWritten, RowwiseTables, CheckTables
<1> QED BY <1>2, EndKeeps

LEMMA EndCheckers ==
    ASSUME Base, RowsKept, NamesKept, NEW p \in Process, Commit(p) \/ Rollback(p), OnlyOf(p), seen'[p] = None,
           NEW q \in Process \ {p}
    PROVE  CheckersNew(q)' /\ ConfigKept(q)'
<1>1. /\ draft'[q] = draft[q] /\ seen'[q] = seen[q] /\ call'[q] = call[q] /\ stage'[q] = stage[q]
      /\ CheckersNew(q) /\ ConfigKept(q) /\ RowsWritten(q)
  BY DEF OnlyOf, NamesKept, NamesOf, RowsKept
<1>2. \A r \in Process : Remembers(r)' => Remembers(r) /\ seen'[r] = seen[r]
  BY DEF Remembers, OnlyOf
<1>3. ASSUME NEW c \in draft[q], c.table = "checker_map"
      PROVE  c.id \in Ids /\ db'["checker_map"][c.id] = db["checker_map"][c.id]
  <2>1. "checker_map" \in RowwiseTables /\ c.id \in Ids /\ Unwritten(q, "checker_map", c.id)
    BY <1>1, <1>3 DEF RowsWritten, RowwiseTables, CheckTables
  <2> QED BY <2>1, EndKeeps
<1>4. CheckersNew(q)'
  BY <1>1, <1>2, <1>3 DEF CheckersNew
<1>5. ASSUME NEW i \in seen[q].rows, i \in Ids, Remembers(q), db'["checker_map"][i] # None
      PROVE  db["checker_map"][i] # None
  <2>1. "checker_map" \in Tables /\ CheckersNew(p)
    BY StartIsStored DEF NamesKept, NamesOf
  <2>2. CASE Commit(p)
    BY <1>5, <2>1, <2>2, CommittedRows DEF CheckersNew
  <2> QED BY <1>5, <2>2 DEF Rollback
<1>6. ConfigKept(q)'
  BY <1>1, <1>5, NoneIsNoRow DEF ConfigKept, Remembers, SeenConfig
<1> QED BY <1>4, <1>6

LEMMA EndNames ==
    ASSUME Base, RowsKept, NamesKept, NEW p \in Process, Commit(p) \/ Rollback(p)
    PROVE  NamesKept'
<1>1. End(p) /\ DOMAIN db' = Tables /\ \A t \in Tables : DOMAIN db'[t] = Ids
  BY CommitFacts DEF Rollback, Base, Shaped
<1>2. /\ OnlyOf(p) /\ draft'[p] = {} /\ stage'[p] = "idle" /\ seen'[p] = None
  BY <1>1, EndFacts DEF Base, End, Shaped
<1>3. NamesOf(p)'
  BY <1>2 DEF NamesOf, ZonesKept, RowsAdded, CheckersNew, RegistrationKept, BlacklistKept, ConfigKept
<1>4. ASSUME NEW q \in Process \ {p} PROVE NamesOf(q)'
  <2>1. Grows /\ NamesOf(q) /\ Undisturbed(q)
    BY <1>2, EndGrows DEF NamesKept, OnlyOf, Undisturbed
  <2>2. RegistrarsStay(q)
    <3> SUFFICES ASSUME NEW r \in Ids, RowLock("registrar", r) \in locks[q]
                 PROVE  db'["registrar"][r] = db["registrar"][r]
      BY DEF RegistrarsStay
    <3>1. RowLock("registrar", r).table = "registrar" /\ RowLock("registrar", r).row = r /\ r # None
      BY IdsAreNumbers DEF RowLock
    <3>2. Unwritten(q, "registrar", r)
      BY <3>1 DEF RowsKept, RowsLocked
    <3>3. "registrar" \in RowwiseTables
      BY DEF RowwiseTables, CheckTables, RowTables
    <3> QED BY <3>2, <3>3, EndKeeps
  <2>3. stage[q] # "idle" /\ call[q].kind = "blacklist" => call[q].id \in Ids
    BY CalledId
  <2>4. RegistrationKept(q)' /\ BlacklistKept(q)'
    BY <2>1, <2>2, <2>3, RegistrationStays, BlacklistStays DEF NamesOf
  <2>5. ZonesKept(q)' /\ RowsAdded(q)' /\ CheckersNew(q)' /\ ConfigKept(q)'
    BY <1>2, EndZonesKept, EndRowsAdded, EndCheckers
  <2> QED BY <2>1, <2>4, <2>5 DEF NamesOf, Undisturbed
<1>5. ZonesApart'
  BY EndZonesApart DEF Rollback, NamesKept, ZonesApart, RowsOf
<1>6. ASSUME NEW table \in Tables, NEW S, RowsTyped(table, S) PROVE RowsTyped(table, S)'
  <2>1. CASE Rollback(p)
    BY <1>2, <1>6, <2>1 DEF Rollback, RowsTyped, OnlyOf
  <2> QED BY <1>6, <2>1, CommittedTyped
<1>7. /\ RowsTyped("zone", ZoneRow)' /\ RowsTyped("checker_map", CheckerRow)'
      /\ RowsTyped("domain", DomainRow)' /\ RowsTyped("domain_blacklist", BlacklistRow)'
  BY <1>6, StartIsStored DEF NamesKept
<1> QED BY <1>3, <1>4, <1>5, <1>7 DEF NamesKept

LEMMA BeginNames ==
    ASSUME Base, NamesKept, NEW p \in Process, Begin(p)
    PROVE  NamesKept'
<1>1. /\ OnlyOf(p) /\ db' = db /\ stage[p] = "idle" /\ stage'[p] = "begun"
      /\ draft' = draft /\ locks' = locks /\ seen' = seen
  BY BeginFacts DEF Base, Begin
<1>2. draft[p] = {} /\ seen[p] = None
  BY <1>1 DEF Base, Engaged, NamesKept, NamesOf
<1>3. \A q \in Process : Remembers(q)' => Remembers(q)
  BY <1>1, <1>2 DEF Remembers, OnlyOf
<1>4. NamesOf(p)'
  BY <1>1, <1>2 DEF NamesOf, ZonesKept, RowsAdded, CheckersNew, RegistrationKept, BlacklistKept, ConfigKept
<1>5. ASSUME NEW q \in Process \ {p} PROVE NamesOf(q)'
  <2>1. Grows /\ RegistrarsStay(q) /\ NamesOf(q) /\ Undisturbed(q)
    BY <1>1 DEF Grows, SameZone, RegistrarsStay, NamesKept, OnlyOf, Undisturbed
  <2>2. stage[q] # "idle" /\ call[q].kind = "blacklist" => call[q].id \in Ids
    BY CalledId
  <2>3. RegistrationKept(q)' /\ BlacklistKept(q)'
    BY <2>1, <2>2, RegistrationStays, BlacklistStays DEF NamesOf
  <2>4. ZonesKept(q)' /\ RowsAdded(q)'
    BY <1>1, <2>1 DEF NamesOf, ZonesKept, RowsAdded, Unique, RowsOf
  <2>5. CheckersNew(q)' /\ ConfigKept(q)'
    BY <1>1, <1>3, <2>1 DEF NamesOf, CheckersNew, ConfigKept, Undisturbed
  <2> QED BY <2>1, <2>3, <2>4, <2>5 DEF NamesOf, Undisturbed
<1>6. ZonesApart'
  BY <1>1 DEF NamesKept, ZonesApart, RowsOf
<1>7. ASSUME NEW table, NEW S, RowsTyped(table, S) PROVE RowsTyped(table, S)'
  BY <1>1, <1>7 DEF RowsTyped
<1>8. /\ RowsTyped("zone", ZoneRow)' /\ RowsTyped("checker_map", CheckerRow)'
      /\ RowsTyped("domain", DomainRow)' /\ RowsTyped("domain_blacklist", BlacklistRow)'
  BY <1>7 DEF NamesKept
<1> QED BY <1>4, <1>5, <1>6, <1>8 DEF NamesKept

LEMMA IdleNames ==
    ASSUME NamesKept, UNCHANGED <<db, call, stage, day, draft, seen, locks>>
    PROVE  NamesKept'
<1>1. ASSUME NEW p \in Process PROVE NamesOf(p)'
  <2>1. NamesOf(p)
    BY DEF NamesKept
  <2>2. ZonesKept(p)' /\ RowsAdded(p)' /\ CheckersNew(p)' /\ ConfigKept(p)'
    BY <2>1 DEF NamesOf, ZonesKept, RowsAdded, CheckersNew, ConfigKept, Remembers, Unique, RowsOf
  <2>3. RegistrationKept(p)'
    BY <2>1 DEF NamesOf, RegistrationKept, ZoneFound, Checked, Suits, SystemLocked, RowsOf
  <2>4. BlacklistKept(p)'
    BY <2>1 DEF NamesOf, BlacklistKept, NewBlacklisting, RowsOf
  <2> QED BY <2>1, <2>2, <2>3, <2>4 DEF NamesOf
<1>2. ZonesApart'
  BY DEF NamesKept, ZonesApart, RowsOf
<1>3. /\ RowsTyped("zone", ZoneRow)' /\ RowsTyped("checker_map", CheckerRow)'
      /\ RowsTyped("domain", DomainRow)' /\ RowsTyped("domain_blacklist", BlacklistRow)'
  BY DEF NamesKept, RowsTyped
<1> QED BY <1>1, <1>2, <1>3 DEF NamesKept

LEMMA InitNames == Init => NamesKept
<1> SUFFICES ASSUME Init PROVE NamesKept
  OBVIOUS
<1>1. ASSUME NEW p \in Process PROVE NamesOf(p)
  BY DEF Init, NamesOf, ZonesKept, RowsAdded, CheckersNew, RegistrationKept, BlacklistKept, ConfigKept
<1>2. ZonesApart
  BY StartIsStored DEF Init, ZonesApart, RowsOf
<1>3. /\ RowsTyped("zone", ZoneRow) /\ RowsTyped("checker_map", CheckerRow)
      /\ RowsTyped("domain", DomainRow) /\ RowsTyped("domain_blacklist", BlacklistRow)
  BY StartIsStored DEF Init, RowsTyped
<1> QED BY <1>1, <1>2, <1>3 DEF NamesKept

-----------------------------------------------------------------------------
(* A statement                                                             *)

(* What a statement of p has to see to                                     *)
Orderly(p) ==
    /\ NamesOf(p)'
    /\ \A c \in draft'[p] \ draft[p] :
          /\ c.table = "zone" => c.row \in ZoneRow
          /\ c.table = "checker_map" => c.row \in CheckerRow \cup {None}
          /\ c.table = "domain" => c.row \in DomainRow
          /\ c.table = "domain_blacklist" => c.row \in BlacklistRow
    /\ Remembers(p)' =>
          \A i \in seen'[p].rows : (Remembers(p) /\ i \in seen[p].rows) \/ db["checker_map"][i] # None

LEMMA OwnZonesKept ==
    ASSUME NamesKept, NEW p \in Process, Own(p), ZonesKept(p)', NEW q \in Process \ {p}
    PROVE  ZonesKept(q)'
<1>1. draft'[q] = draft[q] /\ db' = db /\ ZonesKept(q)
  BY DEF Own, NamesKept, NamesOf
<1> SUFFICES ASSUME NEW c \in draft[q], c.table = "zone", Unique(q, "zone", 0, "fqdn", c.row.fqdn),
                    db["zone"][c.id] = None
             PROVE  Unique(q, "zone", 0, "fqdn", c.row.fqdn)'
  BY <1>1 DEF ZonesKept
<1>2. c.row # None
  BY <1>1 DEF ZonesKept
<1>3. ASSUME NEW d \in draft'[p], d.table = "zone", d.row # None PROVE d.row.fqdn # c.row.fqdn
  <2>1. /\ d.id \in Ids
        /\ IF db["zone"][d.id] # None THEN SameZone(d.row, db["zone"][d.id])
           ELSE Unique(p, "zone", 0, "fqdn", d.row.fqdn)'
    BY <1>1, <1>3 DEF ZonesKept
  <2>2. CASE db["zone"][d.id] # None
    <3>1. d.id \in RowsOf("zone") \ {0}
      BY <2>1, <2>2 DEF RowsOf, Ids
    <3> QED BY <2>1, <2>2, <3>1 DEF Unique, SameZone
  <2>3. CASE db["zone"][d.id] = None
    BY <1>1, <1>2, <2>1, <2>3 DEF Unique
  <2> QED BY <2>2, <2>3
<1>4. \A r \in Process \ {q} : \A d \in draft'[r] :
         d.table = "zone" /\ d.row # None => d.row.fqdn # c.row.fqdn
  BY <1>3 DEF Unique, Own
<1> QED BY <1>1, <1>4 DEF Unique, RowsOf

LEMMA OwnNames ==
    ASSUME Base, NamesKept, NEW p \in Process, Own(p), Orderly(p)
    PROVE  NamesKept'
<1>1. db' = db /\ call' = call /\ NamesOf(p)'
  BY DEF Own, Orderly
<1>2. ASSUME NEW q \in Process \ {p} PROVE NamesOf(q)'
  <2>1. Grows /\ RegistrarsStay(q) /\ NamesOf(q) /\ Undisturbed(q)
    <3>1. Grows /\ RegistrarsStay(q)
      BY <1>1 DEF Grows, SameZone, RegistrarsStay
    <3> QED BY <3>1 DEF NamesKept, NamesOf, Own, Undisturbed
  <2>2. stage[q] # "idle" /\ call[q].kind = "blacklist" => call[q].id \in Ids
    BY CalledId
  <2>4. ZonesKept(q)' /\ RowsAdded(q)'
    BY <1>1, <2>1, OwnZonesKept DEF NamesOf, RowsAdded, Own
  <2>5. CheckersNew(q)'
    <3> SUFFICES ASSUME NEW c \in draft[q], c.table = "checker_map", c.row # None,
                        NEW r \in Process, Remembers(r)'
                 PROVE  c.id \notin seen'[r].rows
      BY <1>1, <2>1 DEF NamesOf, CheckersNew, Undisturbed
    <3>1. db["checker_map"][c.id] = None /\ (Remembers(r) => c.id \notin seen[r].rows)
      BY <2>1 DEF NamesOf, CheckersNew
    <3>2. CASE r = p
      BY <3>1, <3>2 DEF Orderly
    <3>3. CASE r # p
      BY <1>1, <3>1, <3>3 DEF Remembers, Own
    <3> QED BY <3>2, <3>3
  <2>6. ConfigKept(q)'
    BY <1>1, <2>1 DEF NamesOf, ConfigKept, Undisturbed
  <2>7. RegistrationKept(q)' /\ BlacklistKept(q)'
    BY <2>1, <2>2, RegistrationStays, BlacklistStays DEF NamesOf
  <2> QED BY <2>1, <2>4, <2>5, <2>6, <2>7 DEF NamesOf, Undisturbed
<1>3. ZonesApart'
  BY <1>1 DEF NamesKept, ZonesApart, RowsOf
<1>4. /\ RowsTyped("zone", ZoneRow)' /\ RowsTyped("checker_map", CheckerRow)'
      /\ RowsTyped("domain", DomainRow)' /\ RowsTyped("domain_blacklist", BlacklistRow)'
  BY OwnTyped DEF NamesKept, Orderly
<1> QED BY <1>1, <1>2, <1>3, <1>4 DEF NamesKept

NameKinds == {"createZone", "updateZone", "setConfig", "register", "blacklist"}

NameTables == {"zone", "checker_map", "domain", "domain_blacklist"}

LEMMA OtherKinds ==
    ASSUME NEW p \in Process,
           ZoneAccess(p) \/ Certification(p) \/ Group(p) \/ Credit(p) \/ Accounts(p) \/ Verify(p)
    PROVE  call[p].kind \notin NameKinds
<1> USE DEF NameKinds, At
<1>1. CASE ZoneAccess(p)
  BY <1>1 DEF ZoneAccess, LockRegistrarinvoice, AddRegistrarZoneAccess, UpdateRegistrarZoneAccess,
     DeleteRegistrarZoneAccess
<1>2. CASE Certification(p)
  BY <1>2 DEF Certification, LockRegistrarCertification, CreateRegistrarCertification,
     UpdateRegistrarCertification, DeleteRegistrarCertification
<1>3. CASE Group(p)
  BY <1>3 DEF Group, LockRegistrarGroup, CreateRegistrarGroup, UpdateRegistrarGroup, CheckNotCancelled,
     LockMembers, CancelRegistrarGroup, LockRegistrarGroupMap, CreateRegistrarGroupMembership,
     FindMembership, EndRegistrarGroupMembership
<1>4. CASE Credit(p)
  BY <1>4 DEF Credit, FindCredit, LockCredit, InsertCredit, CreateRegistrarCreditTransaction
<1>5. CASE Accounts(p)
  BY <1>5 DEF Accounts, CreateRegistrar, UpdateRegistrar, InfoRegistrar, InfoRegistrarLocking,
     AddRegistrarEppAuth, CloneRegistrarEppAuth, UpdateRegistrarEppAuth, DeleteRegistrarEppAuth
<1>6. CASE Verify(p)
  BY <1>6 DEF Verify, CreateContactCheck, CreateContactTest, UpdateContactCheck, UpdateContactTest,
     ReadCheck, ReadTests, ReadPastOfCheck, ReadPastOfTests, ListContactChecks, FindFinishTimes
<1> QED BY <1>1, <1>2, <1>3, <1>4, <1>5, <1>6

(* Statements of operations that have nothing to do with names             *)
LEMMA OrderlyElsewhere ==
    ASSUME NEW p \in Process, Own(p), RowsWritten(p)', call[p].kind \notin NameKinds
    PROVE  Orderly(p)
<1>1. call'[p] = call[p] /\ stage'[p] # "idle"
  BY DEF Own
<1>2. \A c \in draft'[p] : c.table \notin NameTables
  BY <1>1 DEF RowsWritten, NameKinds, NameTables, OwnedTables, CheckTables, OwnersOf
<1>3. NamesOf(p)'
  BY <1>1, <1>2 DEF NamesOf, ZonesKept, RowsAdded, CheckersNew, RegistrationKept, BlacklistKept, ConfigKept,
     NameKinds, NameTables
<1> QED BY <1>1, <1>2, <1>3 DEF Orderly, Remembers, NameKinds, NameTables

(* Statements that write no names                                          *)
LEMMA OrderlyReading ==
    ASSUME NEW p \in Process, Own(p), draft'[p] = {}, call[p].kind # "setConfig",
           RegistrationKept(p)', BlacklistKept(p)'
    PROVE  Orderly(p)
  BY DEF Orderly, Own, NamesOf, ZonesKept, RowsAdded, CheckersNew, ConfigKept, Remembers

(* A row whose column UPDATE leaves alone                                  *)
LEMMA WithKeeps ==
    ASSUME NEW row \in ZoneRow, NEW set, DOMAIN set \subseteq {"expiry", "validity"},
           \A d \in DOMAIN set : set[d] \in Nat
    PROVE  With(row, set) \in ZoneRow /\ SameZone(With(row, set), row)
<1>1. DOMAIN row = {"fqdn", "enum", "dots", "expiry", "validity"}
  BY DEF ZoneRow
<1>2. /\ With(row, set).fqdn = row.fqdn /\ With(row, set).enum = row.enum /\ With(row, set).dots = row.dots
      /\ With(row, set).expiry \in Nat /\ With(row, set).validity \in Nat
  BY <1>1 DEF With, ZoneRow
<1>3. With(row, set) = [fqdn |-> row.fqdn, enum |-> row.enum, dots |-> row.dots,
                        expiry |-> With(row, set).expiry, validity |-> With(row, set).validity]
  BY <1>1, <1>2 DEF With
<1> QED BY <1>2, <1>3 DEF ZoneRow, SameZone

LEMMA CalledNames ==
    ASSUME Base, NEW p \in Process, stage[p] # "idle"
    PROVE  /\ call[p].kind = "createZone" =>
                 call[p].fqdn \in DomainName /\ call[p].expiry \in Nat /\ call[p].validity \in Until
           /\ call[p].kind = "updateZone" =>
                 /\ DOMAIN call[p].set \subseteq {"expiry", "validity"}
                 /\ \A d \in DOMAIN call[p].set : call[p].set[d] \in Nat
           /\ call[p].kind = "register" => call[p].name \in DomainName
           /\ call[p].kind = "blacklist" =>
                 call[p].from \in Until /\ call[p].to \in Until /\ call[p].id \in Ids
<1>1. call[p] \in Workloads[workload] /\ workload \in DOMAIN Workloads
  BY DEF Base, Engaged, Shaped
<1>2. call[p].kind = "blacklist" => call[p].id \in Ids
  BY CalledId
<1> QED BY <1>1, <1>2, CallsGiveNames

LEMMA OrderlyZone ==
    ASSUME Base, NamesKept, NEW p \in Process, Own(p), call[p].kind \in {"createZone", "updateZone"},
           NEW id \in Ids, NEW row \in ZoneRow, draft'[p] = {Row("zone", id, row)},
           IF db["zone"][id] # None THEN SameZone(row, db["zone"][id])
           ELSE Unique(p, "zone", 0, "fqdn", row.fqdn)
    PROVE  Orderly(p)
<1>1. \A c \in draft'[p] : c.table = "zone" /\ c.id = id /\ c.row = row
  BY DEF Row
<1>2. \A c, d \in draft'[p] : c = d
  OBVIOUS
<1>3. row # None
  BY NoneIsNoRow
<1>4. call'[p] = call[p] /\ db' = db /\ stage'[p] # "idle"
      /\ (Unique(p, "zone", 0, "fqdn", row.fqdn) => Unique(p, "zone", 0, "fqdn", row.fqdn)')
  BY DEF Own, Unique, RowsOf
<1>5. ZonesKept(p)'
  BY <1>1, <1>2, <1>3, <1>4 DEF ZonesKept
<1>6. NamesOf(p)' /\ ~Remembers(p)'
  BY <1>1, <1>4, <1>5 DEF NamesOf, RowsAdded, CheckersNew, RegistrationKept, BlacklistKept, ConfigKept, Remembers
<1> QED BY <1>1, <1>6 DEF Orderly

LEMMA CreateZoneOrderly ==
    ASSUME Base, NamesKept, NEW p \in Process, Own(p), CreateZone(p)
    PROVE  Orderly(p)
<1>1. PICK row, i :
         /\ i \in NewIds("zone") /\ Written(p, {Row("zone", i, row)})
         /\ row = [fqdn |-> call[p].fqdn, enum |-> IsEnum(call[p].fqdn),
                   dots |-> IF IsEnum(call[p].fqdn) THEN 9 ELSE 1, expiry |-> call[p].expiry,
                   validity |-> IF call[p].validity # None THEN call[p].validity
                                ELSE IF IsEnum(call[p].fqdn) THEN 6 ELSE 0]
  BY DEF CreateZone
<1>2. /\ call[p].kind = "createZone" /\ Unique(p, "zone", 0, "fqdn", call[p].fqdn)
      /\ call[p].fqdn \in DomainName /\ call[p].expiry \in Nat /\ call[p].validity \in Until
  BY CalledNames DEF CreateZone, At
<1>3. IsEnum(call[p].fqdn) \in BOOLEAN
  BY DEF IsEnum, IsSuffix, IsPrefix
<1>4. row \in ZoneRow /\ row.fqdn = call[p].fqdn
  BY <1>1, <1>2, <1>3 DEF ZoneRow, Until
<1>5. i \in Ids /\ db["zone"][i] = None
  BY <1>1 DEF NewIds
<1>6. draft'[p] = {Row("zone", i, row)}
  BY <1>1, Writing DEF Base
<1> QED BY <1>2, <1>4, <1>5, <1>6, OrderlyZone

LEMMA UpdateZoneOrderly ==
    ASSUME Base, NamesKept, NEW p \in Process, Own(p), UpdateZone(p)
    PROVE  Orderly(p)
<1>1. PICK i \in ZonesNamed(call[p].fqdn) : UpdateColumns(p, "zone", i, call[p].set)
  BY DEF UpdateZone
<1>2. /\ call[p].kind = "updateZone" /\ DOMAIN call[p].set \subseteq {"expiry", "validity"}
      /\ \A d \in DOMAIN call[p].set : call[p].set[d] \in Nat
  BY CalledNames DEF UpdateZone, At
<1>3. i \in Ids /\ db["zone"][i] # None /\ db["zone"][i] \in ZoneRow
  BY <1>1 DEF ZonesNamed, RowsOf, NamesKept, RowsTyped
<1>4. PICK row : row = With(db["zone"][i], call[p].set)
  OBVIOUS
<1>5. row \in ZoneRow /\ SameZone(row, db["zone"][i])
  BY <1>2, <1>3, <1>4, WithKeeps
<1>6. draft'[p] = {Row("zone", i, row)}
  BY <1>1, <1>4, Writing DEF UpdateColumns, Base
<1> QED BY <1>2, <1>3, <1>5, <1>6, OrderlyZone

(* A new blacklisting does not overlap those that were not found to        *)
(* overlap it.                                                             *)
LEMMA NotFoundApart ==
    ASSUME NEW new \in BlacklistRow, NEW row \in BlacklistRow, row.regexp = new.regexp,
           ~((row.to # None => new.from < row.to) /\ NotAfter(row.from, new.to))
    PROVE  Apart(new, row)
  BY NoneIsNoRow DEF BlacklistRow, Until, NotAfter, Apart

LEMMA NewBlacklistingTyped ==
    ASSUME Base, NamesKept, NEW p \in Process, stage[p] # "idle", call[p].kind = "blacklist",
           db["domain"][call[p].id] # None
    PROVE  NewBlacklisting(p) \in BlacklistRow
<1>1. call[p].from \in Until /\ call[p].to \in Until /\ call[p].id \in Ids /\ day[p] \in Nat
  BY CalledNames DEF Base, Engaged
<1>2. db["domain"][call[p].id].name \in DomainName
  BY <1>1 DEF NamesKept, RowsTyped, DomainRow
<1> QED BY <1>1, <1>2 DEF NewBlacklisting, BlacklistRow, Until

LEMMA CheckNotBlacklistedOrderly ==
    ASSUME Base, NamesKept, NEW p \in Process, Own(p), CheckNotBlacklisted(p)
    PROVE  Orderly(p)
<1>1. /\ call[p].kind = "blacklist" /\ stage[p] = "begun" /\ db["domain"][call[p].id] # None
      /\ AlreadyBlacklisted(NewBlacklisting(p)) = {}
      /\ seen'[p] = RowsOf("domain_blacklist") /\ stage'[p] = "checked"
      /\ draft'[p] = {} /\ db' = db /\ call' = call /\ day' = day
  BY NothingYet DEF CheckNotBlacklisted, At, Read, Base, Shaped
<1>2. NewBlacklisting(p) \in BlacklistRow
  BY <1>1, NewBlacklistingTyped
<1>3. ASSUME NEW i \in RowsOf("domain_blacklist"),
             db["domain_blacklist"][i].regexp = NewBlacklisting(p).regexp
      PROVE  Apart(NewBlacklisting(p), db["domain_blacklist"][i])
  <2>1. db["domain_blacklist"][i] \in BlacklistRow
    BY DEF RowsOf, NamesKept, RowsTyped
  <2>2. i \notin AlreadyBlacklisted(NewBlacklisting(p))
    BY <1>1
  <2> QED BY <1>2, <1>3, <2>1, <2>2, NotFoundApart DEF AlreadyBlacklisted
<1>4. BlacklistKept(p)'
  BY <1>1, <1>3 DEF BlacklistKept, RowsOf, NewBlacklisting
<1>5. RegistrationKept(p)'
  BY <1>1 DEF RegistrationKept
<1> QED BY <1>1, <1>4, <1>5, OrderlyReading

LEMMA BlacklistOrderly ==
    ASSUME Base, NamesKept, NEW p \in Process, Own(p), CreateDomainNameBlacklistId(p)
    PROVE  Orderly(p)
<1>1. PICK row, i :
         /\ i \in NewIds("domain_blacklist") /\ Written(p, {Row("domain_blacklist", i, row)})
         /\ row = NewBlacklisting(p)
  BY DEF CreateDomainNameBlacklistId
<1>2. /\ call[p].kind = "blacklist" /\ stage[p] = "checked" /\ seen' = seen
      /\ db' = db /\ call' = call /\ day' = day
      /\ stage'[p] = "written"
  BY <1>1, Writing DEF CreateDomainNameBlacklistId, At, Own, Base
<1>3. BlacklistKept(p)
  BY DEF NamesKept, NamesOf
<1>4. row \in BlacklistRow /\ row # None
  BY <1>1, <1>2, <1>3, NewBlacklistingTyped, NoneIsNoRow DEF BlacklistKept
<1>5. i \in Ids /\ db["domain_blacklist"][i] = None
  BY <1>1 DEF NewIds
<1>6. \A c \in draft'[p] : c.table = "domain_blacklist" /\ c.id = i /\ c.row = row
  BY <1>1, WritingRow DEF Base
<1>7. NewBlacklisting(p)' = NewBlacklisting(p)
  BY <1>2 DEF NewBlacklisting
<1>8. BlacklistKept(p)'
  BY <1>1, <1>2, <1>3, <1>6, <1>7 DEF BlacklistKept, RowsOf
<1>9. NamesOf(p)'
  BY <1>2, <1>4, <1>5, <1>6, <1>8
     DEF NamesOf, ZonesKept, RowsAdded, CheckersNew, RegistrationKept, ConfigKept
<1> QED BY <1>2, <1>4, <1>6, <1>9 DEF Orderly, Remembers

-----------------------------------------------------------------------------
(* The checkers of a zone                                                  *)

LEMMA FindConfigOrderly ==
    ASSUME Base, NamesKept, NEW p \in Process, Own(p), FindConfig(p)
    PROVE  Orderly(p)
<1>1. PICK z \in ZonesNamed(call[p].fqdn) : Read(p, [zone |-> z, rows |-> ConfigRows(z)], "found")
  BY DEF FindConfig
<1>2. /\ call[p].kind = "setConfig" /\ stage[p] = "begun" /\ stage'[p] = "found"
      /\ seen'[p] = [zone |-> z, rows |-> ConfigRows(z)]
      /\ draft'[p] = {} /\ db' = db /\ call' = call
  BY <1>1, NothingYet DEF FindConfig, At, Read, Base, Shaped
<1>3. seen'[p] \in SeenConfig /\ \A i \in seen'[p].rows : db["checker_map"][i] # None
  BY <1>1, <1>2 DEF ConfigRows, RowsOf, ZonesNamed, SeenConfig
<1>4. NamesOf(p)'
  BY <1>2, <1>3 DEF NamesOf, ZonesKept, RowsAdded, CheckersNew, RegistrationKept, BlacklistKept, ConfigKept
<1> QED BY <1>2, <1>3, <1>4 DEF Orderly

LEMMA SetConfigOrderly ==
    ASSUME Base, NamesKept, NEW p \in Process, Own(p), SetConfig(p)
    PROVE  Orderly(p)
<1>1. PICK ids \in SUBSET FreshIds :
         /\ Cardinality(ids) = Cardinality(call[p].checkers \cap DOMAIN Rejects)
         /\ Written(p, OldCheckers(p) \cup NewCheckers(p, ids))
  BY ConfigIsWritten
<1> DEFINE checkers == call[p].checkers \cap DOMAIN Rejects
           number(i) == Numbering(ids, checkers)[i]
<1>2. /\ call[p].kind = "setConfig" /\ stage[p] = "found" /\ seen' = seen /\ db' = db /\ call' = call
      /\ stage'[p] = "written" /\ draft'[p] = OldCheckers(p) \cup NewCheckers(p, ids)
  BY <1>1, Writing DEF SetConfig, At, Own, Base
<1>3. seen[p] \in SeenConfig /\ Remembers(p)
  BY <1>2, NoneIsNoRow DEF NamesKept, NamesOf, ConfigKept, Remembers
<1>4. \A i \in ids : /\ i \in Ids /\ db["checker_map"][i] = None
                     /\ \A q \in Process : Remembers(q) => i \notin seen[q].rows
  BY <1>1 DEF FreshIds, NewIds, Remembers
<1>5. /\ \A i \in ids : number(i) \in checkers
      /\ \A x \in checkers : \E i \in ids : number(i) = x
  <2>1. ids \in SUBSET Ids /\ checkers \in SUBSET DOMAIN Rejects /\ Cardinality(ids) = Cardinality(checkers)
    BY <1>1, <1>4
  <2> HIDE DEF checkers
  <2> QED BY <2>1, NumberingIs
<1>6. \A c \in OldCheckers(p) : /\ c.table = "checker_map" /\ c.row = None
                                /\ c.id \in seen[p].rows /\ c.id \in Ids
  BY DEF OldCheckers, Row, RowsOf
<1> HIDE DEF checkers, number
<1>7. NewCheckers(p, ids) = {Row("checker_map", i, [zone |-> seen[p].zone, checker |-> number(i)]) : i \in ids}
  BY DEF NewCheckers, number, checkers
<1>8. ASSUME NEW c \in NewCheckers(p, ids)
      PROVE  /\ c.table = "checker_map" /\ c.id \in ids /\ c.row.zone = seen[p].zone
             /\ c.row.checker = number(c.id) /\ c.row \in CheckerRow /\ c.row # None
             /\ \A d \in NewCheckers(p, ids) : d.id = c.id => d = c
  <2>1. PICK i \in ids : c = Row("checker_map", i, [zone |-> seen[p].zone, checker |-> number(i)])
    BY <1>7
  <2>2. c.table = "checker_map" /\ c.id = i /\ c.row = [zone |-> seen[p].zone, checker |-> number(i)]
    BY <2>1 DEF Row
  <2>3. number(i) \in DOMAIN Rejects /\ seen[p].zone \in Ids
    BY <1>3, <1>5 DEF checkers, SeenConfig
  <2>4. c.row \in CheckerRow
    BY <2>2, <2>3 DEF CheckerRow
  <2>5. ASSUME NEW d \in NewCheckers(p, ids), d.id = i PROVE d = c
    <3>1. PICK j \in ids : d = Row("checker_map", j, [zone |-> seen[p].zone, checker |-> number(j)])
      BY <1>7
    <3>2. j = i
      BY <2>5, <3>1 DEF Row
    <3> QED BY <2>1, <3>1, <3>2
  <2> QED BY <2>2, <2>4, <2>5, NoneIsNoRow
<1>9. ASSUME NEW x \in checkers PROVE \E c \in draft'[p] : c.row # None /\ c.row.checker = x
  <2>1. PICK i \in ids : number(i) = x
    BY <1>5
  <2>2. PICK c \in NewCheckers(p, ids) : c = Row("checker_map", i, [zone |-> seen[p].zone, checker |-> number(i)])
    BY <1>7
  <2>3. c.id = i
    BY <2>2 DEF Row
  <2> QED BY <1>2, <1>8, <2>1, <2>2, <2>3
<1>10. ASSUME NEW i \in seen[p].rows, db["checker_map"][i] # None PROVE \E c \in draft'[p] : c.id = i
  <2>1. i \in seen[p].rows \cap RowsOf("checker_map")
    BY <1>3, <1>10 DEF RowsOf, SeenConfig
  <2>2. PICK c \in OldCheckers(p) : c = Row("checker_map", i, None)
    BY <2>1 DEF OldCheckers
  <2> QED BY <1>2, <2>2 DEF Row
<1>11. ASSUME NEW c \in draft'[p], c.row # None
       PROVE  /\ c.row.zone = seen[p].zone /\ c.row.checker \in checkers
              /\ \A d \in draft'[p] : d.id = c.id => d = c
  <2>1. c \in NewCheckers(p, ids) /\ c.id \in ids /\ c.id \notin seen[p].rows
    BY <1>2, <1>3, <1>4, <1>6, <1>8, <1>11
  <2> QED BY <1>2, <1>5, <1>6, <1>8, <2>1
<1>12. \A c \in draft'[p] : c.table = "checker_map"
  BY <1>2, <1>6, <1>8
<1>13. ConfigKept(p)'
  <2>1. call'[p].checkers \cap DOMAIN Rejects = checkers
    BY <1>2 DEF checkers
  <2> QED BY <1>2, <1>3, <1>9, <1>10, <1>11, <1>12, <2>1 DEF ConfigKept
<1>14. CheckersNew(p)'
  <2>1. \A q \in Process : Remembers(q)' => Remembers(q)
    BY <1>2 DEF Remembers
  <2>2. \A c \in draft'[p] : c.id \in Ids /\ (c.row # None => c.id \in ids)
    BY <1>2, <1>4, <1>6, <1>8
  <2> QED BY <1>2, <1>4, <2>1, <2>2 DEF CheckersNew
<1>15. NamesOf(p)'
  BY <1>2, <1>12, <1>13, <1>14 DEF NamesOf, ZonesKept, RowsAdded, RegistrationKept, BlacklistKept
<1>16. \A c \in draft'[p] : c.row \in CheckerRow \cup {None}
  BY <1>2, <1>6, <1>8
<1> QED BY <1>2, <1>3, <1>12, <1>15, <1>16 DEF Orderly

-----------------------------------------------------------------------------
(* Registration                                                            *)

SeenFields == {"step", "zone", "zones", "domains", "passed", "system"}

(* What p has read of its name is as the invariant has it.                 *)
LEMMA OnCourseOfChecks ==
    ASSUME Base, NamesKept, NEW p \in Process, Registering(p)
    PROVE  /\ call[p].kind = "register" /\ stage[p] = "checking" /\ call[p].name \in DomainName
           /\ DOMAIN seen[p] = SeenFields /\ seen[p].step \in 1..8 /\ draft[p] = {}
           /\ seen[p].zones \subseteq RowsOf("zone") /\ seen[p].domains \subseteq RowsOf("domain")
           /\ ZoneFound(p) /\ Checked(p) /\ SystemLocked(p)
<1>1. call[p].kind = "register" /\ stage[p] = "checking"
  BY DEF Registering, At
<1>2. RegistrationKept(p)
  BY DEF NamesKept, NamesOf
<1> QED BY <1>1, <1>2, CalledNames, NothingYet DEF RegistrationKept, SeenFields

LEMMA LongestIs ==
    ASSUME NEW name, NEW z \in LongestZone(name)
    PROVE  z \in RowsOf("zone") /\ Longest(db["zone"], name, z)
  BY DEF LongestZone, ZonesOf, Longest, RowsOf

(* The zone that was found before is the only one of the first zones that  *)
(* can be the longest still.                                               *)
LEMMA FoundAgain ==
    ASSUME NamesKept, NEW p \in Process, ZoneFound(p), seen[p].zone # None, call[p].name \in DomainName,
           NEW z \in seen[p].zones, seen[p].zones \subseteq RowsOf("zone"),
           Longest(db["zone"], call[p].name, z)
    PROVE  z = seen[p].zone
<1> DEFINE f == db["zone"][seen[p].zone].fqdn
           g == db["zone"][z].fqdn
           name == call[p].name
<1>1. /\ seen[p].zone \in RowsOf("zone") /\ EndsWith(name, f) /\ EndsWith(name, g)
      /\ Len(g) <= Len(f) /\ Len(f) <= Len(g) /\ z \in RowsOf("zone")
  BY DEF ZoneFound, Longest, RowsOf
<1>2. f \in Seq(STRING) /\ g \in Seq(STRING) /\ name \in Seq(STRING)
  BY <1>1 DEF NamesKept, RowsTyped, ZoneRow, RowsOf, DomainName
<1> HIDE DEF f, g, name
<1>3. IsSuffix(f, name) /\ IsSuffix(g, name) /\ Len(f) = Len(g)
  BY <1>1, <1>2 DEF EndsWith
<1>4. f = g
  BY <1>2, <1>3, SuffixesNest
<1> QED BY <1>1, <1>4 DEF NamesKept, ZonesApart, f, g

LEMMA BeginChecksOrderly ==
    ASSUME Base, NamesKept, NEW p \in Process, Own(p), BeginChecks(p)
    PROVE  Orderly(p)
<1>1. /\ call[p].kind = "register" /\ stage[p] = "begun" /\ stage'[p] = "checking"
      /\ seen'[p] = [step |-> 1, zone |-> None, zones |-> RowsOf("zone"), domains |-> {},
                     passed |-> None, system |-> call[p].system]
      /\ draft'[p] = {} /\ db' = db /\ call' = call
  BY NothingYet DEF BeginChecks, At, Read, Base, Shaped
<1>2. /\ seen'[p].step = 1 /\ seen'[p].zone = None /\ seen'[p].zones = RowsOf("zone") /\ seen'[p].domains = {}
      /\ DOMAIN seen'[p] = SeenFields
  BY <1>1 DEF SeenFields
<1>3. ZoneFound(p)' /\ SystemLocked(p)'
  BY <1>2 DEF ZoneFound, SystemLocked
<1>4. Checked(p)'
  BY <1>2 DEF Checked, Suits
<1>5. RegistrationKept(p)'
  BY <1>1, <1>2, <1>3, <1>4 DEF RegistrationKept, RowsOf, SeenFields
<1>6. BlacklistKept(p)'
  BY <1>1 DEF BlacklistKept
<1> QED BY <1>1, <1>5, <1>6, OrderlyReading

LEMMA FindZoneOrderly ==
    ASSUME Base, NamesKept, NEW p \in Process, Own(p), FindZone(p)
    PROVE  Orderly(p)
<1>1. PICK z \in LongestZone(call[p].name) : Read(p, [seen[p] EXCEPT !.zone = z], "checking")
  BY DEF FindZone
<1>2. /\ call[p].kind = "register" /\ stage[p] = "checking" /\ call[p].name \in DomainName
      /\ DOMAIN seen[p] = SeenFields /\ seen[p].step \in 1..8 /\ draft[p] = {}
      /\ seen[p].zones \subseteq RowsOf("zone") /\ seen[p].domains \subseteq RowsOf("domain")
      /\ ZoneFound(p) /\ Checked(p) /\ SystemLocked(p) /\ seen[p].zone = None
  BY OnCourseOfChecks DEF FindZone
<1>3. /\ db' = db /\ call' = call /\ draft'[p] = {} /\ stage'[p] = "checking"
      /\ seen'[p] = [seen[p] EXCEPT !.zone = z]
  BY <1>1, <1>2 DEF Read, Base, Shaped
<1>4. /\ DOMAIN seen'[p] = SeenFields /\ seen'[p].zone = z
      /\ seen'[p].step = seen[p].step /\ seen'[p].zones = seen[p].zones /\ seen'[p].domains = seen[p].domains
      /\ seen'[p].passed = seen[p].passed /\ seen'[p].system = seen[p].system
  BY <1>2, <1>3 DEF SeenFields
<1>5. z \in RowsOf("zone") /\ Longest(db["zone"], call[p].name, z)
  BY <1>1, LongestIs
<1>6. ZoneFound(p)'
  BY <1>2, <1>3, <1>4, <1>5 DEF ZoneFound, Longest, RowsOf
<1>7. ASSUME NEW x \in seen[p].zones, Longest(db["zone"], call[p].name, x) \/ x = z
      PROVE  Suits(p, x)'
  <2>1. Suits(p, x)
    BY <1>2, <1>5, <1>7 DEF Checked
  <2> QED BY <1>3, <1>4, <2>1 DEF Suits
<1>8. Checked(p)'
  BY <1>3, <1>4, <1>7 DEF Checked
<1>9. SystemLocked(p)'
  BY <1>2, <1>3, <1>4 DEF SystemLocked, RowsOf, Own
<1>10. RegistrationKept(p)'
  BY <1>2, <1>3, <1>4, <1>6, <1>8, <1>9 DEF RegistrationKept, RowsOf, SeenFields
<1>11. BlacklistKept(p)'
  BY <1>2, <1>3 DEF BlacklistKept
<1> QED BY <1>2, <1>3, <1>10, <1>11, OrderlyReading

LEMMA CheckRegistrarOrderly ==
    ASSUME Base, NamesKept, NEW p \in Process, Own(p), CheckRegistrar(p)
    PROVE  Orderly(p)
<1>1. PICK r \in RowsOf("registrar") :
         /\ db["registrar"][r].handle = call[p].handle
         /\ locks' = [locks EXCEPT ![p] = @ \cup {RowLock("registrar", r)}]
         /\ Read(p, [seen[p] EXCEPT !.step = @ + 1, !.system = db["registrar"][r].system], "checking")
  BY DEF CheckRegistrar
<1>2. /\ call[p].kind = "register" /\ stage[p] = "checking"
      /\ DOMAIN seen[p] = SeenFields /\ seen[p].step \in 1..8 /\ draft[p] = {}
      /\ seen[p].zones \subseteq RowsOf("zone") /\ seen[p].domains \subseteq RowsOf("domain")
      /\ ZoneFound(p) /\ Checked(p) /\ Step(p) = "registrar"
  BY OnCourseOfChecks DEF CheckRegistrar
<1>3. /\ db' = db /\ call' = call /\ draft'[p] = {} /\ stage'[p] = "checking"
      /\ seen'[p] = [seen[p] EXCEPT !.step = @ + 1, !.system = db["registrar"][r].system]
      /\ RowLock("registrar", r) \in locks'[p]
  BY <1>1, <1>2 DEF Read, Base, Shaped
<1>4. seen[p].step = 5
  BY <1>2 DEF Step, Steps
<1>5. /\ DOMAIN seen'[p] = SeenFields /\ seen'[p].zone = seen[p].zone /\ seen'[p].step = 6
      /\ seen'[p].zones = seen[p].zones /\ seen'[p].domains = seen[p].domains
      /\ seen'[p].passed = seen[p].passed /\ seen'[p].system = db["registrar"][r].system
  BY <1>2, <1>3, <1>4 DEF SeenFields
<1>6. ZoneFound(p)'
  BY <1>2, <1>3, <1>5 DEF ZoneFound, RowsOf
<1>7. ASSUME NEW x \in seen[p].zones, Suits(p, x) PROVE Suits(p, x)'
  BY <1>3, <1>4, <1>5, <1>7 DEF Suits
<1>8. Checked(p)'
  BY <1>2, <1>3, <1>5, <1>7 DEF Checked
<1>9. SystemLocked(p)'
  BY <1>1, <1>3, <1>5 DEF SystemLocked, RowsOf
<1>10. RegistrationKept(p)'
  BY <1>2, <1>3, <1>5, <1>6, <1>8, <1>9 DEF RegistrationKept, RowsOf, SeenFields
<1>11. BlacklistKept(p)'
  BY <1>2, <1>3 DEF BlacklistKept
<1> QED BY <1>2, <1>3, <1>10, <1>11, OrderlyReading

LEMMA CheckOrderly ==
    ASSUME Base, NamesKept, NEW p \in Process, Own(p), Check(p)
    PROVE  Orderly(p)
<1> DEFINE domains == IF Step(p) = "registered" THEN RowsOf("domain") ELSE seen[p].domains
           passed == IF Step(p) = "syntax"
                     THEN [zone |-> seen[p].zone, config |-> Config(seen[p].zone)] ELSE seen[p].passed
<1>1. /\ call[p].kind = "register" /\ stage[p] = "checking" /\ call[p].name \in DomainName
      /\ DOMAIN seen[p] = SeenFields /\ seen[p].step \in 1..8 /\ draft[p] = {}
      /\ seen[p].zones \subseteq RowsOf("zone") /\ seen[p].domains \subseteq RowsOf("domain")
      /\ ZoneFound(p) /\ Checked(p) /\ SystemLocked(p)
      /\ Step(p) \notin {"registrar", "insert"} /\ (Step(p) \in NeedsZone => seen[p].zone # None)
      /\ Holds(p, Step(p))
  BY OnCourseOfChecks DEF Check
<1>2. /\ db' = db /\ call' = call /\ draft'[p] = {} /\ stage'[p] = "checking" /\ locks' = locks
      /\ seen'[p] = [seen[p] EXCEPT !.step = @ + 1, !.zone = None, !.domains = domains, !.passed = passed]
  BY <1>1 DEF Check, Read, Base, Shaped
<1> HIDE DEF domains, passed
<1>3. /\ DOMAIN seen'[p] = SeenFields /\ seen'[p].zone = None /\ seen'[p].step = seen[p].step + 1
      /\ seen'[p].zones = seen[p].zones /\ seen'[p].domains = domains
      /\ seen'[p].passed = passed /\ seen'[p].system = seen[p].system
  BY <1>1, <1>2 DEF SeenFields
<1>4. /\ seen[p].step \in {1, 2, 3, 4, 6, 7}
      /\ seen[p].step = 2 => Step(p) = "length"
      /\ seen[p].step = 3 <=> Step(p) = "registered"
      /\ seen[p].step = 7 => Step(p) = "syntax"
  BY <1>1 DEF Step, Steps
<1>5. domains \subseteq RowsOf("domain")
  BY <1>1 DEF domains
<1>6. ASSUME NEW x \in seen[p].zones, Longest(db["zone"], call[p].name, x) PROVE Suits(p, x)'
  <2>1. Suits(p, x)
    BY <1>1, <1>6 DEF Checked
  <2>2. Step(p) \in NeedsZone => x = seen[p].zone
    BY <1>1, <1>6, FoundAgain
  <2>3. seen[p].step + 1 > 2 => Len(call[p].name) <= Len(db["zone"][x].fqdn) + db["zone"][x].dots
    <3>1. CASE seen[p].step = 2
      <4>1. Step(p) = "length" /\ x = seen[p].zone
        BY <1>4, <2>2, <3>1 DEF NeedsZone
      <4> QED BY <1>1, <4>1 DEF Holds
    <3> QED BY <1>4, <2>1, <3>1 DEF Suits
  <2>4. db["zone"][x].enum => \A i \in domains :
           db["domain"][i].zone = x => ~Nested(call[p].name, db["domain"][i].name)
    <3>1. CASE Step(p) = "registered"
      <4>1. x = seen[p].zone
        BY <2>2, <3>1 DEF NeedsZone
      <4> QED BY <1>1, <3>1, <4>1 DEF Holds, IsRegistered, domains
    <3> QED BY <2>1, <3>1 DEF Suits, domains
  <2>5. seen[p].step + 1 > 7 =>
           seen[p].system \/ LabelsPass(call[p].name, db["zone"][x].fqdn, passed.config)
    <3>1. CASE seen[p].step = 7
      <4>1. Step(p) = "syntax" /\ x = seen[p].zone
        BY <1>4, <2>2, <3>1 DEF NeedsZone
      <4>2. passed.config = Config(x)
        BY <4>1 DEF passed
      <4> QED BY <1>1, <4>1, <4>2 DEF Holds, Passes, LabelsPass
    <3> QED BY <1>4, <3>1
  <2> QED BY <1>2, <1>3, <2>3, <2>4, <2>5 DEF Suits
<1>7. ZoneFound(p)'
  BY <1>3 DEF ZoneFound
<1>8. Checked(p)'
  <2>1. None \notin seen[p].zones
    BY <1>1, IdsAreNumbers DEF RowsOf
  <2> QED BY <1>2, <1>3, <1>6, <2>1 DEF Checked
<1>9. SystemLocked(p)'
  <2>1. seen[p].step + 1 > 5 => seen[p].step > 5
    BY <1>4
  <2> QED BY <1>1, <1>2, <1>3, <2>1 DEF SystemLocked, RowsOf
<1>10. RegistrationKept(p)'
  BY <1>1, <1>2, <1>3, <1>4, <1>5, <1>7, <1>8, <1>9 DEF RegistrationKept, RowsOf, SeenFields
<1>11. BlacklistKept(p)'
  BY <1>1, <1>2 DEF BlacklistKept
<1> QED BY <1>1, <1>2, <1>10, <1>11, OrderlyReading

LEMMA CreateDomainOrderly ==
    ASSUME Base, NamesKept, NEW p \in Process, Own(p), CreateDomain(p)
    PROVE  Orderly(p)
<1>1. PICK row, i :
         /\ i \in NewIds("domain") /\ Written(p, {Row("domain", i, row)})
         /\ row = [name |-> call[p].name, zone |-> seen[p].zone]
  BY DEF CreateDomain
<1>2. /\ call[p].kind = "register" /\ stage[p] = "checking" /\ call[p].name \in DomainName
      /\ DOMAIN seen[p] = SeenFields /\ seen[p].step \in 1..8
      /\ seen[p].zones \subseteq RowsOf("zone") /\ seen[p].domains \subseteq RowsOf("domain")
      /\ ZoneFound(p) /\ Checked(p) /\ SystemLocked(p)
      /\ Step(p) = "insert" /\ seen[p].zone # None
  BY OnCourseOfChecks DEF CreateDomain
<1>3. seen' = seen /\ locks' = locks /\ db' = db /\ call' = call /\ stage'[p] = "written"
  BY <1>1, Writing DEF CreateDomain, Own, Base
<1>4. \A c \in draft'[p] : c.table = "domain" /\ c.id = i /\ c.row = row
  BY <1>1, WritingRow DEF Base
<1>5. seen[p].step = 8
  BY <1>2 DEF Step, Steps
<1>6. row \in DomainRow /\ row # None
  <2>1. seen[p].zone \in Ids
    BY <1>2 DEF ZoneFound, RowsOf
  <2> QED BY <1>1, <1>2, <2>1, NoneIsNoRow DEF DomainRow
<1>7. i \in Ids /\ db["domain"][i] = None
  BY <1>1 DEF NewIds
<1>8. ZoneFound(p)' /\ Checked(p)' /\ SystemLocked(p)'
  BY <1>2, <1>3 DEF ZoneFound, Checked, Suits, SystemLocked, RowsOf
<1>9. RegistrationKept(p)'
  BY <1>1, <1>2, <1>3, <1>4, <1>5, <1>8 DEF RegistrationKept, RowsOf, SeenFields
<1>10. NamesOf(p)'
  BY <1>2, <1>3, <1>4, <1>6, <1>7, <1>9
     DEF NamesOf, ZonesKept, RowsAdded, CheckersNew, BlacklistKept, ConfigKept
<1> QED BY <1>2, <1>3, <1>4, <1>6, <1>10 DEF Orderly, Remembers

-----------------------------------------------------------------------------
(* The invariant                                                           *)

(* Statements on zones that have nothing to do with their names            *)
LEMMA OtherZoneKinds ==
    ASSUME NEW p \in Process,
           CreateZoneSoa(p) \/ UpdateZoneSoa(p) \/ CreateZoneNs(p) \/ UpdateZoneNs(p)
    PROVE  call[p].kind \notin NameKinds
  BY DEF CreateZoneSoa, UpdateZoneSoa, CreateZoneNs, UpdateZoneNs, At, NameKinds

LEMMA OperationNames ==
    ASSUME Base, RowsKept', NamesKept, NEW p \in Process,
           \/ ZoneAccess(p) \/ Certification(p) \/ Group(p) \/ Credit(p)
           \/ Accounts(p) \/ Administer(p) \/ Register(p) \/ Verify(p)
    PROVE  NamesKept'
<1>1. Own(p) /\ RowsWritten(p)'
  BY ZoneAccessOwn, CertificationOwn, GroupOwn, CreditOwn, AccountsElsewhere, AdministerElsewhere,
     RegisterElsewhere, VerifyElsewhere DEF Base, Elsewhere, RowsKept
<1>2. CASE Administer(p)
  <2>1. CASE CreateZoneSoa(p) \/ UpdateZoneSoa(p) \/ CreateZoneNs(p) \/ UpdateZoneNs(p)
    BY <1>1, <2>1, OtherZoneKinds, OrderlyElsewhere, OwnNames
  <2>2. CASE ~(CreateZoneSoa(p) \/ UpdateZoneSoa(p) \/ CreateZoneNs(p) \/ UpdateZoneNs(p))
    <3>1. Orderly(p)
      BY <1>1, <1>2, <2>2, CreateZoneOrderly, UpdateZoneOrderly, FindConfigOrderly, SetConfigOrderly,
         CheckNotBlacklistedOrderly, BlacklistOrderly DEF Administer
    <3> QED BY <1>1, <3>1, OwnNames
  <2> QED BY <2>1, <2>2
<1>3. CASE Register(p)
  <2>1. Orderly(p)
    BY <1>1, <1>3, BeginChecksOrderly, FindZoneOrderly, CheckOrderly, CheckRegistrarOrderly,
       CreateDomainOrderly DEF Register
  <2> QED BY <1>1, <2>1, OwnNames
<1>4. CASE ~Administer(p) /\ ~Register(p)
  <2>1. Orderly(p)
    BY <1>1, <1>4, OtherKinds, OrderlyElsewhere
  <2> QED BY <1>1, <2>1, OwnNames
<1> QED BY <1>2, <1>3, <1>4

LEMMA NamesNext == IInv /\ RowsKept /\ RowsKept' /\ NamesKept /\ [Next]_vars => NamesKept'
<1> SUFFICES ASSUME Base, RowsKept, RowsKept', NamesKept, [Next]_vars PROVE NamesKept'
  BY DEF IInv
<1>1. CASE Tick \/ UNCHANGED vars
  <2>1. UNCHANGED <<db, call, stage, day, draft, seen, locks>>
    BY <1>1 DEF Tick, vars
  <2> QED BY <2>1, IdleNames
<1>2. CASE ~Tick /\ Next
  <2>1. PICK p \in Process :
           \/ Begin(p) \/ Commit(p) \/ Rollback(p)
           \/ ZoneAccess(p) \/ Certification(p) \/ Group(p) \/ Credit(p)
           \/ Accounts(p) \/ Administer(p) \/ Register(p) \/ Verify(p)
    BY <1>2 DEF Next
  <2> QED BY <2>1, OperationNames, EndNames, BeginNames
<1> QED BY <1>1, <1>2

LEMMA NamesInvariance == Spec => []NamesKept
  BY InitNames, NamesNext, Invariance, RowsInvariance, PTL DEF Spec

-----------------------------------------------------------------------------
(* The theorems                                                            *)

(* What a registration that commits knows of its zone                      *)
LEMMA RegisteredFacts ==
    ASSUME Base, NamesKept, NEW p \in Process, Commit(p), call[p].kind = "register"
    PROVE  /\ seen[p].zones \subseteq RowsOf("zone") /\ seen[p].domains \subseteq RowsOf("domain")
           /\ ZoneFound(p) /\ SystemLocked(p) /\ seen[p].zone # None /\ seen[p].step = 8
           /\ seen[p].zone \in seen[p].zones => Suits(p, seen[p].zone)
           /\ \A c \in draft[p] : c.row = [name |-> call[p].name, zone |-> seen[p].zone]
           /\ call[p].name \in Seq(STRING)
<1>1. stage[p] = "written" /\ RegistrationKept(p)
  BY DEF Commit, NamesKept, NamesOf
<1> QED BY <1>1, CalledNames DEF RegistrationKept, Checked, DomainName

(* CheckDomain and CreateDomain look for the zone of the name again and    *)
(* again while zones are created, and for its checkers while they are      *)
(* changed: a domain that is created is in the longest zone of those that  *)
(* were there when it began, is not longer than that zone allows, and      *)
(* passes its checkers, unless the zone or its checkers are newer than the *)
(* checks or its registrar is the system's own.                            *)
THEOREM DomainFits == Spec => DomainFitsItsZone
<1> DEFINE Fits ==
        \A p \in Process : Commit(p) /\ call[p].kind = "register" =>
          \A d \in {c.row : c \in draft[p]} :
              LET fqdn == db["zone"][d.zone].fqdn
                  own == SubSeq(d.name, 1, Len(d.name) - Len(fqdn))
              IN /\ d.name = own \o fqdn /\ own # <<>>
                 /\ d.zone \in seen[p].zones =>
                       /\ \A z \in seen[p].zones :
                             IsSuffix(db["zone"][z].fqdn, d.name) => IsSuffix(db["zone"][z].fqdn, fqdn)
                                                                     \/ db["zone"][z].fqdn = d.name
                       /\ Len(own) <= db["zone"][d.zone].dots
                 /\ \/ d.zone \notin seen[p].zones
                    \/ Config(d.zone) # seen[p].passed.config
                    \/ \E r \in RowsOf("registrar") :
                          db["registrar"][r].handle = call[p].handle /\ db["registrar"][r].system
                    \/ \A label \in ToSet(own) : \A c \in Config(d.zone) : label \notin Rejects[c]
<1>1. ASSUME Base, NamesKept PROVE Fits
  <2>0. SUFFICES ASSUME NEW p \in Process, Commit(p), call[p].kind = "register",
                      NEW d \in {c.row : c \in draft[p]},
                      NEW fqdn, fqdn = db["zone"][d.zone].fqdn,
                      NEW own, own = SubSeq(d.name, 1, Len(d.name) - Len(fqdn))
               PROVE  /\ d.name = own \o fqdn /\ own # <<>>
                      /\ d.zone \in seen[p].zones =>
                            /\ \A z \in seen[p].zones :
                                  IsSuffix(db["zone"][z].fqdn, d.name) =>
                                     IsSuffix(db["zone"][z].fqdn, fqdn) \/ db["zone"][z].fqdn = d.name
                            /\ Len(own) <= db["zone"][d.zone].dots
                      /\ \/ d.zone \notin seen[p].zones
                         \/ Config(d.zone) # seen[p].passed.config
                         \/ \E r \in RowsOf("registrar") :
                               db["registrar"][r].handle = call[p].handle /\ db["registrar"][r].system
                         \/ \A label \in ToSet(own) : \A c \in Config(d.zone) : label \notin Rejects[c]
    OBVIOUS
  <2>1. /\ seen[p].zones \subseteq RowsOf("zone")
        /\ ZoneFound(p) /\ SystemLocked(p) /\ seen[p].zone # None /\ seen[p].step = 8
        /\ seen[p].zone \in seen[p].zones => Suits(p, seen[p].zone)
        /\ d = [name |-> call[p].name, zone |-> seen[p].zone] /\ call[p].name \in Seq(STRING)
    BY <2>0, <1>1, RegisteredFacts
  <2>2. PICK name \in Seq(STRING) : d.name = name /\ call[p].name = name /\ d.zone = seen[p].zone
    BY <2>1
  <2>3. d.zone \in RowsOf("zone") /\ EndsWith(name, fqdn)
        /\ \A z \in seen[p].zones : EndsWith(name, db["zone"][z].fqdn) => Len(db["zone"][z].fqdn) <= Len(fqdn)
    BY <2>0, <2>1, <2>2 DEF ZoneFound
  <2>4. \A z \in RowsOf("zone") : db["zone"][z].fqdn \in Seq(STRING) /\ db["zone"][z].dots \in Nat
    BY <1>1 DEF NamesKept, RowsTyped, RowsOf, ZoneRow, DomainName
  <2>5. /\ name = own \o fqdn /\ own # <<>> /\ Len(own) = Len(name) - Len(fqdn)
        /\ \A k \in DOMAIN own : k \in 1..(Len(name) - Len(fqdn)) /\ own[k] = name[k]
    <3>1. /\ name \in Seq(STRING) /\ fqdn \in Seq(STRING) /\ EndsWith(name, fqdn)
          /\ own = SubSeq(name, 1, Len(name) - Len(fqdn))
      BY <2>0, <2>2, <2>3, <2>4
    <3>2. name = own \o fqdn /\ own # <<>> /\ Len(own) = Len(name) - Len(fqdn)
      BY <3>1, BeforeSuffix
    <3>3. PICK a \in Nat, b \in Nat : a = Len(name) /\ b = Len(fqdn) /\ a > b
      BY <2>2, <3>1 DEF EndsWith
    <3>4. \A k \in DOMAIN own : k \in 1..(a - b) /\ own[k] = name[k]
      BY <2>2, <3>1, <3>3
    <3> QED BY <3>2, <3>3, <3>4
  <2>6. ASSUME NEW z \in seen[p].zones, IsSuffix(db["zone"][z].fqdn, name)
        PROVE  IsSuffix(db["zone"][z].fqdn, fqdn) \/ db["zone"][z].fqdn = name
    <3>1. PICK other \in Seq(STRING) : other = db["zone"][z].fqdn
      BY <2>1, <2>4
    <3>2. fqdn \in Seq(STRING) /\ IsSuffix(fqdn, name) /\ Len(name) \in Nat /\ Len(other) \in Nat
      BY <2>0, <2>3, <2>4 DEF EndsWith
    <3>3. CASE EndsWith(name, other)
      BY <2>3, <2>6, <3>1, <3>2, <3>3, SuffixesNest
    <3>4. CASE ~EndsWith(name, other)
      <4>1. IsSuffix(other, name) /\ IsSuffix(name, name) /\ Len(other) = Len(name)
        BY <2>6, <3>1, <3>2, <3>4, SuffixIs DEF EndsWith
      <4> QED BY <3>1, <4>1, SuffixesNest
    <3> QED BY <3>3, <3>4
  <2>7. ASSUME d.zone \in seen[p].zones PROVE Len(own) <= db["zone"][d.zone].dots
    <3>1. Len(name) <= Len(fqdn) + db["zone"][d.zone].dots
      BY <2>0, <2>1, <2>2, <2>7 DEF Suits
    <3>2. PICK a \in Nat, b \in Nat, dots \in Nat :
             a = Len(name) /\ b = Len(fqdn) /\ dots = db["zone"][d.zone].dots
      BY <2>0, <2>3, <2>4
    <3>3. Len(own) = a - b /\ a <= b + dots
      BY <2>5, <3>1, <3>2
    <3>4. a - b <= dots
      BY <3>2, <3>3
    <3> QED BY <3>2, <3>3, <3>4
  <2>8. ASSUME d.zone \in seen[p].zones, Config(d.zone) = seen[p].passed.config, ~seen[p].system
        PROVE  \A label \in ToSet(own) : \A c \in Config(d.zone) : label \notin Rejects[c]
    <3>1. LabelsPass(name, fqdn, Config(d.zone))
      BY <2>0, <2>1, <2>2, <2>8 DEF Suits
    <3>2. ASSUME NEW label \in ToSet(own), NEW c \in Config(d.zone) PROVE label \notin Rejects[c]
      <4>1. PICK k \in DOMAIN own : own[k] = label
        BY <3>2 DEF ToSet
      <4> QED BY <2>5, <3>1, <3>2, <4>1 DEF LabelsPass
    <3> QED BY <3>2
  <2>9. ASSUME seen[p].system
        PROVE  \E r \in RowsOf("registrar") :
                  db["registrar"][r].handle = call[p].handle /\ db["registrar"][r].system
    BY <2>1, <2>9 DEF SystemLocked
  <2> QED BY <2>2, <2>5, <2>6, <2>7, <2>8, <2>9
<1>2. IInv /\ NamesKept => [Fits]_vars
  BY <1>1 DEF IInv
<1> QED BY <1>2, Invariance, NamesInvariance, PTL DEF DomainFitsItsZone

(* What is in the place of the checkers of a zone, if they are those that  *)
(* were to be deleted                                                      *)
LEMMA ConfigReplaced ==
    ASSUME Base, NamesKept, NEW p \in Process, Commit(p), call[p].kind = "setConfig",
           ConfigRows(seen[p].zone) = seen[p].rows
    PROVE  {db'["checker_map"][i].checker :
              i \in {j \in Ids : db'["checker_map"][j] # None
                                 /\ db'["checker_map"][j].zone = seen[p].zone}}
           = call[p].checkers \cap DOMAIN Rejects
<1> DEFINE z == seen[p].zone
           wanted == call[p].checkers \cap DOMAIN Rejects
<1>1. stage[p] = "written" /\ ConfigKept(p) /\ CheckersNew(p) /\ "checker_map" \in Tables
  BY StartIsStored DEF Commit, NamesKept, NamesOf
<1>2. /\ \A c \in draft[p] : c.table = "checker_map" /\ c.id \in Ids
      /\ \A c \in draft[p] : c.row # None =>
            /\ c.row.zone = z /\ c.row.checker \in wanted
            /\ \A d \in draft[p] : d.id = c.id => d = c
      /\ \A x \in wanted : \E c \in draft[p] : c.row # None /\ c.row.checker = x
      /\ \A i \in seen[p].rows : db["checker_map"][i] # None => \E c \in draft[p] : c.id = i
  BY <1>1 DEF ConfigKept, CheckersNew
<1>3. ASSUME NEW j \in Ids, db'["checker_map"][j] # None, db'["checker_map"][j].zone = z
      PROVE  db'["checker_map"][j].checker \in wanted
  <2>1. CASE \E c \in draft[p] : c.table = "checker_map" /\ c.id = j /\ db'["checker_map"][j] = c.row
    BY <1>2, <1>3, <2>1
  <2>2. CASE /\ db'["checker_map"][j] = db["checker_map"][j]
             /\ \A c \in draft[p] : ~(c.table = "checker_map" /\ c.id = j)
    <3>1. j \in seen[p].rows
      BY <1>3, <2>2 DEF ConfigRows, RowsOf
    <3> QED BY <1>2, <1>3, <2>2, <3>1
  <2> QED BY <1>1, <2>1, <2>2, CommittedRows
<1>4. ASSUME NEW x \in wanted
      PROVE  \E j \in Ids : /\ db'["checker_map"][j] # None /\ db'["checker_map"][j].zone = z
                            /\ db'["checker_map"][j].checker = x
  <2>1. PICK c \in draft[p] : c.row # None /\ c.row.checker = x
    BY <1>2
  <2>2. c.id \in Ids /\ db'["checker_map"][c.id] = c.row
    BY <1>1, <1>2, <2>1, CommittedRows
  <2> QED BY <1>2, <2>1, <2>2
<1> QED BY <1>3, <1>4

(* The checks that nothing protects, of CheckDomain, of the black list and *)
(* of the checkers of a zone, miss only what was committed after them:     *)
(* what they have read is kept as it was, so that a name nested in another *)
(* of its zone of ENUM, overlapping periods on the black list and checkers *)
(* that stay besides those asked for take another transaction in between.  *)
THEOREM ChecksRepeated == Spec => RepeatedWasConcurrent
<1> DEFINE Repeated ==
             \A p \in Process : Commit(p) =>
               LET new == {c.row : c \in {d \in draft[p] : d.row # None}}
                   overlap(a, b) == /\ b.to # None => a.from < b.to
                                    /\ a.to # None => b.from < a.to
                   checkers(rows, z) ==
                       {rows[i].checker : i \in {j \in Ids : rows[j] # None /\ rows[j].zone = z}}
               IN /\ call[p].kind = "register" =>
                        \A d \in new, i \in seen[p].domains :
                           d.zone \in seen[p].zones /\ db["zone"][d.zone].enum
                           /\ db["domain"][i].zone = d.zone => ~Nested(d.name, db["domain"][i].name)
                  /\ call[p].kind = "blacklist" =>
                        \A b \in new, i \in seen[p] :
                           LET row == db["domain_blacklist"][i] IN
                           row.regexp = b.regexp => ~(overlap(b, row) /\ overlap(row, b))
                  /\ call[p].kind = "setConfig" =>
                        \/ ConfigRows(seen[p].zone) # seen[p].rows
                        \/ checkers(db'["checker_map"], seen[p].zone) = call[p].checkers \cap DOMAIN Rejects
<1>1. ASSUME Base, NamesKept, NEW p \in Process, Commit(p), call[p].kind = "register",
             NEW c \in draft[p], NEW i \in seen[p].domains, c.row.zone \in seen[p].zones,
             db["zone"][c.row.zone].enum, db["domain"][i].zone = c.row.zone
      PROVE  ~Nested(c.row.name, db["domain"][i].name)
  <2>1. c.row.name = call[p].name /\ c.row.zone = seen[p].zone
    <3>1. \A b \in draft[p] : b.row = [name |-> call[p].name, zone |-> seen[p].zone]
      BY <1>1, RegisteredFacts
    <3>2. c.row = [name |-> call[p].name, zone |-> seen[p].zone]
      BY <3>1
    <3> QED BY <3>2
  <2>2. Suits(p, seen[p].zone)
    BY <1>1, <2>1, RegisteredFacts
  <2> QED BY <1>1, <2>1, <2>2 DEF Suits
<1>2. ASSUME Base, NamesKept, NEW p \in Process, Commit(p), call[p].kind = "blacklist",
             NEW c \in draft[p], NEW i \in seen[p], db["domain_blacklist"][i].regexp = c.row.regexp
      PROVE  Apart(c.row, db["domain_blacklist"][i])
  <2>1. stage[p] = "written" /\ BlacklistKept(p)
    BY <1>2 DEF Commit, NamesKept, NamesOf
  <2>2. c.row = NewBlacklisting(p)
    BY <1>2, <2>1 DEF BlacklistKept
  <2> QED BY <1>2, <2>1, <2>2 DEF BlacklistKept
<1>3. ASSUME Base, NamesKept PROVE Repeated
  <2> SUFFICES ASSUME NEW p \in Process, Commit(p)
               PROVE  /\ call[p].kind = "register" =>
                            \A c \in draft[p], i \in seen[p].domains :
                               c.row # None /\ c.row.zone \in seen[p].zones /\ db["zone"][c.row.zone].enum
                               /\ db["domain"][i].zone = c.row.zone => ~Nested(c.row.name, db["domain"][i].name)
                      /\ call[p].kind = "blacklist" =>
                            \A c \in draft[p], i \in seen[p] :
                               c.row # None /\ db["domain_blacklist"][i].regexp = c.row.regexp =>
                                  Apart(c.row, db["domain_blacklist"][i])
                      /\ call[p].kind = "setConfig" =>
                            \/ ConfigRows(seen[p].zone) # seen[p].rows
                            \/ {db'["checker_map"][i].checker :
                                  i \in {j \in Ids : db'["checker_map"][j] # None
                                                     /\ db'["checker_map"][j].zone = seen[p].zone}}
                               = call[p].checkers \cap DOMAIN Rejects
    BY DEF Apart
  <2>1. CASE call[p].kind = "register"
    BY <1>1, <1>3, <2>1
  <2>2. CASE call[p].kind = "blacklist"
    BY <1>2, <1>3, <2>2
  <2>3. CASE call[p].kind = "setConfig"
    BY <1>3, <2>3, ConfigReplaced
  <2> QED BY <2>1, <2>2, <2>3
<1>4. IInv /\ NamesKept => [Repeated]_vars
  BY <1>3 DEF IInv
<1> QED BY <1>4, Invariance, NamesInvariance, PTL DEF RepeatedWasConcurrent
=============================================================================
