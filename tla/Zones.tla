--------------------------------- MODULE Zones ---------------------------------
(***************************************************************************)
(* Zones with their SOA and NS records, the checkers of names configured   *)
(* for them, the black list, and the registration of a domain: the checks  *)
(* of CheckDomain followed by CreateDomain.                                *)
(*                                                                         *)
(* A name is the sequence of its labels and stands for all its spellings   *)
(* in capitals and small letters.  Zones are neither renamed nor deleted.  *)
(***************************************************************************)
EXTENDS RegistrarAccounts, SequencesExt

CONSTANTS Rejects      \* Rejects[checker]: the labels that the checker refuses

IsEnum(fqdn) == IsSuffix(<<"e164", "arpa">>, fqdn)

-----------------------------------------------------------------------------
(* Zones and their records                                                 *)

CreateZone(p) ==
    LET c == call[p] IN
    /\ At(p, "createZone", "begun")
    /\ c.validity # None => IsEnum(c.fqdn)
    /\ Unique(p, "zone", 0, "fqdn", c.fqdn)
    /\ \E i \in NewIds("zone") :
          Written(p, {Row("zone", i,
              [fqdn |-> c.fqdn, enum |-> IsEnum(c.fqdn), dots |-> IF IsEnum(c.fqdn) THEN 9 ELSE 1,
               expiry |-> c.expiry,
               validity |-> IF c.validity # None THEN c.validity ELSE IF IsEnum(c.fqdn) THEN 6 ELSE 0])})
    /\ UNCHANGED <<locks, seen>>

ZonesNamed(fqdn) == {i \in RowsOf("zone") : db["zone"][i].fqdn = fqdn}

UpdateZone(p) ==
    /\ At(p, "updateZone", "begun")
    /\ "validity" \in DOMAIN call[p].set => IsEnum(call[p].fqdn)
    /\ \E i \in ZonesNamed(call[p].fqdn) : UpdateColumns(p, "zone", i, call[p].set)
    /\ UNCHANGED seen

(* There is one SOA record for a zone, with the id of the zone.            *)
CreateZoneSoa(p) ==
    /\ At(p, "createSoa", "begun")
    /\ \E z \in ZonesNamed(call[p].fqdn) :
          /\ db["zone_soa"][z] = None /\ Unwritten(p, "zone_soa", z)
          /\ Written(p, {Row("zone_soa", z, With([ttl |-> "default", ns |-> "default"], call[p].set))})
    /\ UNCHANGED <<locks, seen>>

UpdateZoneSoa(p) ==
    /\ At(p, "updateSoa", "begun")
    /\ \E z \in ZonesNamed(call[p].fqdn) : UpdateColumns(p, "zone_soa", z, call[p].set)
    /\ UNCHANGED seen

CreateZoneNs(p) ==
    /\ At(p, "createNs", "begun")
    /\ \E z \in ZonesNamed(call[p].fqdn), i \in NewIds("zone_ns") :
          Written(p, {Row("zone_ns", i, [zone |-> z, host |-> call[p].host, addrs |-> call[p].addrs])})
    /\ UNCHANGED <<locks, seen>>

(* A record can be moved to another zone, which must exist.                *)
UpdateZoneNs(p) ==
    LET c == call[p] IN
    /\ At(p, "updateNs", "begun")
    /\ \/ c.fqdn = None /\ UpdateColumns(p, "zone_ns", c.id, c.set)
       \/ \E z \in ZonesNamed(c.fqdn) :
             UpdateColumns(p, "zone_ns", c.id,
                 [d \in DOMAIN c.set \cup {"zone"} |-> IF d = "zone" THEN z ELSE c.set[d]])
    /\ UNCHANGED seen

-----------------------------------------------------------------------------
(* The zone of a name: the longest that it ends with                       *)

EndsWith(name, fqdn) == Len(name) > Len(fqdn) /\ IsSuffix(fqdn, name)

ZonesOf(name) == {i \in RowsOf("zone") : EndsWith(name, db["zone"][i].fqdn)}

(* With a mistake: the shortest                                            *)
AnyZone(name) ==
    {i \in ZonesOf(name) : \A j \in ZonesOf(name) : Len(db["zone"][i].fqdn) <= Len(db["zone"][j].fqdn)}

LongestZone(name) ==
    {i \in ZonesOf(name) : \A j \in ZonesOf(name) : Len(db["zone"][j].fqdn) <= Len(db["zone"][i].fqdn)}

(* Its row is locked FOR SHARE.                                            *)
ShareZone(p, z) ==
    /\ Unwritten(p, "zone", z)
    /\ locks' = [locks EXCEPT ![p] = @ \cup {RowLock("zone", z)}]

-----------------------------------------------------------------------------
(* Configuration of the checkers of a zone                                 *)

ConfigRows(z) == {i \in RowsOf("checker_map") : db["checker_map"][i].zone = z}

Config(z) == {db["checker_map"][i].checker : i \in ConfigRows(z)}

(* The rows that DELETE finds are those committed when it starts.          *)
FindConfig(p) ==
    /\ At(p, "setConfig", "begun")
    /\ \E z \in ZonesNamed(call[p].fqdn) :
          ShareZone(p, z) /\ Read(p, [zone |-> z, rows |-> ConfigRows(z)], "found")

(* Ids that are not used again while somebody remembers them               *)
FreshIds ==
    {i \in NewIds("checker_map") :
        \A q \in Process : seen[q] # None /\ call[q].kind = "setConfig" => i \notin seen[q].rows}

(* A row for each checker                                                  *)
Numbering(ids, checkers) ==
    CHOOSE row \in [ids -> checkers] : \A c \in checkers : \E i \in ids : row[i] = c

(* It waits for others that delete them; a checker that is not known       *)
(* inserts no row.                                                         *)
SetConfig(p) ==
    LET z == seen[p].zone
        old == seen[p].rows \cap RowsOf("checker_map")
        checkers == call[p].checkers \cap DOMAIN Rejects
    IN /\ At(p, "setConfig", "found")
       /\ \A i \in seen[p].rows : RowFree(p, "checker_map", i)
       /\ \E ids \in {s \in SUBSET FreshIds : Cardinality(s) = Cardinality(checkers)} :
          Written(p, {Row("checker_map", i, None) : i \in old}
                     \cup {Row("checker_map", i, [zone |-> z, checker |-> Numbering(ids, checkers)[i]]) :
                             i \in ids})
       /\ UNCHANGED <<locks, seen>>

(* The labels of a name besides those of its zone; the system's own        *)
(* registrar need not pass the checkers.                                   *)
Passes(name, z, system) ==
    system \/ \A i \in 1..(Len(name) - Len(db["zone"][z].fqdn)), c \in Config(z) : name[i] \notin Rejects[c]

-----------------------------------------------------------------------------
(* The black list                                                          *)

(* A row refuses the names that its regular expression matches.            *)
Blacklisted(name, on) ==
    \E i \in RowsOf("domain_blacklist") :
        LET row == db["domain_blacklist"][i] IN
        name \in row.regexp /\ row.from <= on /\ (row.to # None => on < row.to)

(* The row that would be inserted; without a beginning it begins now.      *)
NewBlacklisting(p) ==
    LET c == call[p] IN
    [regexp |-> {db["domain"][c.id].name},
     from |-> IF c.from = None THEN day[p] ELSE c.from, to |-> c.to]

(* With a mistake: one that is to begin is not noticed.                    *)
BlacklistedNow(new) ==
    {i \in RowsOf("domain_blacklist") :
        LET row == db["domain_blacklist"][i] IN
        /\ row.regexp = new.regexp /\ row.from <= new.from
        /\ row.to # None => new.from < row.to}

AlreadyBlacklisted(new) ==
    {i \in RowsOf("domain_blacklist") :
        LET row == db["domain_blacklist"][i] IN
        /\ row.regexp = new.regexp
        /\ row.to # None => new.from < row.to
        /\ NotAfter(row.from, new.to)}

CheckNotBlacklisted(p) ==
    /\ At(p, "blacklist", "begun")
    /\ db["domain"][call[p].id] # None
    /\ NotAfter(NewBlacklisting(p).from, call[p].to)
    /\ AlreadyBlacklisted(NewBlacklisting(p)) = {}
    /\ Read(p, RowsOf("domain_blacklist"), "checked")
    /\ UNCHANGED locks

CreateDomainNameBlacklistId(p) ==
    /\ At(p, "blacklist", "checked")
    /\ \E i \in NewIds("domain_blacklist") :
          Written(p, {Row("domain_blacklist", i, NewBlacklisting(p))})
    /\ UNCHANGED <<locks, seen>>

-----------------------------------------------------------------------------
(* Registration.  The caller asks CheckDomain whether the name is          *)
(* available and creates the domain; each check looks for the zone again.  *)

Steps == <<"syntax", "length", "registered", "blacklist", "registrar", "zone", "syntax", "insert">>

NeedsZone == {"syntax", "length", "registered", "zone", "insert"}

Step(p) == Steps[seen[p].step]

Registering(p) == At(p, "register", "checking")

BeginChecks(p) ==
    /\ At(p, "register", "begun")
    /\ Read(p, [step |-> 1, zone |-> None, zones |-> RowsOf("zone"), domains |-> {},
                passed |-> None, system |-> call[p].system], "checking")
    /\ UNCHANGED locks

FindZone(p) ==
    /\ Registering(p) /\ Step(p) \in NeedsZone /\ seen[p].zone = None
    /\ \E z \in LongestZone(call[p].name) :
          ShareZone(p, z) /\ Read(p, [seen[p] EXCEPT !.zone = z], "checking")

Nested(a, b) == IsSuffix(a, b) \/ IsSuffix(b, a)

(* In a zone of ENUM a name is taken by those above and below it.          *)
IsRegistered(name, z) ==
    \E i \in RowsOf("domain") :
        LET d == db["domain"][i] IN
        IF db["zone"][z].enum THEN d.zone = z /\ Nested(name, d.name) ELSE d.name = name

Holds(p, step) ==
    LET name == call[p].name
        z == seen[p].zone
    IN CASE step = "syntax"     -> Passes(name, z, seen[p].system)
         [] step = "length"     -> Len(name) <= Len(db["zone"][z].fqdn) + db["zone"][z].dots
         [] step = "registered" -> ~IsRegistered(name, z)
         [] step = "blacklist"  -> ~Blacklisted(name, day[p])
         [] step = "zone"       -> TRUE

Check(p) ==
    /\ Registering(p) /\ Step(p) \notin {"registrar", "insert"}
    /\ Step(p) \in NeedsZone => seen[p].zone # None
    /\ Holds(p, Step(p))
    /\ Read(p, [seen[p] EXCEPT !.step = @ + 1, !.zone = None,
                   !.domains = IF Step(p) = "registered" THEN RowsOf("domain") ELSE @,
                   !.passed = IF Step(p) = "syntax"
                              THEN [zone |-> seen[p].zone, config |-> Config(seen[p].zone)] ELSE @],
            "checking")
    /\ UNCHANGED locks

(* Whether the registrar is the system's own is read under a lock.         *)
CheckRegistrar(p) ==
    /\ Registering(p) /\ Step(p) = "registrar"
    /\ \E r \in RowsOf("registrar") :
          /\ db["registrar"][r].handle = call[p].handle /\ Unwritten(p, "registrar", r)
          /\ locks' = [locks EXCEPT ![p] = @ \cup {RowLock("registrar", r)}]
          /\ Read(p, [seen[p] EXCEPT !.step = @ + 1, !.system = db["registrar"][r].system], "checking")

(* Parameters of ENUM domains are given for these only; the name of a      *)
(* registered object is unique.                                            *)
CreateDomain(p) ==
    LET z == seen[p].zone IN
    /\ Registering(p) /\ Step(p) = "insert" /\ z # None
    /\ db["zone"][z].enum = call[p].enum
    /\ Unique(p, "domain", 0, "name", call[p].name)
    /\ \E i \in NewIds("domain") :
          Written(p, {Row("domain", i, [name |-> call[p].name, zone |-> z])})
    /\ UNCHANGED <<locks, seen>>

Administer(p) ==
    \/ CreateZone(p) \/ UpdateZone(p) \/ CreateZoneSoa(p) \/ UpdateZoneSoa(p)
    \/ CreateZoneNs(p) \/ UpdateZoneNs(p)
    \/ FindConfig(p) \/ SetConfig(p)
    \/ CheckNotBlacklisted(p) \/ CreateDomainNameBlacklistId(p)

Register(p) ==
    BeginChecks(p) \/ FindZone(p) \/ Check(p) \/ CheckRegistrar(p) \/ CreateDomain(p)
=============================================================================
