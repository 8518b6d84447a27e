---------------------------- MODULE ObjectQueries ----------------------------
(***************************************************************************)
(* What can be asked of the tables of ObjectTables: the data of objects    *)
(* (Info...), of earlier versions of them (Info...History), their          *)
(* differences (diff_..._data), domains and nssets by what they refer to,  *)
(* and the histories of an object and of a name.                           *)
(*                                                                         *)
(* A query with joins has a set of results; it should have one.            *)
(***************************************************************************)
EXTENDS ObjectTables

Data(db, id)    == [t \in Tables |-> Rows(db, t, id)]
Version(db, h)  == [t \in Tables |-> {e.row : e \in {k \in db.kept[t] : k.h = h}}]
OwnersOf(db, h) == {e.row.id : e \in {k \in db.kept["object"] : k.h = h}}

(* Rows of the registry that a join finds; the query for the data of now   *)
(* leaves erased ones out, that for an earlier version does not.           *)
Joined(db, id, type, old) ==
    {i \in DOMAIN db.registry : /\ i = id /\ db.registry[i].type = type
                                /\ old \/ db.registry[i].erased = None}

(* LEFT JOIN: an object that is not found is NULL.                         *)
NameOrNull(db, id, type, old) ==
    IF Joined(db, id, type, old) = {} THEN None ELSE db.registry[id].name

ContactNames(db, rows, old) ==
    {db.registry[i].name : i \in UNION {Joined(db, r.contact, "contact", old) : r \in rows}}

(* The part of the data that all types have                                *)
Common(db, id, o) ==
    [id |-> id, handle |-> db.registry[id].name, crid |-> db.registry[id].crid,
     created |-> db.registry[id].created, clid |-> o.clid, upid |-> o.upid,
     update |-> o.update, trdate |-> o.trdate]

Contact(db, id, rows) ==
    {[common |-> Common(db, id, o), value |-> r.value, disclose |-> r.disclose,
      addresses |-> {[type |-> a.type, place |-> a.place, company |-> a.company] :
                     a \in rows["contact_address"]}] :
     o \in rows["object"], r \in rows["contact"]}

(* With a mistake: also an earlier version is without contacts that have   *)
(* been erased since.                                                      *)
NssetOfNow(db, id, rows, old) ==
    {[common |-> Common(db, id, o), level |-> r.level,
      hosts |-> [f \in {x.fqdn : x \in rows["host"]} |->
                    {m.ip : m \in {x \in rows["host_ipaddr_map"] : x.fqdn = f}}],
      contacts |-> ContactNames(db, rows["nsset_contact_map"], FALSE)] :
     o \in rows["object"], r \in rows["nsset"]}

Nsset(db, id, rows, old) ==
    {[common |-> Common(db, id, o), level |-> r.level,
      hosts |-> [f \in {x.fqdn : x \in rows["host"]} |->
                    {m.ip : m \in {x \in rows["host_ipaddr_map"] : x.fqdn = f}}],
      contacts |-> ContactNames(db, rows["nsset_contact_map"], old)] :
     o \in rows["object"], r \in rows["nsset"]}

Keyset(db, id, rows, old) ==
    {[common |-> Common(db, id, o), keys |-> {k.key : k \in rows["dnskey"]},
      contacts |-> ContactNames(db, rows["keyset_contact_map"], old)] :
     o \in rows["object"], r \in rows["keyset"]}

(* The registrant is joined whether erased or not.                         *)
Domain(db, id, rows, old) ==
    {[common |-> Common(db, id, o), registrant |-> db.registry[r.registrant].name,
      nsset |-> NameOrNull(db, r.nsset, "nsset", old),
      keyset |-> NameOrNull(db, r.keyset, "keyset", old),
      exdate |-> r.exdate, enum |-> {e.exdate : e \in rows["enumval"]},
      contacts |-> ContactNames(db, rows["domain_contact_map"], old)] :
     o \in rows["object"], r \in rows["domain"]}

-----------------------------------------------------------------------------
InfoContact(db, id) == Contact(db, id, Data(db, id))
InfoNsset(db, id)   == Nsset(db, id, Data(db, id), FALSE)
InfoKeyset(db, id)  == Keyset(db, id, Data(db, id), FALSE)
InfoDomain(db, id)  == Domain(db, id, Data(db, id), FALSE)

Info(db, id) ==
    LET type == db.registry[id].type IN
    CASE type = "contact" -> InfoContact(db, id) [] type = "nsset" -> InfoNsset(db, id)
      [] type = "keyset" -> InfoKeyset(db, id)   [] type = "domain" -> InfoDomain(db, id)

InfoContactHistory(db, id, h) == Contact(db, id, Version(db, h))
InfoNssetHistory(db, id, h)   == Nsset(db, id, Version(db, h), TRUE)
InfoKeysetHistory(db, id, h)  == Keyset(db, id, Version(db, h), TRUE)
InfoDomainHistory(db, id, h)  == Domain(db, id, Version(db, h), TRUE)

(* Info...ByHistoryid                                                      *)
InfoHistory(db, h) ==
    UNION {LET type == db.registry[id].type IN
           CASE type = "contact" -> InfoContactHistory(db, id, h)
             [] type = "nsset" -> InfoNssetHistory(db, id, h)
             [] type = "keyset" -> InfoKeysetHistory(db, id, h)
             [] type = "domain" -> InfoDomainHistory(db, id, h) : id \in OwnersOf(db, h)}

-----------------------------------------------------------------------------
(* Differences of two data of the same type: the fields that are set       *)

(* The fields of the differences: changed_fields and is_empty              *)
CommonFields  == {"id", "handle", "crid", "created", "clid", "upid", "update", "trdate"}
ContactFields == {"value", "disclose", "addresses"}
NssetFields   == {"level", "contacts"}
KeysetFields  == {"keys", "contacts"}
DomainFields  == {"registrant", "nsset", "keyset", "exdate", "enum", "contacts"}

Differ(a, b, fields) == {f \in fields : a[f] # b[f]}

CommonDiff(a, b) == Differ(a.common, b.common, CommonFields)

DiffContact(a, b) == CommonDiff(a, b) \cup Differ(a, b, ContactFields)

(* Hosts are compared by their names, not by their addresses.              *)
DiffNsset(a, b) ==
    CommonDiff(a, b) \cup Differ(a, b, NssetFields)
    \cup (IF DOMAIN a.hosts # DOMAIN b.hosts THEN {"hosts"} ELSE {})

DiffKeyset(a, b) == CommonDiff(a, b) \cup Differ(a, b, KeysetFields)
DiffDomain(a, b) == CommonDiff(a, b) \cup Differ(a, b, DomainFields)

Diff(type, a, b) ==
    CASE type = "contact" -> DiffContact(a, b) [] type = "nsset" -> DiffNsset(a, b)
      [] type = "keyset" -> DiffKeyset(a, b)   [] type = "domain" -> DiffDomain(a, b)

-----------------------------------------------------------------------------
(* Objects by what they refer to                                           *)

(* Contacts are looked up by a name that is registered now.                *)
DomainsOfRegistrant(db, name) ==
    {d.id : d \in {r \in db.live["domain"] :
        Joined(db, r.registrant, "contact", FALSE) # {} /\ db.registry[r.registrant].name = name}}

LinkedBy(db, table, name) ==
    {r.id : r \in {x \in db.live[table] :
        Joined(db, x.contact, "contact", FALSE) # {} /\ db.registry[x.contact].name = name}}

DomainsOfAdminContact(db, name) == LinkedBy(db, "domain_contact_map", name)

(* With a mistake: a keyset of the same name will do.                      *)
DomainsOfNssetOrKeyset(db, name) ==
    {d.id : d \in {r \in db.live["domain"] :
        \E i \in DOMAIN db.registry : i \in {r.nsset, r.keyset} /\ db.registry[i].name = name}}

DomainsOfNsset(db, name) ==
    {d.id : d \in {r \in db.live["domain"] :
        Joined(db, r.nsset, "nsset", FALSE) # {} /\ db.registry[r.nsset].name = name}}

DomainsOfKeyset(db, name) ==
    {d.id : d \in {r \in db.live["domain"] :
        Joined(db, r.keyset, "keyset", FALSE) # {} /\ db.registry[r.keyset].name = name}}

NssetsOfTechContact(db, name)  == LinkedBy(db, "nsset_contact_map", name)
KeysetsOfTechContact(db, name) == LinkedBy(db, "keyset_contact_map", name)
NssetsOfHost(db, fqdn)         == {r.id : r \in {x \in db.live["host"] : x.fqdn = fqdn}}

-----------------------------------------------------------------------------
(* Histories                                                               *)

VersionsOf(db, id) == {e.h : e \in {k \in db.kept["object"] : k.row.id = id}}

(* With a mistake: a version that began before the lower limit is left     *)
(* out.                                                                    *)
HistoryFromLimit(db, id, lower, upper) ==
    {h \in VersionsOf(db, id) :
        /\ (IF lower = None THEN db.registry[id].created ELSE lower) <= db.history[h].from
        /\ upper # None => db.history[h].from <= upper}

(* Without a lower limit it is the creation, without an upper one infinity. *)
History(db, id, lower, upper) ==
    {h \in VersionsOf(db, id) :
        /\ \/ db.history[h].to = None
           \/ (IF lower = None THEN db.registry[id].created ELSE lower) <= db.history[h].to
        /\ upper # None => db.history[h].from <= upper}

GetContactDataHistory(db, id, lower, upper) ==
    IF db.registry[id].type = "contact" THEN History(db, id, lower, upper) ELSE {}
GetNssetDataHistory(db, id, lower, upper) ==
    IF db.registry[id].type = "nsset" THEN History(db, id, lower, upper) ELSE {}
GetKeysetDataHistory(db, id, lower, upper) ==
    IF db.registry[id].type = "keyset" THEN History(db, id, lower, upper) ELSE {}
GetDomainDataHistory(db, id, lower, upper) ==
    IF db.registry[id].type = "domain" THEN History(db, id, lower, upper) ELSE {}

(* An object has a type, and a history of that type only.                  *)
DataHistory(db, id, lower, upper) ==
    GetContactDataHistory(db, id, lower, upper) \cup GetNssetDataHistory(db, id, lower, upper)
    \cup GetKeysetDataHistory(db, id, lower, upper) \cup GetDomainDataHistory(db, id, lower, upper)

(* The last record of a timeline that is ordered by valid_from             *)
LastOf(db, versions) ==
    CHOOSE h \in versions : \A k \in versions : db.history[k].from <= db.history[h].from

(* The end of the whole timeline is that of its last record.               *)
EndOfTimeline(db, versions) == db.history[LastOf(db, versions)].to

(* A record holds until the next one begins.                               *)
ReadAt(db, versions, t) == LastOf(db, {h \in versions : db.history[h].from <= t})

(* Everything that has had the name, in the order of crdate                *)
HandleHistory(db, type, name) ==
    {i \in DOMAIN db.registry : db.registry[i].type = type /\ db.registry[i].name = name}

LastHolder(db, type, name) ==
    LET ids == HandleHistory(db, type, name)
    IN CHOOSE i \in ids : \A j \in ids : db.registry[j].created <= db.registry[i].created
=============================================================================
