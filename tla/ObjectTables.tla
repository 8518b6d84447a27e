----------------------------- MODULE ObjectTables -----------------------------
(***************************************************************************)
(* The tables of contacts, nssets, keysets and domains, the tables that    *)
(* keep their versions, and what each operation makes of them.             *)
(*                                                                         *)
(* Every operation runs under a lock of its object and of the objects it   *)
(* refers to (module Registry shows that it takes effect at one instant),  *)
(* so that it is one function of the database and of now(), the time at    *)
(* which its transaction began.  An operation that throws changes nothing. *)
(*                                                                         *)
(* A row has the id of its object; a host is known by its name.  Texts,    *)
(* numbers and dates that the operations only store are members of Values. *)
(***************************************************************************)
EXTENDS Naturals, Sequences, FiniteSets

CONSTANTS None,       \* NULL
          Keep,       \* a value that an update does not set
          Shipping,   \* the types of address that may name a company
          EnumNames   \* names of domains of an ENUM zone

ContactTables == {"contact", "contact_address"}
NssetTables   == {"nsset", "host", "host_ipaddr_map", "nsset_contact_map"}
KeysetTables  == {"keyset", "dnskey", "keyset_contact_map"}
DomainTables  == {"domain", "domain_contact_map", "enumval"}
Tables == {"object"} \cup ContactTables \cup NssetTables \cup KeysetTables \cup DomainTables

TablesOf(type) ==
    CASE type = "contact" -> ContactTables [] type = "nsset" -> NssetTables
      [] type = "keyset" -> KeysetTables   [] type = "domain" -> DomainTables

EmptyDb ==
    [registry |-> <<>>, history |-> <<>>, states |-> {}, merged |-> <<>>,
     live |-> [t \in Tables |-> {}], kept |-> [t \in Tables |-> {}]]

-----------------------------------------------------------------------------
(* What a caller may ask for: the name of an operation, an object, the     *)
(* registrar that pays for it, and what is to be set, added and removed    *)

(* An update that sets nothing yet                                         *)
UpdateOf(type, name, registrar) ==
    [kind |-> "update", type |-> type, name |-> name, registrar |-> registrar,
     value |-> Keep, disclose |-> Keep, put |-> {}, drop |-> {}, add |-> {}, rem |-> {},
     registrant |-> Keep, nsset |-> Keep, keyset |-> Keep]

(* A call that gives no other fields than these                            *)
Gives(c, kind, type, fields) ==
    LET blank == UpdateOf(type, c.name, c.registrar) IN
    /\ c.kind = kind /\ c.type = type /\ DOMAIN c = DOMAIN blank
    /\ \A f \in DOMAIN blank \ ({"kind"} \cup fields) : c[f] = blank[f]

(* A map of addresses: one at most of each type                            *)
AddressMap(addresses) == \A a, b \in addresses : a.type = b.type => a = b

CreateContactCall(c) ==
    /\ Gives(c, "create", "contact", {"value", "disclose", "put"})
    /\ c.value # Keep /\ AddressMap(c.put)

(* An address is either put or dropped.                                    *)
UpdateContactCall(c) ==
    /\ Gives(c, "update", "contact", {"value", "disclose", "put", "drop"})
    /\ AddressMap(c.put) /\ \A a \in c.put : a.type \notin c.drop

CreateNssetCall(c) ==
    Gives(c, "create", "nsset", {"value", "put", "add"}) /\ c.value # Keep

(* A host that is dropped may be put again with other addresses.           *)
UpdateNssetCall(c) == Gives(c, "update", "nsset", {"value", "put", "drop", "add", "rem"})

CreateKeysetCall(c) == Gives(c, "create", "keyset", {"put", "add"})

UpdateKeysetCall(c) == Gives(c, "update", "keyset", {"put", "drop", "add", "rem"})

(* A domain always has a registrant and an end.                            *)
CreateDomainCall(c) ==
    /\ Gives(c, "create", "domain", {"value", "put", "add", "registrant", "nsset", "keyset"})
    /\ c.registrant \notin {None, Keep} /\ Keep \notin {c.nsset, c.keyset, c.value}
    /\ Cardinality(c.put) <= 1

UpdateDomainCall(c) ==
    /\ Gives(c, "update", "domain",
             {"value", "put", "add", "rem", "registrant", "nsset", "keyset"})
    /\ c.registrant # None /\ c.value # None /\ Cardinality(c.put) <= 1

RenewDomainCall(c) ==
    Gives(c, "renew", "domain", {"value", "put"}) /\ c.value # Keep /\ Cardinality(c.put) <= 1

OtherCall(c) ==
    \/ \E type \in {"contact", "nsset", "keyset", "domain"} :
           Gives(c, "delete", type, {}) \/ Gives(c, "transfer", type, {})
    \/ Gives(c, "request", c.type, {"value"}) \/ Gives(c, "cancelVerified", "contact", {})

Call(c) ==
    \/ CreateContactCall(c) \/ UpdateContactCall(c) \/ CreateNssetCall(c) \/ UpdateNssetCall(c)
    \/ CreateKeysetCall(c) \/ UpdateKeysetCall(c) \/ CreateDomainCall(c) \/ UpdateDomainCall(c)
    \/ RenewDomainCall(c) \/ OtherCall(c)

-----------------------------------------------------------------------------
(* object_registry and the rows of an object                               *)

Registered(db, type, name) ==
    {i \in DOMAIN db.registry : /\ db.registry[i].type = type /\ db.registry[i].name = name
                                /\ db.registry[i].erased = None}

Exists(db, type, name) == Registered(db, type, name) # {}
IdOf(db, type, name)   == CHOOSE i \in Registered(db, type, name) : TRUE

Rows(db, table, id) == {r \in db.live[table] : r.id = id}

With(db, table, rows)        == [db EXCEPT !.live[table] = @ \cup rows]
Without(db, table, id, P(_)) == [db EXCEPT !.live[table] = {r \in @ : ~(r.id = id /\ P(r))}]

Alter(db, table, id, F(_)) ==
    [db EXCEPT !.live[table] = {IF r.id = id THEN F(r) ELSE r : r \in @}]

Contacts(db, names) == {IdOf(db, "contact", n) : n \in names}

AreContacts(db, names) == \A n \in names : Exists(db, "contact", n)

-----------------------------------------------------------------------------
(* Versions                                                                *)

(* The trigger on object_registry that closes the version before           *)
Closed(db, id, now, next) ==
    [db EXCEPT !.history = [h \in DOMAIN @ |->
        IF h = db.registry[id].historyid THEN [@[h] EXCEPT !.to = now, !.next = next] ELSE @[h]]]

(* InsertHistory: the row of object is kept under the new version.         *)
InsertHistory(db, id, now) ==
    LET h == Len(db.history) + 1 IN
    [db EXCEPT !.history = Append(@, [from |-> now, to |-> None, next |-> None]),
               !.kept["object"] = @ \cup {[h |-> h, row |-> r] : r \in Rows(db, "object", id)}]

(* With a mistake: the version before is not left.                         *)
NewVersionBeside(db, id, now) ==
    [InsertHistory(db, id, now) EXCEPT !.registry[id].historyid = Len(db.history) + 1]

(* A version that object_registry refers to                                *)
NewVersion(db, id, now) ==
    LET h == Len(db.history) + 1
    IN [Closed(InsertHistory(db, id, now), id, now, h) EXCEPT !.registry[id].historyid = h]

Copied(db, id, tables) ==
    [db EXCEPT !.kept = [t \in Tables |->
        IF t \in tables
        THEN @[t] \cup {[h |-> db.registry[id].historyid, row |-> r] : r \in Rows(db, t, id)}
        ELSE @[t]]]

CopyContact(db, id) == Copied(db, id, ContactTables)

CopyNsset(db, id)  == Copied(db, id, NssetTables)
CopyKeyset(db, id)  == Copied(db, id, KeysetTables)
CopyDomain(db, id)  == Copied(db, id, DomainTables)

CreateObject(db, c, now) ==
    LET id == Len(db.registry) + 1
        h == Len(db.history) + 1
        row == [id |-> id, clid |-> c.registrar, upid |-> None, update |-> None, trdate |-> None]
    IN InsertHistory(
         [With(db, "object", {row}) EXCEPT !.registry =
             Append(@, [type |-> c.type, name |-> c.name, crid |-> c.registrar, created |-> now,
                        erased |-> None, crhistoryid |-> h, historyid |-> h])],
         id, now)

UpdateObject(db, id, c, now) ==
    NewVersion(Alter(db, "object", id,
                     LAMBDA r : [r EXCEPT !.upid = c.registrar, !.update = now]), id, now)

(* delete_object_impl; the trigger closes the last version.                *)
DeleteObject(db, id, now) ==
    Without([Closed(db, id, now, None) EXCEPT !.registry[id].erased = now],
            "object", id, LAMBDA r : TRUE)

Erased(db, id, now, tables) ==
    DeleteObject([db EXCEPT !.live = [t \in Tables |-> IF t \in tables THEN @[t] \ Rows(db, t, id)
                                                                      ELSE @[t]]], id, now)

(* ObjectHasState(linked)                                                  *)
Linked(db, id) ==
    \/ \E t \in {"nsset_contact_map", "keyset_contact_map", "domain_contact_map"} :
           \E r \in db.live[t] : r.contact = id
    \/ \E r \in db.live["domain"] : id \in {r.registrant, r.nsset, r.keyset}

-----------------------------------------------------------------------------
(* Contacts                                                                *)

CompaniesFit(c) == \A a \in c.put : a.company => a.type \in Shipping

CreateContactFits(db, c) == ~Exists(db, "contact", c.name) /\ CompaniesFit(c)

Addresses(id, c) ==
    {[id |-> id, type |-> a.type, place |-> a.place, company |-> a.company] : a \in c.put}

CreateContact(db, c, now) ==
    LET id == Len(db.registry) + 1 IN
    CopyContact(With(With(CreateObject(db, c, now), "contact",
                          {[id |-> id, value |-> c.value, disclose |-> c.disclose]}),
                     "contact_address", Addresses(id, c)), id)

FinalStates == {"contactPassedManualVerification", "contactFailedManualVerification"}

(* cancel_final_states: requests of the two final states of a verification *)
CancelFinalStates(db, id) ==
    [db EXCEPT !.states = {s \in @ : ~(s.id = id /\ s.state \in FinalStates)}]

UpdateContactFits(db, c) == Exists(db, "contact", c.name) /\ CompaniesFit(c)

SetContactRow(db, id, c) ==
    Alter(db, "contact", id, LAMBDA r :
        [r EXCEPT !.value = IF c.value = Keep THEN @ ELSE c.value,
                  !.disclose = IF c.disclose = Keep THEN @ ELSE c.disclose])

(* Data that is set has not been verified; what is disclosed of it is no   *)
(* matter of verification, and no more are the other addresses.            *)
SetContact(db, id, c) ==
    IF c.value = Keep THEN SetContactRow(db, id, c)
    ELSE CancelFinalStates(SetContactRow(db, id, c), id)

(* Rows of the types given are updated or inserted, then rows are deleted. *)
SetAddresses(db, id, c) ==
    LET put == {a.type : a \in c.put} IN
    With(Without(db, "contact_address", id, LAMBDA r : r.type \in put \cup c.drop),
         "contact_address", Addresses(id, c))

(* With a mistake: the version is kept before the addresses are changed.   *)
UpdateContactCopyingFirst(db, c, now) ==
    LET id == IdOf(db, "contact", c.name) IN
    SetAddresses(CopyContact(SetContact(UpdateObject(db, id, c, now), id, c), id), id, c)

UpdateContact(db, c, now) ==
    LET id == IdOf(db, "contact", c.name) IN
    CopyContact(SetAddresses(SetContact(UpdateObject(db, id, c, now), id, c), id, c), id)

DeleteContact(db, id, now) == Erased(db, id, now, ContactTables)

(* A caller requests a state of an object or attaches it to an identity.   *)
RequestState(db, c) ==
    [db EXCEPT !.states = @ \cup {[id |-> IdOf(db, c.type, c.name), state |-> c.value]}]

VersionsBefore(db, id) == {h \in DOMAIN db.history : db.history[h].next = db.registry[id].historyid}

CancelFinalStatesFits(db, c) ==
    Exists(db, "contact", c.name) /\ VersionsBefore(db, IdOf(db, "contact", c.name)) # {}

(* conditionally_cancel_final_states of a contact: what has changed since  *)
(* the version before?                                                     *)
CancelFinalStatesIfChanged(db, c) ==
    LET id == IdOf(db, "contact", c.name)
        before == {e.row.value : e \in {k \in db.kept["contact"] : k.h \in VersionsBefore(db, id)}}
    IN IF {r.value : r \in Rows(db, "contact", id)} = before THEN db ELSE CancelFinalStates(db, id)

-----------------------------------------------------------------------------
(* Nssets                                                                  *)

Hosts(id, c)   == {[id |-> id, fqdn |-> h.fqdn] : h \in c.put}
HostIps(id, c) == UNION {{[id |-> id, fqdn |-> h.fqdn, ip |-> ip] : ip \in h.ips} : h \in c.put}
Links(id, db, names) == {[id |-> id, contact |-> i] : i \in Contacts(db, names)}

CreateNssetFits(db, c) == ~Exists(db, "nsset", c.name) /\ AreContacts(db, c.add)

CreateNsset(db, c, now) ==
    LET id == Len(db.registry) + 1
        d == With(CreateObject(db, c, now), "nsset", {[id |-> id, level |-> c.value]})
        hosts == With(With(d, "host", Hosts(id, c)), "host_ipaddr_map", HostIps(id, c))
    IN CopyNsset(With(hosts, "nsset_contact_map", Links(id, db, c.add)), id)

(* Contacts to be added are there and not linked, those to be removed are. *)
LinksFit(db, table, id, c) ==
    LET linked == {r.contact : r \in Rows(db, table, id)} IN
    /\ AreContacts(db, c.add \cup c.rem)
    /\ Contacts(db, c.add) \cap linked = {}
    /\ Contacts(db, c.rem) \subseteq linked \cup Contacts(db, c.add)

(* The hosts to be removed are there, those to be added then are not.      *)
UpdateNssetFits(db, c) ==
    /\ Exists(db, "nsset", c.name)
    /\ LET id == IdOf(db, "nsset", c.name)
           hosts == {r.fqdn : r \in Rows(db, "host", id)}
       IN /\ LinksFit(db, "nsset_contact_map", id, c)
          /\ c.drop \subseteq hosts
          /\ \A h \in c.put : h.fqdn \notin hosts \ c.drop

SetLinks(db, table, id, c) ==
    LET gone == Contacts(db, c.rem)
    IN Without(With(db, table, Links(id, db, c.add)), table, id, LAMBDA r : r.contact \in gone)

SetHosts(db, id, c) ==
    LET hosts == Without(db, "host", id, LAMBDA r : r.fqdn \in c.drop)
        ips == Without(hosts, "host_ipaddr_map", id, LAMBDA r : r.fqdn \in c.drop)
    IN With(With(ips, "host", Hosts(id, c)), "host_ipaddr_map", HostIps(id, c))

UpdateNsset(db, c, now) ==
    LET id == IdOf(db, "nsset", c.name)
        d == UpdateObject(db, id, c, now)
        leveled == IF c.value = Keep THEN d
                   ELSE Alter(d, "nsset", id, LAMBDA r : [r EXCEPT !.level = c.value])
    IN CopyNsset(SetHosts(SetLinks(leveled, "nsset_contact_map", id, c), id, c), id)

DeleteNsset(db, id, now) == Erased(db, id, now, NssetTables)

-----------------------------------------------------------------------------
(* Keysets                                                                 *)

CreateKeysetFits(db, c) == ~Exists(db, "keyset", c.name) /\ AreContacts(db, c.add)

Keys(id, c) == {[id |-> id, key |-> k] : k \in c.put}

CreateKeyset(db, c, now) ==
    LET id == Len(db.registry) + 1
        d == With(CreateObject(db, c, now), "keyset", {[id |-> id]})
    IN CopyKeyset(With(With(d, "dnskey", Keys(id, c)),
                       "keyset_contact_map", Links(id, db, c.add)), id)

UpdateKeysetFits(db, c) ==
    /\ Exists(db, "keyset", c.name)
    /\ LET id == IdOf(db, "keyset", c.name)
           keys == {r.key : r \in Rows(db, "dnskey", id)}
       IN /\ LinksFit(db, "keyset_contact_map", id, c)
          /\ c.drop \subseteq keys /\ c.put \cap (keys \ c.drop) = {}

UpdateKeyset(db, c, now) ==
    LET id == IdOf(db, "keyset", c.name)
        d == SetLinks(UpdateObject(db, id, c, now), "keyset_contact_map", id, c)
    IN CopyKeyset(With(Without(d, "dnskey", id, LAMBDA r : r.key \in c.drop),
                       "dnskey", Keys(id, c)), id)

DeleteKeyset(db, id, now) == Erased(db, id, now, KeysetTables)

-----------------------------------------------------------------------------
(* Domains                                                                 *)

Target(db, type, name) == IF name = None THEN None ELSE IdOf(db, type, name)

TargetFits(db, type, name) == name \in {None, Keep} \/ Exists(db, type, name)

TargetsFit(db, c) ==
    /\ TargetFits(db, "nsset", c.nsset) /\ TargetFits(db, "keyset", c.keyset)
    /\ TargetFits(db, "contact", c.registrant)

(* An ENUM domain, and no other, has an end of its validation.             *)
CreateDomainFits(db, c) ==
    /\ ~Exists(db, "domain", c.name) /\ TargetsFit(db, c) /\ AreContacts(db, c.add)
    /\ c.put # {} <=> c.name \in EnumNames

CreateDomain(db, c, now) ==
    LET id == Len(db.registry) + 1
        row == [id |-> id, registrant |-> Target(db, "contact", c.registrant),
                nsset |-> Target(db, "nsset", c.nsset), keyset |-> Target(db, "keyset", c.keyset),
                exdate |-> c.value]
        d == With(With(CreateObject(db, c, now), "domain", {row}),
                  "domain_contact_map", Links(id, db, c.add))
    IN CopyDomain(With(d, "enumval", {[id |-> id, exdate |-> e] : e \in c.put}), id)

UpdateDomainFits(db, c) ==
    /\ Exists(db, "domain", c.name) /\ TargetsFit(db, c)
    /\ c.put # {} => c.name \in EnumNames
    /\ LinksFit(db, "domain_contact_map", IdOf(db, "domain", c.name), c)

(* With a mistake: what is not set becomes NULL.                           *)
ChangedToNull(db, type, name, old) == IF name = Keep THEN None ELSE Target(db, type, name)

Changed(db, type, name, old) == IF name = Keep THEN old ELSE Target(db, type, name)

SetDomain(db, id, c) ==
    Alter(db, "domain", id, LAMBDA r :
        [r EXCEPT !.nsset = Changed(db, "nsset", c.nsset, r.nsset),
                  !.keyset = Changed(db, "keyset", c.keyset, r.keyset),
                  !.registrant = Changed(db, "contact", c.registrant, r.registrant),
                  !.exdate = IF c.value = Keep THEN r.exdate ELSE c.value])

SetEnumval(db, id, c) ==
    IF c.put = {} THEN db
    ELSE Alter(db, "enumval", id, LAMBDA r : [r EXCEPT !.exdate = CHOOSE e \in c.put : TRUE])

UpdateDomain(db, c, now) ==
    LET id == IdOf(db, "domain", c.name)
        d == SetDomain(UpdateObject(db, id, c, now), id, c)
    IN CopyDomain(SetEnumval(SetLinks(d, "domain_contact_map", id, c), id, c), id)

DeleteDomain(db, id, now) == Erased(db, id, now, DomainTables)

RenewDomainFits(db, c) == Exists(db, "domain", c.name) /\ (c.put # {} => c.name \in EnumNames)

(* A new version, though the row of object stays as it is                  *)
RenewDomain(db, c, now) ==
    LET id == IdOf(db, "domain", c.name)
        d == Alter(NewVersion(db, id, now), "domain", id, LAMBDA r : [r EXCEPT !.exdate = c.value])
    IN CopyDomain(SetEnumval(d, id, c), id)

-----------------------------------------------------------------------------
TransferFits(db, c) ==
    /\ Exists(db, c.type, c.name)
    /\ \A r \in Rows(db, "object", IdOf(db, c.type, c.name)) : r.clid # c.registrar

(* The password is the matter of module Authinfo.                          *)
Transferred(db, c, now) ==
    LET id == IdOf(db, c.type, c.name)
        d == Alter(db, "object", id, LAMBDA r : [r EXCEPT !.clid = c.registrar, !.trdate = now])
    IN NewVersion(d, id, now)

TransferContact(db, c, now) == CopyContact(Transferred(db, c, now), IdOf(db, "contact", c.name))
TransferNsset(db, c, now)   == CopyNsset(Transferred(db, c, now), IdOf(db, "nsset", c.name))
TransferKeyset(db, c, now)  == CopyKeyset(Transferred(db, c, now), IdOf(db, "keyset", c.name))
TransferDomain(db, c, now)  == CopyDomain(Transferred(db, c, now), IdOf(db, "domain", c.name))

DeleteFits(db, c) ==
    /\ Exists(db, c.type, c.name)
    /\ c.type # "domain" => ~Linked(db, IdOf(db, c.type, c.name))

Fits(db, c) ==
    CASE c.kind = "delete" -> DeleteFits(db, c)
      [] c.kind = "transfer" -> TransferFits(db, c)
      [] c.kind = "renew" -> RenewDomainFits(db, c)
      [] c.kind = "request" -> Exists(db, c.type, c.name)
      [] c.kind = "cancelVerified" -> CancelFinalStatesFits(db, c)
      [] c.kind = "create" /\ c.type = "contact" -> CreateContactFits(db, c)
      [] c.kind = "create" /\ c.type = "nsset" -> CreateNssetFits(db, c)
      [] c.kind = "create" /\ c.type = "keyset" -> CreateKeysetFits(db, c)
      [] c.kind = "create" /\ c.type = "domain" -> CreateDomainFits(db, c)
      [] c.kind = "update" /\ c.type = "contact" -> UpdateContactFits(db, c)
      [] c.kind = "update" /\ c.type = "nsset" -> UpdateNssetFits(db, c)
      [] c.kind = "update" /\ c.type = "keyset" -> UpdateKeysetFits(db, c)
      [] c.kind = "update" /\ c.type = "domain" -> UpdateDomainFits(db, c)

Deleted(db, c, now) ==
    LET id == IdOf(db, c.type, c.name) IN
    CASE c.type = "contact" -> DeleteContact(db, id, now)
      [] c.type = "nsset" -> DeleteNsset(db, id, now)
      [] c.type = "keyset" -> DeleteKeyset(db, id, now)
      [] c.type = "domain" -> DeleteDomain(db, id, now)

Performed(db, c, now) ==
    CASE c.kind = "delete" -> Deleted(db, c, now)
      [] c.kind = "renew" -> RenewDomain(db, c, now)
      [] c.kind = "request" -> RequestState(db, c)
      [] c.kind = "cancelVerified" -> CancelFinalStatesIfChanged(db, c)
      [] c.kind = "create" /\ c.type = "contact" -> CreateContact(db, c, now)
      [] c.kind = "create" /\ c.type = "nsset" -> CreateNsset(db, c, now)
      [] c.kind = "create" /\ c.type = "keyset" -> CreateKeyset(db, c, now)
      [] c.kind = "create" /\ c.type = "domain" -> CreateDomain(db, c, now)
      [] c.kind = "update" /\ c.type = "contact" -> UpdateContact(db, c, now)
      [] c.kind = "update" /\ c.type = "nsset" -> UpdateNsset(db, c, now)
      [] c.kind = "update" /\ c.type = "keyset" -> UpdateKeyset(db, c, now)
      [] c.kind = "update" /\ c.type = "domain" -> UpdateDomain(db, c, now)
      [] c.kind = "transfer" /\ c.type = "contact" -> TransferContact(db, c, now)
      [] c.kind = "transfer" /\ c.type = "nsset" -> TransferNsset(db, c, now)
      [] c.kind = "transfer" /\ c.type = "keyset" -> TransferKeyset(db, c, now)
      [] c.kind = "transfer" /\ c.type = "domain" -> TransferDomain(db, c, now)
=============================================================================
