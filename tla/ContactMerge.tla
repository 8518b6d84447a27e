----------------------------- MODULE ContactMerge -----------------------------
(***************************************************************************)
(* Operations on two contacts: which are duplicates, which of them is to   *)
(* stay, the merge of one into another, the mails about merges, and the    *)
(* copy of a contact under another name; and whether a name is free.       *)
(*                                                                         *)
(* A call has the source as name and the destination as the one member of  *)
(* add.  Module Registry shows what happens when other operations run      *)
(* between the statements of a merge.                                      *)
(***************************************************************************)
EXTENDS ObjectQueries, FiniteSetsExt

CONSTANTS Alike,            \* sets of texts equal but for case and white space
          Organizations,    \* data that names an organization
          MojeIdNames,      \* names of the syntax that MojeID asks for
          ProtectionPeriod  \* how long the name of an erased object is protected

Destination(c) == CHOOSE n \in c.add : TRUE

HasState(db, id, states) == \E s \in db.states : s.id = id /\ s.state \in states

-----------------------------------------------------------------------------
(* Is the name free?                                                       *)

(* The last holder by id, registered or not                                *)
IsProtected(db, type, name, now) ==
    LET holders == HandleHistory(db, type, name) IN
    \E i \in holders : /\ \A j \in holders : j <= i
                       /\ db.registry[i].erased # None
                       /\ now < db.registry[i].erased + ProtectionPeriod

IsRegistered(db, type, name) == Exists(db, type, name)

Registrability(db, type, name, now) ==
    IF IsRegistered(db, type, name) THEN "registered"
    ELSE IF IsProtected(db, type, name, now) THEN "in_protection_period" ELSE "available"

-----------------------------------------------------------------------------
(* Duplicates                                                              *)

SameText(v, w) == v = w \/ \E texts \in Alike : {v, w} \subseteq texts

SameValues(db, i, j) ==
    \A r \in Rows(db, "contact", i), s \in Rows(db, "contact", j) :
        SameText(r.value, s.value) /\ r.disclose = s.disclose

SameSponsor(db, i, j) ==
    {r.clid : r \in Rows(db, "object", i)} = {r.clid : r \in Rows(db, "object", j)}

SamePlace(a, b) == a.type = b.type /\ SameText(a.place, b.place) /\ a.company = b.company

(* GROUP BY: an address that both lack is the same.                        *)
AreDuplicates(db, i, j) ==
    LET a == Rows(db, "contact_address", i)  b == Rows(db, "contact_address", j) IN
    /\ SameValues(db, i, j) /\ SameSponsor(db, i, j)
    /\ \A r \in a : \E s \in b : SamePlace(r, s)
    /\ \A s \in b : \E r \in a : SamePlace(r, s)

(* What the query may return: one of the groups (LIMIT 1), or nothing      *)
FindContactDuplicates(db, registrar, excluded) ==
    LET ids == {o.id : o \in {r \in db.live["object"] :
                   /\ db.registry[r.id].type = "contact"
                   /\ registrar # None => r.clid = registrar}}
        group(i) == {db.registry[j].name : j \in {k \in ids : AreDuplicates(db, i, k)}}
    IN {g \in {group(i) : i \in ids} : Cardinality(g) > 1 /\ g \cap excluded = {}}

(* DefaultDiffContacts: an address that one of the two lacks compares as   *)
(* NULL, and NULL is no difference.                                        *)
ContactsDiffer(db, i, j) ==
    \/ ~SameValues(db, i, j) \/ ~SameSponsor(db, i, j)
    \/ \E r \in Rows(db, "contact_address", i), s \in Rows(db, "contact_address", j) :
           r.type = s.type /\ ~SamePlace(r, s)

-----------------------------------------------------------------------------
(* Which of the duplicates is to stay: filters of the handles              *)

FilterByState(db, names, state) ==
    {n \in names : Exists(db, "contact", n) /\ HasState(db, IdOf(db, "contact", n), {state})}

FilterIdentifiedContact(db, names) == FilterByState(db, names, "identifiedContact")

FilterIdentityAttached(db, names) == FilterByState(db, names, "identity")

FilterConditionallyIdentifiedContact(db, names) ==
    FilterByState(db, names, "conditionallyIdentifiedContact")

FilterHandleMojeIDSyntax(db, names) == names \cap MojeIdNames

(* ORDER BY ... DESC, and those that are equal to the first                *)
First(db, names, Rank(_)) ==
    LET there == {n \in names : Exists(db, "contact", n)}
        rank(n) == Rank(IdOf(db, "contact", n))
    IN {n \in there : \A m \in there : rank(m) <= rank(n)}

LinksOf(db, table, id) == Cardinality({r \in db.live[table] : r.contact = id})

DomainsBound(db, id) ==
    Cardinality({r \in db.live["domain"] : r.registrant = id}) + LinksOf(db, "domain_contact_map", id)

FilterMaxDomainsBound(db, names) == First(db, names, LAMBDA id : DomainsBound(db, id))

FilterMaxObjectsBound(db, names) ==
    First(db, names, LAMBDA id : DomainsBound(db, id) + LinksOf(db, "nsset_contact_map", id)
                                 + LinksOf(db, "keyset_contact_map", id))

UpdateTime(db, id) == CHOOSE t \in {r.update : r \in Rows(db, "object", id)} : TRUE

FilterRecentlyUpdated(db, names) ==
    First(db, {n \in names : /\ Exists(db, "contact", n)
                             /\ UpdateTime(db, IdOf(db, "contact", n)) # None},
          LAMBDA id : UpdateTime(db, id))

FilterNotRegCzNic(db, names) ==
    {n \in names : \E r \in db.live["object"] :
        r.id \in Registered(db, "contact", n) /\ r.clid # "REG-CZNIC"}

(* Ids are given in the order of creation, but times are those of          *)
(* transactions: ORDER BY crdate DESC, id DESC LIMIT 1.                    *)
FilterRecentlyCreated(db, names) ==
    LET latest == First(db, names, LAMBDA id : db.registry[id].created)
    IN First(db, latest, LAMBDA id : id)

Filters == <<"identified_contact", "identity_attached", "conditionally_identified_contact",
             "handle_mojeid_syntax", "max_domains_bound", "max_objects_bound",
             "recently_updated", "not_regcznic", "recently_created">>

Filtered(db, names, filter) ==
    CASE filter = "identified_contact" -> FilterIdentifiedContact(db, names)
      [] filter = "identity_attached" -> FilterIdentityAttached(db, names)
      [] filter = "conditionally_identified_contact" ->
             FilterConditionallyIdentifiedContact(db, names)
      [] filter = "handle_mojeid_syntax" -> FilterHandleMojeIDSyntax(db, names)
      [] filter = "max_domains_bound" -> FilterMaxDomainsBound(db, names)
      [] filter = "max_objects_bound" -> FilterMaxObjectsBound(db, names)
      [] filter = "recently_updated" -> FilterRecentlyUpdated(db, names)
      [] filter = "not_regcznic" -> FilterNotRegCzNic(db, names)
      [] filter = "recently_created" -> FilterRecentlyCreated(db, names)

(* A filter that leaves one handle selects it, one that leaves none is     *)
(* passed over; nothing is selected when several are left at the end.      *)
MergeContactSelection(db, names, filters) ==
    LET left[n \in 0..Len(filters)] ==
            IF n = 0 THEN names
            ELSE LET f == Filtered(db, left[n - 1], filters[n])
                 IN IF Cardinality(f) > 1 THEN f ELSE left[n - 1]
        chosen == {n \in DOMAIN filters : Cardinality(Filtered(db, left[n - 1], filters[n])) = 1}
    IN IF chosen = {} THEN {}
       ELSE LET n == CHOOSE n \in chosen : \A k \in chosen : n <= k
            IN Filtered(db, left[n - 1], filters[n])

-----------------------------------------------------------------------------
(* The merge                                                               *)

DestinationInvalid ==
    {"serverBlocked", "contactInManualVerification", "contactFailedManualVerification"}

SourceInvalid ==
    DestinationInvalid \cup {"mojeidContact", "serverDeleteProhibited", "identity"}

Linking(db, table, id) == {r.id : r \in {x \in db.live[table] : x.contact = id}}

(* The objects that a merge changes, as it lists them                      *)
MergeContactOutput(db, c) ==
    LET source == IdOf(db, "contact", c.name) IN
    [source |-> source, destination |-> IdOf(db, "contact", Destination(c)),
     update_domain_registrant |-> {r.id : r \in {x \in db.live["domain"] : x.registrant = source}},
     update_domain_admin_contact |-> Linking(db, "domain_contact_map", source),
     update_nsset_tech_contact |-> Linking(db, "nsset_contact_map", source),
     update_keyset_tech_contact |-> Linking(db, "keyset_contact_map", source)]

ContactsFit(db, source, destination) ==
    /\ ~ContactsDiffer(db, source, destination)
    /\ ~HasState(db, destination, DestinationInvalid)
    /\ ~HasState(db, source, SourceInvalid)

MergeContactFits(db, c) ==
    /\ c.name # Destination(c)
    /\ Exists(db, "contact", c.name) /\ Exists(db, "contact", Destination(c))
    /\ LET o == MergeContactOutput(db, c) IN
       /\ ContactsFit(db, o.source, o.destination)
       /\ \A id \in o.update_domain_registrant \cup o.update_domain_admin_contact :
              ~HasState(db, id, {"serverBlocked", "serverUpdateProhibited"})
       /\ \A id \in o.update_nsset_tech_contact \cup o.update_keyset_tech_contact :
              ~HasState(db, id, {"serverUpdateProhibited"})

SetRegistrant(db, id, c, now) ==
    UpdateDomain(db, [UpdateOf("domain", db.registry[id].name, c.registrar)
                      EXCEPT !.registrant = Destination(c)], now)

(* The source leaves; the destination comes, unless it is there already.   *)
Relinking(db, table, type, id, c) ==
    LET there == IdOf(db, "contact", Destination(c)) \in {r.contact : r \in Rows(db, table, id)}
    IN [UpdateOf(type, db.registry[id].name, c.registrar)
        EXCEPT !.rem = {c.name}, !.add = IF there THEN {} ELSE {Destination(c)}]

SetAdmin(db, id, c, now) ==
    UpdateDomain(db, Relinking(db, "domain_contact_map", "domain", id, c), now)

SetNssetTech(db, id, c, now) ==
    UpdateNsset(db, Relinking(db, "nsset_contact_map", "nsset", id, c), now)

SetKeysetTech(db, id, c, now) ==
    UpdateKeyset(db, Relinking(db, "keyset_contact_map", "keyset", id, c), now)

(* Of the states of the source one is kept.                                *)
TransferStates(db, source, destination) ==
    IF HasState(db, source, {"contactPassedManualVerification"})
    THEN [db EXCEPT !.states = @ \cup
              {[id |-> destination, state |-> "contactPassedManualVerification"]}]
    ELSE db

(* Who is named in which role is changed                                   *)
SetLink(db, role, id, c, now) ==
    CASE role = "registrant" -> SetRegistrant(db, id, c, now)
      [] role = "admin" -> SetAdmin(db, id, c, now)
      [] role = "nsset" -> SetNssetTech(db, id, c, now)
      [] role = "keyset" -> SetKeysetTech(db, id, c, now)

SetLinksOf(db, role, ids, c, now) ==
    FoldSet(LAMBDA id, d : SetLink(d, role, id, c, now), db, ids)

(* A domain that names the source twice is updated twice.  The password of *)
(* the destination is set last.                                            *)
MergeContact(db, c, now) ==
    LET o == MergeContactOutput(db, c)
        owned == SetLinksOf(db, "registrant", o.update_domain_registrant, c, now)
        managed == SetLinksOf(owned, "admin", o.update_domain_admin_contact, c, now)
        nssets == SetLinksOf(managed, "nsset", o.update_nsset_tech_contact, c, now)
        keysets == SetLinksOf(nssets, "keyset", o.update_keyset_tech_contact, c, now)
        moved == TransferStates(keysets, o.source, o.destination)
        merged == UpdateContact(DeleteContact(moved, o.source, now),
                                UpdateOf("contact", Destination(c), c.registrar), now)
    IN [merged EXCEPT !.merged = Append(@, o)]

-----------------------------------------------------------------------------
(* One mail for all merges into a contact: the mail of a contact that is   *)
(* merged further becomes part of the mail of its destination.             *)

MailOf(o) ==
    [destination |-> o.destination, removed |-> {o.source},
     registrant |-> o.update_domain_registrant, admin |-> o.update_domain_admin_contact,
     nssets |-> o.update_nsset_tech_contact, keysets |-> o.update_keyset_tech_contact]

Joint(m, n) ==
    [destination |-> m.destination, removed |-> m.removed \cup n.removed,
     registrant |-> m.registrant \cup n.registrant, admin |-> m.admin \cup n.admin,
     nssets |-> m.nssets \cup n.nssets, keysets |-> m.keysets \cup n.keysets]

MergeContactEmailNotificationData(outputs) ==
    LET mails[n \in 0..Len(outputs)] ==
            IF n = 0 THEN {}
            ELSE LET o == outputs[n]
                     joined == {m \in mails[n - 1] : m.destination \in {o.source, o.destination}}
                 IN (mails[n - 1] \ joined) \cup {FoldSet(LAMBDA m, all : Joint(all, m), MailOf(o), joined)}
    IN mails[Len(outputs)]

(* The addresses are those of the destinations now.  There is no answer at *)
(* all, for none of the mails, when one destination is not there any more. *)
MergeContactNotificationEmailAddr(db, mails) ==
    LET addresses(m) == {r.value : r \in Rows(db, "contact", m.destination)}
    IN IF \E m \in mails : addresses(m) = {} THEN {}
       ELSE {[m \in mails |-> CHOOSE a \in addresses(m) : TRUE]}

-----------------------------------------------------------------------------
(* Copy of a contact, and the end of the disclosure of its address         *)

CopyFits(db, c) == Exists(db, "contact", c.name) /\ ~Exists(db, "contact", Destination(c))

(* The data of the source, that of a new contact of another registrar      *)
CopyContactAs(db, c, now) ==
    LET id == IdOf(db, "contact", c.name)
        row == CHOOSE r \in Rows(db, "contact", id) : TRUE
    IN CreateContact(db, [c EXCEPT !.name = Destination(c), !.value = row.value,
                                   !.disclose = row.disclose,
                                   !.put = {[type |-> a.type, place |-> a.place, company |-> a.company] :
                                            a \in Rows(db, "contact_address", id)}], now)

(* A person's address is undisclosed when the person is identified.        *)
UndiscloseFits(db, c) ==
    /\ Exists(db, "contact", c.name)
    /\ LET id == IdOf(db, "contact", c.name) IN
       /\ \A r \in Rows(db, "contact", id) :
              "address" \in r.disclose /\ r.value \notin Organizations
       /\ HasState(db, id, {"identifiedContact", "validatedContact"})

UndiscloseAddress(db, c, now) ==
    LET row == CHOOSE r \in Rows(db, "contact", IdOf(db, "contact", c.name)) : TRUE
    IN UpdateContact(db, [UpdateOf("contact", c.name, c.registrar)
                          EXCEPT !.disclose = row.disclose \ {"address"}], now)

-----------------------------------------------------------------------------
(* A name is a text, neither NULL nor something that is not set.           *)
TwoContactsCall(c) ==
    \/ /\ \E kind \in {"merge", "copy"} : Gives(c, kind, "contact", {"add"})
       /\ Cardinality(c.add) = 1 /\ c.add \cap {None, Keep} = {}
    \/ Gives(c, "undisclose", "contact", {})

MayPerform(db, c) ==
    CASE c.kind = "merge" -> MergeContactFits(db, c)
      [] c.kind = "copy" -> CopyFits(db, c)
      [] c.kind = "undisclose" -> UndiscloseFits(db, c)
      [] OTHER -> Fits(db, c)

Done(db, c, now) ==
    CASE c.kind = "merge" -> MergeContact(db, c, now)
      [] c.kind = "copy" -> CopyContactAs(db, c, now)
      [] c.kind = "undisclose" -> UndiscloseAddress(db, c, now)
      [] OTHER -> Performed(db, c, now)
=============================================================================
