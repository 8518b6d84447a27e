--------------------------- MODULE RegistryObjects ---------------------------
(***************************************************************************)
(* The rows of the register and what each operation of libfred does to     *)
(* them.  A registered object is a row of object_registry, one of object   *)
(* and one of contact, nsset, keyset or domain; here the three are one     *)
(* entry of the function db.  An identifier is never used twice.           *)
(*                                                                         *)
(* The attributes kept are those that relate objects to each other (the    *)
(* registrant, nsset and keyset of a domain, the administrative contacts   *)
(* of a domain, the technical contacts of an nsset or a keyset), the       *)
(* sponsoring registrar and the historyid; postal addresses, DNS records,  *)
(* keys, dates and the like are not.                                       *)
(***************************************************************************)
EXTENDS Naturals, FiniteSets

CONSTANTS Contacts, Nssets, Keysets, Domains,  \* identifiers, by object type
          Registrars,
          NoObject                             \* NULL in a foreign key column

Objects == Contacts \cup Nssets \cup Keysets \cup Domains

ASSUME TypesDisjoint ==
    /\ Contacts \cap (Nssets \cup Keysets \cup Domains) = {}
    /\ Domains \cap (Nssets \cup Keysets) = {}
    /\ Nssets \cap Keysets = {}
    /\ NoObject \notin Objects

-----------------------------------------------------------------------------
(* One registered object.  contacts are the administrative contacts of a   *)
(* domain or the technical contacts of an nsset or keyset.                 *)
Entry ==
    [life       : {"free", "live", "erased"},
     sponsor    : Registrars,
     historyid  : Nat,
     registrant : Contacts \cup {NoObject},
     nsset      : Nssets \cup {NoObject},
     keyset     : Keysets \cup {NoObject},
     contacts   : SUBSET Contacts]

References(entry) ==
    ({entry.registrant, entry.nsset, entry.keyset} \cup entry.contacts) \ {NoObject}

IsLive(db, o) == db[o].life = "live"

(* The state 'linked' of an object: some live object refers to it.         *)
IsLinked(db, o) == \E p \in Objects : IsLive(db, p) /\ o \in References(db[p])

(* No live object refers to one that is not.                               *)
NoDangling(db) ==
    \A o \in Objects : IsLive(db, o) => \A r \in References(db[o]) : IsLive(db, r)

(* Only a domain has a registrant, nsset and keyset; a contact refers to   *)
(* nothing.                                                                *)
WellShaped(db) ==
    \A o \in Objects \ Domains :
        /\ db[o].registrant = NoObject /\ db[o].nsset = NoObject /\ db[o].keyset = NoObject
        /\ o \in Contacts => db[o].contacts = {}

-----------------------------------------------------------------------------
(* What a caller asks for.  set names the references of a domain that      *)
(* UpdateDomain changes; add and rem are contacts; dst is the destination  *)
(* of a merge; registrar is the creating or the new sponsoring registrar.  *)
Operation ==
    [kind       : {"create", "update", "delete", "renew", "transfer", "merge"},
     obj        : Objects,
     registrar  : Registrars,
     set        : SUBSET {"registrant", "nsset", "keyset"},
     registrant : Contacts \cup {NoObject},
     nsset      : Nssets \cup {NoObject},
     keyset     : Keysets \cup {NoObject},
     add        : SUBSET Contacts,
     rem        : SUBSET Contacts,
     dst        : Contacts \cup {NoObject}]

(* The operations the interface of the library can express: it has a class *)
(* of its own for each object type, RenewDomain only for domains and       *)
(* MergeContact only for two different contacts.                           *)
Expressible(op) ==
    /\ op.obj \notin Domains => op.registrant = NoObject /\ op.nsset = NoObject /\ op.keyset = NoObject
    /\ op.obj \in Contacts => op.add = {} /\ op.rem = {}
    /\ op.kind = "renew" => op.obj \in Domains
    /\ op.kind = "merge" => op.obj \in Contacts /\ op.dst \in Contacts \ {op.obj}

(* The objects an operation makes its object refer to.                     *)
NewReferences(op) ==
    ((IF op.kind = "create" \/ "registrant" \in op.set THEN {op.registrant} ELSE {})
     \cup (IF op.kind = "create" \/ "nsset" \in op.set THEN {op.nsset} ELSE {})
     \cup (IF op.kind = "create" \/ "keyset" \in op.set THEN {op.keyset} ELSE {})
     \cup op.add) \ {NoObject}

-----------------------------------------------------------------------------
(* The register after each operation.                                      *)

Created(db, op) ==
    [db EXCEPT ![op.obj] =
        [life |-> "live", sponsor |-> op.registrar, historyid |-> 1,
         registrant |-> op.registrant, nsset |-> op.nsset, keyset |-> op.keyset,
         contacts |-> op.add]]

(* A contact to add must not be assigned yet, one to remove must be; the   *)
(* additions are made first.                                               *)
ContactsFit(entry, op) ==
    /\ op.add \cap entry.contacts = {}
    /\ op.rem \subseteq entry.contacts \cup op.add

UpdatedEntry(entry, op) ==
    [entry EXCEPT !.historyid  = @ + 1,
                  !.registrant = IF "registrant" \in op.set THEN op.registrant ELSE @,
                  !.nsset      = IF "nsset" \in op.set THEN op.nsset ELSE @,
                  !.keyset     = IF "keyset" \in op.set THEN op.keyset ELSE @,
                  !.contacts   = (@ \cup op.add) \ op.rem]

Updated(db, op) == [db EXCEPT ![op.obj] = UpdatedEntry(@, op)]

ErasedEntry(entry) ==
    [entry EXCEPT !.life = "erased", !.registrant = NoObject, !.nsset = NoObject,
                  !.keyset = NoObject, !.contacts = {}]

Erased(db, o) == [db EXCEPT ![o] = ErasedEntry(@)]

Renewed(db, op) == [db EXCEPT ![op.obj].historyid = @ + 1]

Transferred(db, op) ==
    [db EXCEPT ![op.obj].sponsor = op.registrar, ![op.obj].historyid = @ + 1]

(* MergeContact: the domains in ofRegistrant get the destination as their  *)
(* registrant, the objects in ofContact get it in the source's place among *)
(* their contacts (once, when it was there already).  Each re-link is an   *)
(* update with a history record of its own.                                *)
Relinked(db, op, ofRegistrant, ofContact) ==
    [o \in Objects |->
        [db[o] EXCEPT
            !.registrant = IF o \in ofRegistrant THEN op.dst ELSE @,
            !.contacts   = IF o \in ofContact THEN (@ \ {op.obj}) \cup {op.dst} ELSE @,
            !.historyid  = @ + (IF o \in ofRegistrant THEN 1 ELSE 0)
                             + (IF o \in ofContact THEN 1 ELSE 0)]]

(* Then the source is deleted and the destination gets a new authinfo.     *)
Merged(db, op, ofRegistrant, ofContact) ==
    [Erased(Relinked(db, op, ofRegistrant, ofContact), op.obj)
        EXCEPT ![op.dst].historyid = @ + 1]

RegisteredBy(db, c) == {d \in Domains : IsLive(db, d) /\ db[d].registrant = c}
ContactOf(db, c)    == {o \in Objects : IsLive(db, o) /\ c \in db[o].contacts}
=============================================================================
