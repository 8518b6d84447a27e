------------------------------ MODULE Registrars ------------------------------
(***************************************************************************)
(* One registrar: its access to a zone, its certifications, its membership *)
(* in groups, the groups themselves, and the first charges to its credit.  *)
(*                                                                         *)
(* Checks that rows do not overlap or repeat read one table and then write *)
(* it.  Some operations lock the table before they read, others rely on    *)
(* the lock of a row.                                                      *)
(***************************************************************************)
EXTENDS Transactions

(* Access to a zone: periods with both ends included                       *)

LockRegistrarinvoice(p) == call[p] # None /\ call[p].kind = "addAccess" /\ Lock(p, "registrarinvoice")

AddRegistrarZoneAccess(p) ==
    LET new == Period(call[p].from, call[p].to) IN
    /\ At(p, "addAccess", "locked")
    /\ \A i \in RowsOf("registrarinvoice") : ~Overlap(db["registrarinvoice"][i], new)
    /\ \E i \in NewIds("registrarinvoice") : Written(p, {Row("registrarinvoice", i, new)})
    /\ UNCHANGED <<locks, seen>>

AccessFits(id, new) ==
    \A i \in RowsOf("registrarinvoice") \ {id} : ~Overlap(db["registrarinvoice"][i], new)

(* One statement that updates a row and compares it with the others.  Rows *)
(* that other transactions are updating are seen as they were.             *)
UpdateRegistrarZoneAccess(p) ==
    LET c == call[p]
        old == db["registrarinvoice"][c.id]
        new == Period(IF c.from = None THEN old.from ELSE c.from,
                      IF c.to = None THEN old.to ELSE c.to)
    IN /\ At(p, "updateAccess", "begun")
       /\ old # None /\ RowFree(p, "registrarinvoice", c.id)
       /\ AccessFits(c.id, new) /\ NotAfter(new.from, new.to)
       /\ Acquire(p, "registrarinvoice", "row exclusive")
       /\ Written(p, {Row("registrarinvoice", c.id, new)})
       /\ seen' = [seen EXCEPT ![p] = db["registrarinvoice"]]

DeleteRegistrarZoneAccess(p) ==
    /\ At(p, "deleteAccess", "begun")
    /\ db["registrarinvoice"][call[p].id] # None /\ RowFree(p, "registrarinvoice", call[p].id)
    /\ Acquire(p, "registrarinvoice", "row exclusive")
    /\ Written(p, {Row("registrarinvoice", call[p].id, None)})
    /\ UNCHANGED seen

-----------------------------------------------------------------------------
(* Certifications                                                          *)

LockRegistrarCertification(p) ==
    /\ call[p] # None /\ call[p].kind = "createCertification"
    /\ call[p].to # None => call[p].from < call[p].to /\ day[p] <= call[p].to
    /\ Lock(p, "registrar_certification")

(* Certifications that are valid on the day before and on the day of the   *)
(* new one; there is at most one, which is made to end the day before.     *)
Truncated(from) ==
    {i \in RowsOf("registrar_certification") :
        /\ db["registrar_certification"][i].from < from
        /\ NotAfter(from, db["registrar_certification"][i].to)}

(* With a mistake: those that begin later are not noticed.                 *)
NoneLaterThanOpen(from) ==
    \A i \in RowsOf("registrar_certification") \ Truncated(from) :
        db["registrar_certification"][i].to # None

(* No other one is valid on that day or later.                             *)
NoneLater(from) ==
    \A i \in RowsOf("registrar_certification") \ Truncated(from) :
        ~NotAfter(from, db["registrar_certification"][i].to)

CreateRegistrarCertification(p) ==
    LET c == call[p]
        truncated == {Row("registrar_certification", i,
                          Period(db["registrar_certification"][i].from, c.from - 1)) :
                      i \in Truncated(c.from)}
    IN /\ At(p, "createCertification", "locked")
       /\ Cardinality(truncated) <= 1 /\ NoneLater(c.from)
       /\ \E i \in NewIds("registrar_certification") :
             Written(p, truncated \cup {Row("registrar_certification", i, Period(c.from, c.to))})
       /\ UNCHANGED <<locks, seen>>

(* The new end is compared with today and with the beginning; other        *)
(* certifications are not looked at.                                       *)
ValidUntilFits(old, end, now) == end # None => now <= end /\ old.from <= end

(* The score and the report of an evaluation may be replaced as well.      *)
UpdateRegistrarCertification(p) ==
    LET c == call[p]
        old == db["registrar_certification"][c.id]
    IN /\ At(p, "updateCertification", "begun")
       /\ old # None /\ RowFree(p, "registrar_certification", c.id)
       /\ ValidUntilFits(old, c.to, day[p])
       /\ Acquire(p, "registrar_certification", "row exclusive")
       /\ Written(p, {Row("registrar_certification", c.id,
                          IF c.to = None THEN old ELSE Period(old.from, c.to))})
       /\ UNCHANGED seen

DeleteRegistrarCertification(p) ==
    LET id == call[p].id IN
    /\ At(p, "deleteCertification", "begun")
    /\ db["registrar_certification"][id] # None /\ RowFree(p, "registrar_certification", id)
    /\ Acquire(p, "registrar_certification", "row exclusive")
    /\ Written(p, {Row("registrar_certification", id, None)})
    /\ UNCHANGED seen

-----------------------------------------------------------------------------
(* Groups                                                                  *)

LockRegistrarGroup(p) ==
    call[p] # None /\ call[p].kind \in {"createGroup", "updateGroup"} /\ Lock(p, "registrar_group")

(* Also the names of cancelled groups are taken.                           *)
NameIsFree(name) ==
    \A i \in RowsOf("registrar_group") : db["registrar_group"][i].name # name

CreateRegistrarGroup(p) ==
    /\ At(p, "createGroup", "locked") /\ NameIsFree(call[p].name)
    /\ \E i \in NewIds("registrar_group") :
          Written(p, {Row("registrar_group", i, [name |-> call[p].name, cancelled |-> None])})
    /\ UNCHANGED <<locks, seen>>

UpdateRegistrarGroup(p) ==
    LET old == db["registrar_group"][call[p].id] IN
    /\ At(p, "updateGroup", "locked") /\ NameIsFree(call[p].name) /\ old # None
    /\ Written(p, {Row("registrar_group", call[p].id, [old EXCEPT !.name = call[p].name])})
    /\ UNCHANGED <<locks, seen>>

(* FOR UPDATE locks a row only if the group has been cancelled.            *)
CheckNotCancelled(p) ==
    /\ At(p, "cancelGroup", "begun")
    /\ Acquire(p, "registrar_group", "row share")
    /\ db["registrar_group"][call[p].id] # None => db["registrar_group"][call[p].id].cancelled = None
    /\ Passed(p, "checked")

(* With a mistake: members can come and go.                                *)
LockMembersShared(p) ==
    /\ At(p, "cancelGroup", "checked")
    /\ Acquire(p, "registrar_group_map", "row exclusive") /\ Passed(p, "locked")

LockMembers(p) ==
    /\ At(p, "cancelGroup", "checked")
    /\ Acquire(p, "registrar_group_map", "access exclusive") /\ Passed(p, "locked")

IsMember(row, group, on) ==
    /\ row.group = group /\ row.from <= on
    /\ row.to # None => on <= row.to /\ row.from # row.to

(* A group that is not there gets no row either.                           *)
CancelRegistrarGroup(p) ==
    LET id == call[p].id IN
    /\ At(p, "cancelGroup", "locked") /\ db["registrar_group"][id] # None
    /\ \A i \in RowsOf("registrar_group_map") : ~IsMember(db["registrar_group_map"][i], id, day[p])
    /\ Acquire(p, "registrar_group", "row exclusive")
    /\ Written(p, {Row("registrar_group", id, [db["registrar_group"][id] EXCEPT !.cancelled = day[p]])})
    /\ UNCHANGED seen

-----------------------------------------------------------------------------
(* Membership                                                              *)

Membership(group, from, to) == [group |-> group, from |-> from, to |-> to]

MembershipsIn(group) ==
    {i \in RowsOf("registrar_group_map") : db["registrar_group_map"][i].group = group}

LockRegistrarGroupMap(p) ==
    /\ call[p] # None /\ call[p].kind = "createMembership" /\ NotAfter(call[p].from, call[p].to)
    /\ Lock(p, "registrar_group_map")

(* ORDER BY member_until DESC LIMIT 1, where NULL comes first              *)
LastMemberships(group) ==
    LET until(i) == db["registrar_group_map"][i].to
        open == {i \in MembershipsIn(group) : until(i) = None}
    IN IF open # {} THEN open
       ELSE {i \in MembershipsIn(group) : \A j \in MembershipsIn(group) : until(j) <= until(i)}

(* With a mistake: a membership that ended later than the new one begins   *)
(* is none in the way.                                                     *)
IntersectionAccepted(last, from) == {i \in last : db["registrar_group_map"][i].to = None}

(* The last membership is ended if it is open, or must not end later than  *)
(* the new one begins.                                                     *)
EndedFor(last, from) ==
    {i \in last : \/ db["registrar_group_map"][i].to = None
                  \/ db["registrar_group_map"][i].to > from}

CreateRegistrarGroupMembership(p) ==
    LET c == call[p]
        new(i) == Row("registrar_group_map", i, Membership(c.id, c.from, c.to))
        ended(i) == Row("registrar_group_map", i,
                        [db["registrar_group_map"][i] EXCEPT !.to = c.from])
    IN /\ At(p, "createMembership", "locked")
       /\ \E last \in {{i} : i \in LastMemberships(c.id)}
                       \cup (IF MembershipsIn(c.id) = {} THEN {{}} ELSE {}) :
          \E i \in NewIds("registrar_group_map") :
             /\ \A j \in EndedFor(last, c.from) : db["registrar_group_map"][j].to = None
             /\ Written(p, {new(i)} \cup {ended(j) : j \in EndedFor(last, c.from)})
       /\ UNCHANGED <<locks, seen>>

LastsAfter(row, on) == row.to # None => on < row.to

(* The membership that has not ended, also if it has not yet begun.  The   *)
(* program stops when it finds two (it throws again what is not there).    *)
FindMembership(p) ==
    /\ At(p, "endMembership", "begun")
    /\ Cardinality({i \in MembershipsIn(call[p].id) :
                       LastsAfter(db["registrar_group_map"][i], day[p])}) = 1
    /\ Acquire(p, "registrar_group_map", "access share")
    /\ seen' = [seen EXCEPT ![p] = db["registrar_group_map"]]
    /\ stage' = [stage EXCEPT ![p] = "found"]
    /\ UNCHANGED <<today, db, workload, call, day, draft>>

EndRegistrarGroupMembership(p) ==
    LET found == {i \in Ids : LET row == seen[p][i] IN
                     row # None /\ row.group = call[p].id /\ LastsAfter(row, day[p])}
    IN /\ At(p, "endMembership", "found")
       /\ \A i \in found : RowFree(p, "registrar_group_map", i)
       /\ Acquire(p, "registrar_group_map", "row exclusive")
       /\ Written(p, {Row("registrar_group_map", i,
                          [db["registrar_group_map"][i] EXCEPT !.to = day[p]]) : i \in found})
       /\ UNCHANGED seen

-----------------------------------------------------------------------------
(* Credit                                                                  *)

(* The history of accesses, which must not overlap, has one for today.     *)
HasAccess ==
    LET rows == RowsOf("registrarinvoice") IN
    /\ \A i, j \in rows : i # j =>
          ~Overlap(db["registrarinvoice"][i], db["registrarinvoice"][j])
    /\ \E i \in rows : Overlap(db["registrarinvoice"][i], Period(today, today))

FindCredit(p) ==
    /\ At(p, "charge", "begun") /\ HasAccess
    /\ Granted(p, "registrarinvoice", "access share")
    /\ Acquire(p, "registrar_credit", "access share")
    /\ Passed(p, IF RowsOf("registrar_credit") = {} THEN "missing" ELSE "checked")

(* With a mistake: two callers at once insert the first row.               *)
LockCreditShared(p) ==
    At(p, "charge", "missing") /\ Acquire(p, "registrar_credit", "row exclusive") /\ Passed(p, "locked")

LockCredit(p) ==
    At(p, "charge", "missing") /\ Acquire(p, "registrar_credit", "exclusive") /\ Passed(p, "locked")

(* INSERT ... ON CONFLICT DO NOTHING, or else SELECT, in one statement: it *)
(* finds nothing if it conflicts with a row that was not committed when it *)
(* began.                                                                  *)
InsertCredit(p) ==
    /\ At(p, "charge", "locked")
    /\ draft' = [draft EXCEPT ![p] =
                    IF RowsOf("registrar_credit") = {} /\ Drafted("registrar_credit") = {}
                    THEN {Row("registrar_credit", 1, "credit")} ELSE {}]
    /\ stage' = [stage EXCEPT ![p] =
                    IF RowsOf("registrar_credit") = {} /\ Drafted("registrar_credit") # {}
                    THEN "failed" ELSE "checked"]
    /\ UNCHANGED <<today, db, workload, call, day, seen, locks>>

(* The transaction; a trigger changes the balance.                         *)
CreateRegistrarCreditTransaction(p) ==
    /\ At(p, "charge", "checked")
    /\ Acquire(p, "registrar_credit", "row exclusive")
    /\ Written(p, draft[p])
    /\ UNCHANGED seen

-----------------------------------------------------------------------------
ZoneAccess(p) ==
    \/ LockRegistrarinvoice(p) \/ AddRegistrarZoneAccess(p)
    \/ UpdateRegistrarZoneAccess(p) \/ DeleteRegistrarZoneAccess(p)

Certification(p) ==
    \/ LockRegistrarCertification(p) \/ CreateRegistrarCertification(p)
    \/ UpdateRegistrarCertification(p) \/ DeleteRegistrarCertification(p)

Group(p) ==
    \/ LockRegistrarGroup(p) \/ CreateRegistrarGroup(p) \/ UpdateRegistrarGroup(p)
    \/ CheckNotCancelled(p) \/ LockMembers(p) \/ CancelRegistrarGroup(p)
    \/ LockRegistrarGroupMap(p) \/ CreateRegistrarGroupMembership(p)
    \/ FindMembership(p) \/ EndRegistrarGroupMembership(p)

Credit(p) ==
    FindCredit(p) \/ LockCredit(p) \/ InsertCredit(p) \/ CreateRegistrarCreditTransaction(p)
=============================================================================
