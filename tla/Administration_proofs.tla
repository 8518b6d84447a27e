------------------------- MODULE Administration_proofs -------------------------
(***************************************************************************)
(* Theorems about Administration: what the locks of tables and rows make   *)
(* sure of, whatever runs at once, and what reads without locks tell.      *)
(***************************************************************************)
EXTENDS Administration, FiniteSetTheorems, WellFoundedInduction, TLAPS

-----------------------------------------------------------------------------
(* The inductive invariant                                                 *)

(* Tables that somebody locks as a whole before reading them               *)
Guarded == {"registrarinvoice", "registrar_certification", "registrar_group_map", "registrar_credit"}

WritersOf(table) ==
    CASE table = "registrarinvoice"        -> {"addAccess", "updateAccess", "deleteAccess"}
      [] table = "registrar_certification" -> {"createCertification", "updateCertification",
                                               "deleteCertification"}
      [] table = "registrar_group_map"     -> {"createMembership", "endMembership"}
      [] table = "registrar_credit"        -> {"charge"}

WriteModes == {"row exclusive", "exclusive", "access exclusive"}

Shaped ==
    /\ DOMAIN call = Process /\ DOMAIN stage = Process /\ DOMAIN day = Process
    /\ DOMAIN draft = Process /\ DOMAIN seen = Process /\ DOMAIN locks = Process
    /\ DOMAIN db = Tables /\ \A t \in Tables : DOMAIN db[t] = Ids
    /\ workload \in DOMAIN Workloads /\ today \in Nat

(* Who has not begun holds nothing, and who has, executes what it was      *)
(* asked to.                                                               *)
Engaged(p) ==
    /\ stage[p] = "idle" => call[p] = None /\ draft[p] = {} /\ locks[p] = {}
    /\ stage[p] # "idle" => call[p] \in Workloads[workload]
    /\ day[p] \in Nat

(* Nobody is granted a table that another one keeps from it.               *)
LocksApart ==
    \A p, q \in Process : p # q =>
        \A l \in locks[p], m \in locks[q] :
            l.table = m.table /\ l.table \in Guarded => ~Conflicts(l.mode, m.mode)

HoldsLock(p, table, modes) == \E l \in locks[p] : l.table = table /\ l.mode \in modes

(* Who writes a table is asked to and has locked it.                       *)
WritersHold(p) ==
    \A c \in draft[p] : c.table \in Guarded =>
        call[p].kind \in WritersOf(c.table) /\ HoldsLock(p, c.table, WriteModes)

(* The tables that an operation keeps locked from its first statement on   *)
Keeps(kind) ==
    CASE kind = "addAccess"           -> "registrarinvoice"
      [] kind = "createCertification" -> "registrar_certification"
      [] kind = "createMembership"    -> "registrar_group_map"
      [] kind = "cancelGroup"         -> "registrar_group_map"

Keepers == {"addAccess", "createCertification", "createMembership", "cancelGroup"}

LocksKept(p) ==
    /\ call[p].kind \in Keepers /\ stage[p] \in {"locked", "written"} =>
          HoldsLock(p, Keeps(call[p].kind), {"access exclusive"})
    /\ call[p].kind = "endMembership" /\ stage[p] \in {"found", "written"} =>
          HoldsLock(p, "registrar_group_map", {"access share"})
    /\ call[p].kind = "charge" /\ stage[p] = "locked" =>
          HoldsLock(p, "registrar_credit", {"exclusive"})

(* Nothing is written before the last statement, except for a credit.      *)
DraftLast(p) ==
    draft[p] # {} => stage[p] = "written" \/ (call[p].kind = "charge" /\ stage[p] = "checked")

OnCourse(p) == DraftLast(p) /\ stage[p] # "failed" /\ WritersHold(p) /\ LocksKept(p)

Base ==
    /\ Shaped /\ LocksApart
    /\ \A p \in Process : Engaged(p) /\ (stage[p] # "idle" => OnCourse(p))

-----------------------------------------------------------------------------
(* Periods that have just been written                                     *)

(* A table once the rows that were written are committed                   *)
Applied(rows, table, changes) ==
    [i \in Ids |->
        IF \E c \in changes : c.table = table /\ c.id = i
        THEN (CHOOSE c \in changes : c.table = table /\ c.id = i).row ELSE rows[i]]

RowsTyped(table, S) ==
    /\ \A i \in Ids : db[table][i] \in S \cup {None}
    /\ \A p \in Process : \A c \in draft[p] : c.table = table => c.row \in S \cup {None}

OverlapAt(rows, i, j) == rows[i] # None /\ rows[j] # None /\ Overlap(rows[i], rows[j])

NoNewOverlap(old, new) == \A i, j \in Ids : i # j /\ OverlapAt(new, i, j) => OverlapAt(old, i, j)

Deletes(p, table) == \A c \in draft[p] : c.table = table => c.row = None

(* An access that was updated fits those that were seen.                   *)
FitsSeen(p) ==
    \A c \in draft[p] : c.table = "registrarinvoice" =>
        /\ c.id = call[p].id
        /\ \A j \in Ids \ {c.id} : seen[p][j] # None => ~Overlap(seen[p][j], c.row)

AccessKept(p) ==
    /\ call[p].kind = "addAccess" /\ stage[p] = "written" =>
          NoNewOverlap(db["registrarinvoice"],
                       Applied(db["registrarinvoice"], "registrarinvoice", draft[p]))
    /\ call[p].kind = "updateAccess" /\ stage[p] = "written" => FitsSeen(p)
    /\ call[p].kind = "deleteAccess" => Deletes(p, "registrarinvoice")

CertificationKept(p) ==
    /\ call[p].kind = "createCertification" /\ stage[p] = "written" =>
          NoNewOverlap(db["registrar_certification"],
                       Applied(db["registrar_certification"], "registrar_certification", draft[p]))
    /\ call[p].kind = "deleteCertification" => Deletes(p, "registrar_certification")

(* Nobody joins the group that is about to be cancelled.                   *)
GroupEmpty(p) ==
    call[p].kind = "cancelGroup" /\ stage[p] = "written" =>
        \A i \in RowsOf("registrar_group_map") :
            ~IsMember(db["registrar_group_map"][i], call[p].id, day[p])

Periods ==
    /\ RowsTyped("registrarinvoice", PeriodRow)
    /\ RowsTyped("registrar_certification", PeriodRow)
    /\ \A p \in Process : stage[p] # "idle" => AccessKept(p) /\ CertificationKept(p) /\ GroupEmpty(p)

-----------------------------------------------------------------------------
(* Memberships and those that are ending them                              *)

Ender(p) == stage[p] \in {"found", "written"} /\ call[p].kind = "endMembership"

Found(p) ==
    {i \in Ids : seen[p][i] # None /\ seen[p][i].group = call[p].id /\ LastsAfter(seen[p][i], day[p])}

(* The ends that a membership may soon have                                *)
Ends(i) ==
    {db["registrar_group_map"][i].to} \cup {day[p] : p \in {q \in Process : Ender(q) /\ i \in Found(q)}}

(* One has been ended before it began and stays so, or no two of a group   *)
(* intersect, whichever of these ends they have.                           *)
Disjoint ==
    LET rows == db["registrar_group_map"]
        after(end, from) == end # None => from < end
    IN \/ \E i \in RowsOf("registrar_group_map") : \A e \in Ends(i) : e # None /\ e < rows[i].from
       \/ \A i, j \in RowsOf("registrar_group_map") :
             i # j /\ rows[i].group = rows[j].group =>
                \A e \in Ends(i), f \in Ends(j) : ~(after(f, rows[i].from) /\ after(e, rows[j].from))

(* What an ender has seen is there, and what it writes is that with another *)
(* end.                                                                    *)
EndsFound(p) ==
    /\ \A i \in Ids : seen[p][i] # None => db["registrar_group_map"][i] # None
    /\ \A c \in draft[p] : c.table = "registrar_group_map" =>
          LET row == db["registrar_group_map"][c.id] IN
          /\ c.id \in Found(p)
          /\ c.row = [group |-> row.group, from |-> row.from, to |-> day[p]]

MembershipKept(p) ==
    /\ Ender(p) => EndsFound(p)
    /\ call[p].kind = "createMembership" /\ stage[p] = "written" =>
          /\ \A c \in draft[p] : c.table = "registrar_group_map" => c.row # None
          /\ IntersectByInversion(Applied(db["registrar_group_map"], "registrar_group_map", draft[p]))

Memberships ==
    /\ RowsTyped("registrar_group_map", MembershipRow)
    /\ Disjoint
    /\ \A p \in Process : stage[p] # "idle" => MembershipKept(p)

IInv == Base /\ Periods /\ Memberships

-----------------------------------------------------------------------------
(* What a statement leaves alone                                           *)

(* A statement of p: others have what they had, and p keeps its locks and  *)
(* takes a guarded table only if it is granted.                            *)
Own(p) ==
    /\ today' = today /\ db' = db /\ workload' = workload /\ call' = call /\ day' = day
    /\ stage[p] # "idle" /\ stage'[p] # "idle" /\ Shaped'
    /\ \A q \in Process \ {p} :
          stage'[q] = stage[q] /\ draft'[q] = draft[q] /\ seen'[q] = seen[q] /\ locks'[q] = locks[q]
    /\ locks[p] \subseteq locks'[p]
    /\ \A l \in locks'[p] \ locks[p] : l.table \in Guarded => Granted(p, l.table, l.mode)

LEMMA Acquiring ==
    ASSUME Shaped, NEW p \in Process, NEW table, NEW mode, Acquire(p, table, mode)
    PROVE  /\ DOMAIN locks' = Process
           /\ \A q \in Process \ {p} : locks'[q] = locks[q]
           /\ locks'[p] = locks[p] \cup {TableLock(table, mode)}
           /\ \A l \in locks'[p] \ locks[p] : Granted(p, l.table, l.mode)
<1> DEFINE lock == TableLock(table, mode)
<1>1. Granted(p, table, mode) /\ lock.table = table /\ lock.mode = mode
  BY DEF Acquire, TableLock
<1>2. locks' = [locks EXCEPT ![p] = @ \cup {lock}]
  BY DEF Acquire
<1> HIDE DEF lock
<1>3. /\ DOMAIN locks' = Process /\ \A q \in Process \ {p} : locks'[q] = locks[q]
      /\ locks'[p] = locks[p] \cup {lock}
  BY <1>2 DEF Shaped
<1>4. \A l \in locks'[p] \ locks[p] : l = lock
  BY <1>3
<1> QED BY <1>1, <1>3, <1>4 DEF lock

LEMMA ZoneAccessOwn ==
    ASSUME Shaped, NEW p \in Process, ZoneAccess(p)
    PROVE  Own(p)
<1>1. CASE LockRegistrarinvoice(p)
  BY <1>1, Acquiring DEF LockRegistrarinvoice, Lock, Passed, Own, Shaped
<1>2. CASE AddRegistrarZoneAccess(p)
  BY <1>2 DEF AddRegistrarZoneAccess, At, Written, Own, Shaped
<1>3. CASE UpdateRegistrarZoneAccess(p)
  BY <1>3, Acquiring DEF UpdateRegistrarZoneAccess, At, Written, Own, Shaped
<1>4. CASE DeleteRegistrarZoneAccess(p)
  BY <1>4, Acquiring DEF DeleteRegistrarZoneAccess, At, Written, Own, Shaped
<1> QED BY <1>1, <1>2, <1>3, <1>4 DEF ZoneAccess

LEMMA CertificationOwn ==
    ASSUME Shaped, NEW p \in Process, Certification(p)
    PROVE  Own(p)
<1>1. CASE LockRegistrarCertification(p)
  BY <1>1, Acquiring DEF LockRegistrarCertification, Lock, Passed, Own, Shaped
<1>2. CASE CreateRegistrarCertification(p)
  BY <1>2 DEF CreateRegistrarCertification, At, Written, Own, Shaped
<1>3. CASE UpdateRegistrarCertification(p)
  BY <1>3, Acquiring DEF UpdateRegistrarCertification, At, Written, Own, Shaped
<1>4. CASE DeleteRegistrarCertification(p)
  BY <1>4, Acquiring DEF DeleteRegistrarCertification, At, Written, Own, Shaped
<1> QED BY <1>1, <1>2, <1>3, <1>4 DEF Certification

LEMMA GroupOwn ==
    ASSUME Shaped, NEW p \in Process, Group(p)
    PROVE  Own(p)
<1>1. CASE LockRegistrarGroup(p)
  BY <1>1, Acquiring DEF LockRegistrarGroup, Lock, Passed, Own, Shaped, Guarded
<1>2. CASE CreateRegistrarGroup(p)
  BY <1>2 DEF CreateRegistrarGroup, At, Written, Own, Shaped
<1>3. CASE UpdateRegistrarGroup(p)
  BY <1>3 DEF UpdateRegistrarGroup, At, Written, Own, Shaped
<1>4. CASE CheckNotCancelled(p)
  BY <1>4, Acquiring DEF CheckNotCancelled, At, Passed, Own, Shaped
<1>5. CASE LockMembers(p)
  BY <1>5, Acquiring DEF LockMembers, At, Passed, Own, Shaped
<1>6. CASE CancelRegistrarGroup(p)
  BY <1>6, Acquiring DEF CancelRegistrarGroup, At, Written, Own, Shaped
<1>7. CASE LockRegistrarGroupMap(p)
  BY <1>7, Acquiring DEF LockRegistrarGroupMap, Lock, Passed, Own, Shaped
<1>8. CASE CreateRegistrarGroupMembership(p)
  BY <1>8 DEF CreateRegistrarGroupMembership, At, Written, Own, Shaped
<1>9. CASE FindMembership(p)
  BY <1>9, Acquiring DEF FindMembership, At, Own, Shaped
<1>10. CASE EndRegistrarGroupMembership(p)
  BY <1>10, Acquiring DEF EndRegistrarGroupMembership, At, Written, Own, Shaped
<1> QED
  BY <1>1, <1>2, <1>3, <1>4, <1>5, <1>6, <1>7, <1>8, <1>9, <1>10 DEF Group

LEMMA CreditOwn ==
    ASSUME Shaped, NEW p \in Process, Credit(p)
    PROVE  Own(p)
<1>1. CASE FindCredit(p)
  BY <1>1, Acquiring DEF FindCredit, At, Passed, Own, Shaped
<1>2. CASE LockCredit(p)
  BY <1>2, Acquiring DEF LockCredit, At, Passed, Own, Shaped
<1>3. CASE InsertCredit(p)
  BY <1>3 DEF InsertCredit, At, Own, Shaped
<1>4. CASE CreateRegistrarCreditTransaction(p)
  BY <1>4, Acquiring DEF CreateRegistrarCreditTransaction, At, Written, Own, Shaped
<1> QED BY <1>1, <1>2, <1>3, <1>4 DEF Credit

-----------------------------------------------------------------------------
(* The other operations have nothing to do with the guarded tables.        *)

GuardedKinds ==
    Keepers \cup {"updateAccess", "deleteAccess", "updateCertification", "deleteCertification",
                  "endMembership", "charge"}

Elsewhere(p) ==
    /\ Own(p)
    /\ call[p].kind \notin GuardedKinds
    /\ \A c \in draft'[p] : c \in draft[p] \/ c.table \notin Guarded
    /\ stage[p] # "written" /\ stage'[p] # "failed"
    /\ stage'[p] = "written" \/ draft'[p] = draft[p]

LEMMA RowLocking ==
    ASSUME Shaped, NEW p \in Process, NEW table, table \notin Guarded, NEW ids,
           locks' = [locks EXCEPT ![p] = @ \cup {RowLock(table, i) : i \in ids}]
    PROVE  /\ DOMAIN locks' = Process /\ \A q \in Process \ {p} : locks'[q] = locks[q]
           /\ locks[p] \subseteq locks'[p]
           /\ \A l \in locks'[p] \ locks[p] : l.table \notin Guarded
<1> DEFINE new == {RowLock(table, i) : i \in ids}
<1>1. ASSUME NEW l \in new PROVE l.table = table
  <2>1. PICK i \in ids : l = RowLock(table, i)
    OBVIOUS
  <2> QED BY <2>1 DEF RowLock
<1>2. locks' = [locks EXCEPT ![p] = @ \cup new]
  OBVIOUS
<1> HIDE DEF new
<1> QED BY <1>1, <1>2 DEF Shaped

LEMMA RowLockingOne ==
    ASSUME Shaped, NEW p \in Process, NEW table, table \notin Guarded, NEW id,
           locks' = [locks EXCEPT ![p] = @ \cup {RowLock(table, id)}]
    PROVE  /\ DOMAIN locks' = Process /\ \A q \in Process \ {p} : locks'[q] = locks[q]
           /\ locks[p] \subseteq locks'[p]
           /\ \A l \in locks'[p] \ locks[p] : l.table \notin Guarded
<1>1. {RowLock(table, id)} = {RowLock(table, i) : i \in {id}}
  OBVIOUS
<1> QED BY <1>1, RowLocking

LEMMA InfoLocking ==
    ASSUME Shaped, NEW p \in Process, InfoRegistrar(p)
    PROVE  /\ DOMAIN locks' = Process /\ \A q \in Process \ {p} : locks'[q] = locks[q]
           /\ locks[p] \subseteq locks'[p]
           /\ \A l \in locks'[p] \ locks[p] : l.table \notin Guarded
<1> DEFINE table == "registrar"
           ids == Told(call[p])
<1>1. table \notin Guarded
  BY DEF Guarded
<1>2. locks' = [locks EXCEPT ![p] = @ \cup {RowLock(table, i) : i \in ids}]
  BY DEF InfoRegistrar
<1> HIDE DEF table, ids
<1> QED BY <1>1, <1>2, RowLocking

LEMMA AccountsElsewhere ==
    ASSUME Shaped, NEW p \in Process, Accounts(p)
    PROVE  Elsewhere(p)
<1> USE DEF Elsewhere, Own, Shaped, GuardedKinds, Keepers, Guarded
<1>1. CASE CreateRegistrar(p)
  BY <1>1 DEF CreateRegistrar, At, Written, Row
<1>2. CASE UpdateRegistrar(p)
  BY <1>2 DEF UpdateRegistrar, At, Written, Row, UpdateColumns
<1>3. CASE InfoRegistrar(p)
  BY <1>3, InfoLocking DEF InfoRegistrar, At, Written
<1>4. CASE InfoRegistrarLocking(p)
  BY <1>4, RowLockingOne DEF InfoRegistrarLocking, At, Written
<1>5. CASE AddRegistrarEppAuth(p)
  BY <1>5 DEF AddRegistrarEppAuth, At, Written, Row
<1>6. CASE CloneRegistrarEppAuth(p)
  BY <1>6 DEF CloneRegistrarEppAuth, At, Written, Row
<1>7. CASE UpdateRegistrarEppAuth(p)
  BY <1>7 DEF UpdateRegistrarEppAuth, At, Written, Row, UpdateColumns
<1>8. CASE DeleteRegistrarEppAuth(p)
  BY <1>8 DEF DeleteRegistrarEppAuth, At, Written, Row
<1> QED
  BY <1>1, <1>2, <1>3, <1>4, <1>5, <1>6, <1>7, <1>8 DEF Accounts

LEMMA AdministerElsewhere ==
    ASSUME Shaped, NEW p \in Process, Administer(p)
    PROVE  Elsewhere(p)
<1> USE DEF Elsewhere, Own, Shaped, GuardedKinds, Keepers, Guarded
<1>1. CASE CreateZone(p)
  BY <1>1 DEF CreateZone, At, Written, Row
<1>2. CASE UpdateZone(p)
  BY <1>2 DEF UpdateZone, At, Written, Row, UpdateColumns
<1>3. CASE CreateZoneSoa(p)
  BY <1>3 DEF CreateZoneSoa, At, Written, Row
<1>4. CASE UpdateZoneSoa(p)
  BY <1>4 DEF UpdateZoneSoa, At, Written, Row, UpdateColumns
<1>5. CASE CreateZoneNs(p)
  BY <1>5 DEF CreateZoneNs, At, Written, Row
<1>6. CASE UpdateZoneNs(p)
  <2>1. PICK set : UpdateColumns(p, "zone_ns", call[p].id, set)
    BY <1>6 DEF UpdateZoneNs
  <2> QED BY <1>6, <2>1 DEF UpdateZoneNs, At, Written, Row, UpdateColumns
<1>7. CASE FindConfig(p)
  <2>1. PICK z : ShareZone(p, z) /\ Read(p, [zone |-> z, rows |-> ConfigRows(z)], "found")
    BY <1>7 DEF FindConfig
  <2>2. /\ DOMAIN locks' = Process /\ \A q \in Process \ {p} : locks'[q] = locks[q]
        /\ locks[p] \subseteq locks'[p]
        /\ \A l \in locks'[p] \ locks[p] : l.table \notin Guarded
    BY <2>1, RowLockingOne DEF ShareZone
  <2>3. stage[p] = "begun" /\ call[p].kind = "setConfig"
    BY <1>7 DEF FindConfig, At
  <2> QED BY <2>1, <2>2, <2>3 DEF Read
<1>8. CASE SetConfig(p)
  BY <1>8 DEF SetConfig, At, Written, Row
<1>9. CASE CheckNotBlacklisted(p)
  BY <1>9 DEF CheckNotBlacklisted, At, Read
<1>10. CASE CreateDomainNameBlacklistId(p)
  BY <1>10 DEF CreateDomainNameBlacklistId, At, Written, Row
<1> QED
  BY <1>1, <1>2, <1>3, <1>4, <1>5, <1>6, <1>7, <1>8, <1>9, <1>10 DEF Administer

LEMMA RegisterElsewhere ==
    ASSUME Shaped, NEW p \in Process, Register(p)
    PROVE  Elsewhere(p)
<1> USE DEF Elsewhere, Own, Shaped, GuardedKinds, Keepers, Guarded
<1>1. CASE BeginChecks(p)
  BY <1>1 DEF BeginChecks, At, Read
<1>2. CASE FindZone(p)
  <2>1. PICK z : ShareZone(p, z)
    BY <1>2 DEF FindZone
  <2> QED BY <1>2, <2>1, RowLockingOne DEF FindZone, At, Registering, Read, ShareZone
<1>3. CASE Check(p)
  BY <1>3 DEF Check, At, Registering, Read
<1>4. CASE CheckRegistrar(p)
  <2>1. PICK r : locks' = [locks EXCEPT ![p] = @ \cup {RowLock("registrar", r)}]
    BY <1>4 DEF CheckRegistrar
  <2> QED BY <1>4, <2>1, RowLockingOne DEF CheckRegistrar, At, Registering, Read
<1>5. CASE CreateDomain(p)
  BY <1>5 DEF CreateDomain, At, Registering, Written, Row
<1> QED
  BY <1>1, <1>2, <1>3, <1>4, <1>5 DEF Register

LEMMA VerifyElsewhere ==
    ASSUME Shaped, NEW p \in Process, Verify(p)
    PROVE  Elsewhere(p)
<1> USE DEF Elsewhere, Own, Shaped, GuardedKinds, Keepers, Guarded
<1>1. CASE CreateContactCheck(p)
  BY <1>1 DEF CreateContactCheck, At, Written, Row
<1>2. CASE CreateContactTest(p)
  BY <1>2 DEF CreateContactTest, At, Written, Row
<1>3. CASE UpdateContactCheck(p)
  BY <1>3 DEF UpdateContactCheck, At, Written, Row, ChangeState, UpdateColumns
<1>4. CASE UpdateContactTest(p)
  BY <1>4 DEF UpdateContactTest, At, Written, Row, ChangeState, UpdateColumns
<1>5. CASE ReadCheck(p)
  BY <1>5 DEF ReadCheck, At, Read
<1>6. CASE ReadTests(p)
  BY <1>6 DEF ReadTests, At, Read
<1>7. CASE ReadPastOfTests(p)
  BY <1>7 DEF ReadPastOfTests, At, Read
<1>8. CASE ReadPastOfCheck(p)
  BY <1>8 DEF ReadPastOfCheck, At, Written, Row
<1>9. CASE ListContactChecks(p)
  BY <1>9 DEF ListContactChecks, At, Read
<1>10. CASE FindFinishTimes(p)
  BY <1>10 DEF FindFinishTimes, At, Written, Row
<1> QED
  BY <1>1, <1>2, <1>3, <1>4, <1>5, <1>6, <1>7, <1>8, <1>9, <1>10 DEF Verify

-----------------------------------------------------------------------------
(* Locks of whole tables                                                   *)

LEMMA KeptLock ==
    ASSUME NEW p \in Process, Own(p), NEW table, NEW modes, HoldsLock(p, table, modes)
    PROVE  HoldsLock(p, table, modes)'
  BY DEF Own, HoldsLock

LEMMA TakenLock ==
    ASSUME Shaped, NEW p \in Process, NEW table, NEW mode, NEW modes,
           Acquire(p, table, mode), mode \in modes
    PROVE  HoldsLock(p, table, modes)'
<1> DEFINE lock == TableLock(table, mode)
<1>1. lock \in locks'[p]
  BY Acquiring
<1>2. lock.table = table /\ lock.mode = mode
  BY DEF TableLock
<1> QED BY <1>1, <1>2 DEF HoldsLock

LEMMA OwnApart ==
    ASSUME LocksApart, NEW p \in Process, Own(p)
    PROVE  LocksApart'
<1> SUFFICES ASSUME NEW q \in Process, NEW r \in Process, q # r,
                    NEW l \in locks'[q], NEW m \in locks'[r],
                    l.table = m.table, l.table \in Guarded
             PROVE  ~Conflicts(l.mode, m.mode)
  BY DEF LocksApart, Conflicts
<1>1. \A a, b : Conflicts(a, b) <=> Conflicts(b, a)
  BY DEF Conflicts
<1>2. CASE l \in locks[q] /\ m \in locks[r]
  BY <1>2 DEF LocksApart
<1>3. CASE l \notin locks[q]
  <2>1. q = p /\ m \in locks[r] /\ Granted(p, l.table, l.mode)
    BY <1>3 DEF Own
  <2> QED BY <2>1, <1>1 DEF Granted
<1>4. CASE m \notin locks[r]
  <2>1. r = p /\ l \in locks[q] /\ Granted(p, m.table, m.mode)
    BY <1>4 DEF Own
  <2> QED BY <2>1 DEF Granted
<1> QED BY <1>2, <1>3, <1>4

(* Who keeps a table is the only one to write it.                          *)
LEMMA OnlyWriter ==
    ASSUME Base, NEW p \in Process, NEW q \in Process \ {p}, NEW table \in Guarded, NEW modes,
           modes \subseteq {"exclusive", "access exclusive"}, HoldsLock(p, table, modes),
           NEW c \in draft[q]
    PROVE  c.table # table
<1> SUFFICES ASSUME c.table = table PROVE FALSE
  OBVIOUS
<1>1. stage[q] # "idle"
  BY DEF Base, Engaged
<1>2. PICK m \in locks[q] : m.table = table /\ m.mode \in WriteModes
  BY <1>1 DEF Base, OnCourse, WritersHold, HoldsLock
<1>3. PICK l \in locks[p] : l.table = table /\ l.mode \in modes
  BY DEF HoldsLock
<1>4. Conflicts(l.mode, m.mode)
  BY <1>2, <1>3 DEF Conflicts, WriteModes
<1> QED BY <1>2, <1>3, <1>4 DEF Base, LocksApart

(* Nobody else has a table that somebody keeps from all others.            *)
LEMMA OnlyHolder ==
    ASSUME Base, NEW p \in Process, NEW q \in Process \ {p}, NEW table \in Guarded, NEW modes,
           HoldsLock(p, table, {"access exclusive"})
    PROVE  ~HoldsLock(q, table, modes)
<1> SUFFICES ASSUME NEW m \in locks[q], m.table = table PROVE FALSE
  BY DEF HoldsLock
<1>1. PICK l \in locks[p] : l.table = table /\ l.mode = "access exclusive"
  BY DEF HoldsLock
<1>2. Conflicts(l.mode, m.mode)
  BY <1>1 DEF Conflicts
<1> QED BY <1>1, <1>2 DEF Base, LocksApart

(* Others go on as they did.                                               *)
LEMMA OthersStay ==
    ASSUME Base, NEW p \in Process, Own(p), OnCourse(p)'
    PROVE  Base'
<1>1. LocksApart'
  BY OwnApart DEF Base
<1>2. ASSUME NEW q \in Process PROVE Engaged(q)'
  BY DEF Base, Engaged, Own
<1>3. ASSUME NEW q \in Process \ {p}, stage'[q] # "idle" PROVE OnCourse(q)'
  <2>1. OnCourse(q) /\ call' = call
    BY <1>3 DEF Base, Own
  <2>2. stage'[q] = stage[q] /\ draft'[q] = draft[q] /\ locks'[q] = locks[q]
    BY DEF Own
  <2>3. \A table, modes : HoldsLock(q, table, modes)' <=> HoldsLock(q, table, modes)
    BY <2>2 DEF HoldsLock
  <2>4. DraftLast(q)' /\ stage'[q] # "failed"
    BY <2>1, <2>2 DEF OnCourse, DraftLast
  <2>5. WritersHold(q)'
    BY <2>1, <2>2, <2>3 DEF OnCourse, WritersHold
  <2>6. LocksKept(q)'
    BY <2>1, <2>2, <2>3 DEF OnCourse, LocksKept
  <2> QED BY <2>4, <2>5, <2>6 DEF OnCourse
<1> QED BY <1>1, <1>2, <1>3 DEF Base, Own

-----------------------------------------------------------------------------
(* The base is inductive.                                                  *)

LEMMA ElsewhereBase ==
    ASSUME Base, NEW p \in Process, Elsewhere(p)
    PROVE  Base'
<1>1. Own(p) /\ OnCourse(p) /\ call' = call
  BY DEF Base, Elsewhere, Own
<1>2. DraftLast(p)' /\ stage'[p] # "failed"
  BY <1>1 DEF OnCourse, DraftLast, Elsewhere, GuardedKinds
<1>3. WritersHold(p)'
  BY <1>1, KeptLock DEF OnCourse, WritersHold, Elsewhere
<1>4. LocksKept(p)'
  BY <1>1 DEF Elsewhere, LocksKept, GuardedKinds, Keepers
<1> QED BY <1>1, <1>2, <1>3, <1>4, OthersStay DEF OnCourse

(* What p has before it writes is empty.                                   *)
LEMMA NothingYet ==
    ASSUME Base, NEW p \in Process, stage[p] \notin {"idle", "written"}, call[p].kind # "charge"
    PROVE  draft[p] = {}
  BY DEF Base, OnCourse, DraftLast

(* A statement that locks a table and writes nothing                       *)
LEMMA LockingBase ==
    ASSUME Base, NEW p \in Process, Own(p), NEW table, NEW mode,
           Acquire(p, table, mode), draft' = draft, draft[p] = {}, stage'[p] # "failed",
           call[p].kind \in Keepers /\ stage'[p] \in {"locked", "written"} =>
               Keeps(call[p].kind) = table /\ mode = "access exclusive",
           call[p].kind = "endMembership" /\ stage'[p] \in {"found", "written"} =>
               table = "registrar_group_map" /\ mode = "access share",
           call[p].kind = "charge" /\ stage'[p] = "locked" =>
               table = "registrar_credit" /\ mode = "exclusive"
    PROVE  Base'
<1>1. Shaped /\ call' = call
  BY DEF Base, Own
<1>2. HoldsLock(p, table, {mode})'
  BY <1>1, TakenLock
<1>3. LocksKept(p)'
  BY <1>1, <1>2 DEF LocksKept
<1>4. DraftLast(p)' /\ WritersHold(p)'
  BY DEF DraftLast, WritersHold
<1> QED BY <1>3, <1>4, OthersStay DEF OnCourse

(* A statement that writes one of the guarded tables, which it may lock    *)
LEMMA WritingBase ==
    ASSUME Base, NEW p \in Process, Own(p), stage[p] # "written", NEW table \in Guarded,
           stage'[p] = "written", call[p].kind \in WritersOf(table),
           \A c \in draft'[p] : c.table = table,
           HoldsLock(p, table, WriteModes)',
           call[p].kind \in Keepers => stage[p] = "locked",
           call[p].kind = "endMembership" => stage[p] = "found"
    PROVE  Base'
<1>1. Shaped /\ call' = call /\ OnCourse(p)
  BY DEF Base, Own
<1>2. \A t, modes : HoldsLock(p, t, modes) => HoldsLock(p, t, modes)'
  BY KeptLock
<1>3. LocksKept(p)'
  BY <1>1, <1>2 DEF LocksKept, OnCourse
<1>4. DraftLast(p)' /\ WritersHold(p)'
  BY <1>1 DEF DraftLast, WritersHold
<1> QED BY <1>3, <1>4, OthersStay DEF OnCourse

LEMMA Writing ==
    ASSUME Shaped, NEW p \in Process, NEW changes, Written(p, changes)
    PROVE  draft'[p] = changes /\ stage'[p] = "written"
  BY DEF Written, Shaped

LEMMA WritingRow ==
    ASSUME Shaped, NEW p \in Process, NEW table, NEW id, NEW row, Written(p, {Row(table, id, row)})
    PROVE  \A c \in draft'[p] : c.table = table /\ c.id = id /\ c.row = row
  BY Writing DEF Row

LEMMA CancelWrites ==
    ASSUME Shaped, NEW p \in Process, CancelRegistrarGroup(p)
    PROVE  \A c \in draft'[p] : c.table = "registrar_group"
<1>1. PICK id, row : Written(p, {Row("registrar_group", id, row)})
  BY DEF CancelRegistrarGroup
<1>2. draft'[p] = {Row("registrar_group", id, row)}
  BY <1>1, Writing
<1> QED BY <1>2 DEF Row

LEMMA ZoneAccessBase ==
    ASSUME Base, NEW p \in Process, ZoneAccess(p)
    PROVE  Base'
<1> USE DEF Keepers, Keeps, Guarded, WritersOf, WriteModes
<1>1. Own(p) /\ Shaped /\ OnCourse(p)
  BY ZoneAccessOwn DEF Base, Own
<1>2. CASE LockRegistrarinvoice(p)
  BY <1>1, <1>2, LockingBase, NothingYet DEF LockRegistrarinvoice, Lock, Passed, Shaped
<1>3. CASE AddRegistrarZoneAccess(p)
  <2>1. HoldsLock(p, "registrarinvoice", {"access exclusive"})
    BY <1>1, <1>3 DEF AddRegistrarZoneAccess, At, OnCourse, LocksKept
  <2>2. HoldsLock(p, "registrarinvoice", WriteModes)
    BY <2>1 DEF HoldsLock
  <2>3. \A c \in draft'[p] : c.table = "registrarinvoice"
    BY <1>1, <1>3, WritingRow DEF AddRegistrarZoneAccess
  <2> QED BY <1>1, <1>3, <2>2, <2>3, KeptLock, WritingBase DEF AddRegistrarZoneAccess, At, Written, Shaped
<1>4. CASE UpdateRegistrarZoneAccess(p)
  <2>1. \A c \in draft'[p] : c.table = "registrarinvoice"
    <3>1. PICK row : Written(p, {Row("registrarinvoice", call[p].id, row)})
      BY <1>4 DEF UpdateRegistrarZoneAccess
    <3> QED BY <1>1, <3>1, WritingRow
  <2>2. HoldsLock(p, "registrarinvoice", WriteModes)'
    BY <1>1, <1>4, TakenLock DEF UpdateRegistrarZoneAccess
  <2> QED BY <1>1, <1>4, <2>1, <2>2, WritingBase DEF UpdateRegistrarZoneAccess, At, Written, Shaped
<1>5. CASE DeleteRegistrarZoneAccess(p)
  <2>1. \A c \in draft'[p] : c.table = "registrarinvoice"
    BY <1>1, <1>5, WritingRow DEF DeleteRegistrarZoneAccess
  <2>2. HoldsLock(p, "registrarinvoice", WriteModes)'
    BY <1>1, <1>5, TakenLock DEF DeleteRegistrarZoneAccess
  <2> QED BY <1>1, <1>5, <2>1, <2>2, WritingBase DEF DeleteRegistrarZoneAccess, At, Written, Shaped
<1> QED BY <1>2, <1>3, <1>4, <1>5 DEF ZoneAccess

TruncatedRows(from) ==
    {Row("registrar_certification", i, Period(db["registrar_certification"][i].from, from - 1)) :
        i \in Truncated(from)}

NewCertification(p, i) == Row("registrar_certification", i, Period(call[p].from, call[p].to))

LEMMA CertificationIsWritten ==
    ASSUME NEW p \in Process, CreateRegistrarCertification(p)
    PROVE  \E i \in NewIds("registrar_certification") :
               Written(p, TruncatedRows(call[p].from) \cup {NewCertification(p, i)})
  BY DEF CreateRegistrarCertification, TruncatedRows, NewCertification

LEMMA CertificationBase ==
    ASSUME Base, NEW p \in Process, Certification(p)
    PROVE  Base'
<1> USE DEF Keepers, Keeps, Guarded, WritersOf, WriteModes
<1>1. Own(p) /\ Shaped /\ OnCourse(p)
  BY CertificationOwn DEF Base, Own
<1>2. CASE LockRegistrarCertification(p)
  BY <1>1, <1>2, LockingBase, NothingYet DEF LockRegistrarCertification, Lock, Passed, Shaped
<1>3. CASE CreateRegistrarCertification(p)
  <2>1. HoldsLock(p, "registrar_certification", {"access exclusive"})
    BY <1>1, <1>3 DEF CreateRegistrarCertification, At, OnCourse, LocksKept
  <2>2. HoldsLock(p, "registrar_certification", WriteModes)
    BY <2>1 DEF HoldsLock
  <2>3. \A c \in draft'[p] : c.table = "registrar_certification"
    <3>1. PICK i : Written(p, TruncatedRows(call[p].from) \cup {NewCertification(p, i)})
      BY <1>3, CertificationIsWritten
    <3>2. \A c \in TruncatedRows(call[p].from) : c.table = "registrar_certification"
      BY DEF TruncatedRows, Row
    <3>3. NewCertification(p, i).table = "registrar_certification"
      BY DEF NewCertification, Row
    <3> QED BY <1>1, <3>1, <3>2, <3>3, Writing
  <2> QED
    BY <1>1, <1>3, <2>2, <2>3, KeptLock, WritingBase DEF CreateRegistrarCertification, At, Written, Shaped
<1>4. CASE UpdateRegistrarCertification(p)
  <2>1. \A c \in draft'[p] : c.table = "registrar_certification"
    <3>1. PICK row : Written(p, {Row("registrar_certification", call[p].id, row)})
      BY <1>4 DEF UpdateRegistrarCertification
    <3> QED BY <1>1, <3>1, WritingRow
  <2>2. HoldsLock(p, "registrar_certification", WriteModes)'
    BY <1>1, <1>4, TakenLock DEF UpdateRegistrarCertification
  <2> QED BY <1>1, <1>4, <2>1, <2>2, WritingBase DEF UpdateRegistrarCertification, At, Written, Shaped
<1>5. CASE DeleteRegistrarCertification(p)
  <2>1. \A c \in draft'[p] : c.table = "registrar_certification"
    BY <1>1, <1>5, WritingRow DEF DeleteRegistrarCertification
  <2>2. HoldsLock(p, "registrar_certification", WriteModes)'
    BY <1>1, <1>5, TakenLock DEF DeleteRegistrarCertification
  <2> QED BY <1>1, <1>5, <2>1, <2>2, WritingBase DEF DeleteRegistrarCertification, At, Written, Shaped
<1> QED BY <1>2, <1>3, <1>4, <1>5 DEF Certification

(* A statement that writes a table which is not guarded                    *)
LEMMA UnguardedBase ==
    ASSUME Base, NEW p \in Process, Own(p), stage'[p] = "written",
           \A c \in draft'[p] : c.table \notin Guarded,
           \/ call[p].kind = "cancelGroup" /\ stage[p] = "locked"
           \/ call[p].kind \in {"createGroup", "updateGroup"}
    PROVE  Base'
<1>1. Shaped /\ call' = call /\ OnCourse(p)
  BY DEF Base, Own
<1>2. \A t, modes : HoldsLock(p, t, modes) => HoldsLock(p, t, modes)'
  BY KeptLock
<1>3. LocksKept(p)'
  BY <1>1, <1>2 DEF LocksKept, OnCourse, Keepers
<1>4. DraftLast(p)' /\ WritersHold(p)'
  BY <1>1 DEF DraftLast, WritersHold
<1> QED BY <1>3, <1>4, OthersStay DEF OnCourse

NewMembership(p, i) ==
    Row("registrar_group_map", i, Membership(call[p].id, call[p].from, call[p].to))

EndedMemberships(p, last) ==
    {Row("registrar_group_map", j, [db["registrar_group_map"][j] EXCEPT !.to = call[p].from]) :
        j \in EndedFor(last, call[p].from)}

LEMMA MembershipIsWritten ==
    ASSUME NEW p \in Process, CreateRegistrarGroupMembership(p)
    PROVE  \E last \in {{i} : i \in LastMemberships(call[p].id)}
                         \cup (IF MembershipsIn(call[p].id) = {} THEN {{}} ELSE {}) :
           \E i \in NewIds("registrar_group_map") :
              /\ \A j \in EndedFor(last, call[p].from) : db["registrar_group_map"][j].to = None
              /\ Written(p, {NewMembership(p, i)} \cup EndedMemberships(p, last))
  BY DEF CreateRegistrarGroupMembership, NewMembership, EndedMemberships

FoundRows(p) ==
    {Row("registrar_group_map", i, [db["registrar_group_map"][i] EXCEPT !.to = day[p]]) : i \in Found(p)}

LEMMA GroupBase ==
    ASSUME Base, NEW p \in Process, Group(p)
    PROVE  Base'
<1> USE DEF Keepers, Keeps, Guarded, WritersOf, WriteModes
<1>1. Own(p) /\ Shaped /\ OnCourse(p)
  BY GroupOwn DEF Base, Own
<1>2. CASE LockRegistrarGroup(p)
  BY <1>1, <1>2, LockingBase, NothingYet DEF LockRegistrarGroup, Lock, Passed, Shaped
<1>3. CASE CreateRegistrarGroup(p)
  BY <1>1, <1>3, UnguardedBase DEF CreateRegistrarGroup, At, Written, Row, Shaped
<1>4. CASE UpdateRegistrarGroup(p)
  BY <1>1, <1>4, UnguardedBase DEF UpdateRegistrarGroup, At, Written, Row, Shaped
<1>5. CASE CheckNotCancelled(p)
  BY <1>1, <1>5, LockingBase, NothingYet DEF CheckNotCancelled, At, Passed, Shaped
<1>6. CASE LockMembers(p)
  BY <1>1, <1>6, LockingBase, NothingYet DEF LockMembers, At, Passed, Shaped
<1>7. CASE CancelRegistrarGroup(p)
  <2>1. \A c \in draft'[p] : c.table = "registrar_group"
    BY <1>1, <1>7, CancelWrites
  <2> QED BY <1>1, <1>7, <2>1, Writing, UnguardedBase DEF CancelRegistrarGroup, At
<1>8. CASE LockRegistrarGroupMap(p)
  BY <1>1, <1>8, LockingBase, NothingYet DEF LockRegistrarGroupMap, Lock, Passed, Shaped
<1>9. CASE CreateRegistrarGroupMembership(p)
  <2>1. HoldsLock(p, "registrar_group_map", {"access exclusive"})
    BY <1>1, <1>9 DEF CreateRegistrarGroupMembership, At, OnCourse, LocksKept
  <2>2. HoldsLock(p, "registrar_group_map", WriteModes)
    BY <2>1 DEF HoldsLock
  <2>3. \A c \in draft'[p] : c.table = "registrar_group_map"
    <3>1. PICK i, last :
             Written(p, {NewMembership(p, i)} \cup EndedMemberships(p, last))
      BY <1>9, MembershipIsWritten
    <3>2. \A c \in EndedMemberships(p, last) : c.table = "registrar_group_map"
      BY DEF EndedMemberships, Row
    <3>3. NewMembership(p, i).table = "registrar_group_map"
      BY DEF NewMembership, Row
    <3> QED BY <1>1, <3>1, <3>2, <3>3, Writing
  <2> QED
    BY <1>1, <1>9, <2>2, <2>3, KeptLock, WritingBase DEF CreateRegistrarGroupMembership, At, Written, Shaped
<1>10. CASE FindMembership(p)
  BY <1>1, <1>10, LockingBase, NothingYet DEF FindMembership, At, Shaped
<1>11. CASE EndRegistrarGroupMembership(p)
  <2>1. \A c \in draft'[p] : c.table = "registrar_group_map"
    <3>1. Written(p, FoundRows(p))
      BY <1>11 DEF EndRegistrarGroupMembership, FoundRows, Found
    <3> QED BY <1>1, <3>1, Writing DEF FoundRows, Row
  <2>2. HoldsLock(p, "registrar_group_map", WriteModes)'
    BY <1>1, <1>11, TakenLock DEF EndRegistrarGroupMembership
  <2> QED BY <1>1, <1>11, <2>1, <2>2, WritingBase DEF EndRegistrarGroupMembership, At, Written, Shaped
<1> QED
  BY <1>2, <1>3, <1>4, <1>5, <1>6, <1>7, <1>8, <1>9, <1>10, <1>11 DEF Group

(* The first row of the credit is written by whoever locks the table, and  *)
(* nobody else is writing one.                                             *)
LEMMA NobodyElseCharges ==
    ASSUME Base, NEW p \in Process, InsertCredit(p)
    PROVE  Drafted("registrar_credit") = {}
<1>1. stage[p] = "locked" /\ call[p].kind = "charge"
  BY DEF InsertCredit, At
<1>2. OnCourse(p)
  BY <1>1 DEF Base
<1>3. draft[p] = {}
  BY <1>1, <1>2 DEF OnCourse, DraftLast
<1>4. HoldsLock(p, "registrar_credit", {"exclusive"})
  BY <1>1, <1>2 DEF OnCourse, LocksKept
<1>5. \A q \in Process \ {p} : \A c \in draft[q] : c.table # "registrar_credit"
  BY <1>4, OnlyWriter DEF Guarded
<1> QED BY <1>3, <1>5 DEF Drafted

LEMMA CreditBase ==
    ASSUME Base, NEW p \in Process, Credit(p)
    PROVE  Base'
<1> USE DEF Keepers, Keeps, Guarded, WritersOf, WriteModes
<1>1. Own(p) /\ Shaped /\ OnCourse(p) /\ call' = call
  BY CreditOwn DEF Base, Own
<1>2. CASE FindCredit(p)
  <2>1. draft[p] = {}
    BY <1>1, <1>2 DEF FindCredit, At, OnCourse, DraftLast
  <2> QED BY <1>1, <1>2, <2>1, LockingBase DEF FindCredit, At, Passed, Shaped
<1>3. CASE LockCredit(p)
  <2>1. draft[p] = {}
    BY <1>1, <1>3 DEF LockCredit, At, OnCourse, DraftLast
  <2> QED BY <1>1, <1>3, <2>1, LockingBase DEF LockCredit, At, Passed, Shaped
<1>4. CASE InsertCredit(p)
  <2>1. Drafted("registrar_credit") = {}
    BY <1>4, NobodyElseCharges
  <2>2. stage'[p] = "checked" /\ call[p].kind = "charge" /\ stage[p] = "locked"
    BY <1>1, <1>4, <2>1 DEF InsertCredit, At, Shaped
  <2>3. \A c \in draft'[p] : c.table = "registrar_credit"
    BY <1>1, <1>4 DEF InsertCredit, Row, Shaped
  <2>4. HoldsLock(p, "registrar_credit", {"exclusive"})
    BY <1>1, <2>2 DEF OnCourse, LocksKept
  <2>5. HoldsLock(p, "registrar_credit", WriteModes)'
    BY <1>1, <2>4 DEF HoldsLock, Own
  <2>6. WritersHold(p)'
    <3>1. ASSUME NEW c \in draft'[p]
          PROVE  call'[p].kind \in WritersOf(c.table) /\ HoldsLock(p, c.table, WriteModes)'
      <4>1. c.table = "registrar_credit" /\ call'[p].kind = "charge"
        BY <1>1, <2>2, <2>3
      <4>2. PICK l \in locks'[p] : l.table = c.table /\ l.mode \in WriteModes
        BY <2>5, <4>1 DEF HoldsLock
      <4> QED BY <4>1, <4>2 DEF HoldsLock
    <3> QED BY <3>1 DEF WritersHold
  <2>7. DraftLast(p)' /\ LocksKept(p)'
    BY <1>1, <2>2 DEF DraftLast, LocksKept
  <2> QED BY <1>1, <2>2, <2>6, <2>7, OthersStay DEF OnCourse
<1>5. CASE CreateRegistrarCreditTransaction(p)
  <2>1. call[p].kind = "charge" /\ draft'[p] = draft[p] /\ stage'[p] = "written"
    BY <1>1, <1>5, Writing DEF CreateRegistrarCreditTransaction, At
  <2>2. WritersHold(p) /\ locks[p] \subseteq locks'[p]
    BY <1>1 DEF OnCourse, Own
  <2> HIDE DEF Keepers, Keeps, Guarded, WritersOf, WriteModes
  <2>4. WritersHold(p)'
    BY <1>1, <2>1, <2>2 DEF WritersHold, HoldsLock
  <2>5. DraftLast(p)' /\ LocksKept(p)'
    BY <1>1, <2>1 DEF DraftLast, LocksKept, Keepers
  <2> QED BY <1>1, <2>1, <2>4, <2>5, OthersStay DEF OnCourse
<1> QED BY <1>2, <1>3, <1>4, <1>5 DEF Credit

-----------------------------------------------------------------------------
(* Beginnings and ends                                                     *)

(* What others have stays as it was.                                       *)
OnlyOf(p) ==
    \A q \in Process \ {p} :
        /\ call'[q] = call[q] /\ stage'[q] = stage[q] /\ day'[q] = day[q]
        /\ draft'[q] = draft[q] /\ seen'[q] = seen[q] /\ locks'[q] = locks[q]

LEMMA BeginFacts ==
    ASSUME Shaped, NEW p \in Process, Begin(p)
    PROVE  /\ OnlyOf(p) /\ Shaped' /\ db' = db /\ workload' = workload
           /\ stage[p] = "idle" /\ stage'[p] = "begun" /\ call'[p] \in Workloads[workload]
           /\ day'[p] = today /\ draft' = draft /\ locks' = locks
<1>1. PICK c \in Workloads[workload] : call' = [call EXCEPT ![p] = c]
  BY DEF Begin
<1> QED BY <1>1 DEF Begin, OnlyOf, Shaped

LEMMA EndFacts ==
    ASSUME Shaped, NEW p \in Process, End(p), DOMAIN db' = Tables, \A t \in Tables : DOMAIN db'[t] = Ids
    PROVE  /\ OnlyOf(p) /\ Shaped' /\ today' = today /\ workload' = workload
           /\ stage'[p] = "idle" /\ call'[p] = None /\ day'[p] = 0 /\ draft'[p] = {} /\ locks'[p] = {}
  BY DEF End, OnlyOf, Shaped

(* What is committed is what p has written.                                *)
LEMMA CommitFacts ==
    ASSUME Base, NEW p \in Process, Commit(p)
    PROVE  /\ stage[p] = "written" /\ End(p) /\ DOMAIN db' = Tables
           /\ \A t \in Tables : db'[t] = Applied(db[t], t, draft[p]) /\ DOMAIN db'[t] = Ids
  BY DEF Commit, Applied

LEMMA OthersOnCourse ==
    ASSUME NEW p \in Process, OnlyOf(p), NEW q \in Process \ {p}
    PROVE  /\ Engaged(q) /\ workload' = workload => Engaged(q)'
           /\ OnCourse(q) => OnCourse(q)'
<1>1. /\ call'[q] = call[q] /\ stage'[q] = stage[q] /\ day'[q] = day[q]
      /\ draft'[q] = draft[q] /\ locks'[q] = locks[q]
  BY DEF OnlyOf
<1>2. \A table, modes : HoldsLock(q, table, modes)' <=> HoldsLock(q, table, modes)
  BY <1>1 DEF HoldsLock
<1>3. Engaged(q) /\ workload' = workload => Engaged(q)'
  BY <1>1 DEF Engaged
<1>4. OnCourse(q) => DraftLast(q)' /\ stage'[q] # "failed"
  BY <1>1 DEF OnCourse, DraftLast
<1>5. OnCourse(q) => WritersHold(q)'
  BY <1>1, <1>2 DEF OnCourse, WritersHold
<1>6. OnCourse(q) => LocksKept(q)'
  BY <1>1, <1>2 DEF OnCourse, LocksKept
<1> QED BY <1>3, <1>4, <1>5, <1>6 DEF OnCourse

LEMMA BeginBase ==
    ASSUME Base, NEW p \in Process, Begin(p)
    PROVE  Base'
<1>1. /\ OnlyOf(p) /\ Shaped' /\ workload' = workload /\ stage[p] = "idle" /\ stage'[p] = "begun"
      /\ call'[p] \in Workloads[workload] /\ day'[p] = today /\ draft' = draft /\ locks' = locks
  BY BeginFacts DEF Base
<1>2. draft[p] = {} /\ locks[p] = {} /\ today \in Nat
  BY <1>1 DEF Base, Engaged, Shaped
<1>3. Engaged(p)'
  BY <1>1, <1>2 DEF Engaged
<1>4. OnCourse(p)'
  BY <1>1, <1>2 DEF OnCourse, DraftLast, WritersHold, LocksKept
<1>5. LocksApart'
  BY <1>1 DEF Base, LocksApart
<1>6. ASSUME NEW q \in Process \ {p} PROVE Engaged(q)' /\ (stage'[q] # "idle" => OnCourse(q)')
  <2>1. stage'[q] = stage[q]
    BY <1>1 DEF OnlyOf
  <2> QED BY <1>1, <2>1, OthersOnCourse DEF Base
<1> QED BY <1>1, <1>3, <1>4, <1>5, <1>6 DEF Base

LEMMA EndBase ==
    ASSUME Base, NEW p \in Process, End(p), DOMAIN db' = Tables, \A t \in Tables : DOMAIN db'[t] = Ids
    PROVE  Base'
<1>1. /\ OnlyOf(p) /\ Shaped' /\ workload' = workload /\ stage'[p] = "idle" /\ call'[p] = None
      /\ day'[p] = 0 /\ draft'[p] = {} /\ locks'[p] = {}
  BY EndFacts DEF Base
<1>2. Engaged(p)'
  BY <1>1 DEF Engaged
<1>3. LocksApart'
  BY <1>1 DEF Base, LocksApart, OnlyOf
<1>4. ASSUME NEW q \in Process \ {p} PROVE Engaged(q)' /\ (stage'[q] # "idle" => OnCourse(q)')
  <2>1. stage'[q] = stage[q]
    BY <1>1 DEF OnlyOf
  <2> QED BY <1>1, <2>1, OthersOnCourse DEF Base
<1> QED BY <1>1, <1>2, <1>3, <1>4 DEF Base

LEMMA IdleBase ==
    ASSUME Base, db' = db, UNCHANGED <<workload, call, stage, day, draft, seen, locks>>, today' \in Nat
    PROVE  Base'
<1>1. Shaped' /\ LocksApart'
  BY DEF Base, Shaped, LocksApart
<1>2. ASSUME NEW q \in Process PROVE Engaged(q)' /\ (stage'[q] # "idle" => OnCourse(q)')
  BY DEF Base, Engaged, OnCourse, DraftLast, WritersHold, LocksKept, HoldsLock
<1> QED BY <1>1, <1>2 DEF Base

LEMMA InitBase == Init => Base
<1> SUFFICES ASSUME Init PROVE Base
  OBVIOUS
<1>1. Shaped /\ LocksApart
  BY StartIsStored DEF Init, Shaped, LocksApart, Tables
<1> QED BY <1>1 DEF Init, Base, Engaged

-----------------------------------------------------------------------------
(* Tables with what has been written to them                               *)

LEMMA AppliedIs ==
    ASSUME NEW rows, NEW table, NEW changes, NEW i \in Ids
    PROVE  \/ /\ Applied(rows, table, changes)[i] = rows[i]
              /\ \A c \in changes : ~(c.table = table /\ c.id = i)
           \/ \E c \in changes : c.table = table /\ c.id = i /\ Applied(rows, table, changes)[i] = c.row
<1>1. CASE \E c \in changes : c.table = table /\ c.id = i
  <2> DEFINE c == CHOOSE d \in changes : d.table = table /\ d.id = i
  <2>1. c \in changes /\ c.table = table /\ c.id = i
    BY <1>1
  <2>2. Applied(rows, table, changes)[i] = c.row
    BY <1>1 DEF Applied
  <2> HIDE DEF c
  <2> QED BY <2>1, <2>2
<1>2. CASE ~\E c \in changes : c.table = table /\ c.id = i
  BY <1>2 DEF Applied
<1> QED BY <1>1, <1>2

(* A table that p has not written is not changed by its commit.            *)
LEMMA Untouched ==
    ASSUME Base, NEW p \in Process, Commit(p), NEW table \in Tables, \A c \in draft[p] : c.table # table
    PROVE  \A i \in Ids : db'[table][i] = db[table][i]
<1>1. db'[table] = Applied(db[table], table, draft[p])
  BY CommitFacts
<1> QED BY <1>1, AppliedIs

LEMMA CommittedRows ==
    ASSUME Base, NEW p \in Process, Commit(p), NEW table \in Tables, NEW i \in Ids
    PROVE  \/ /\ db'[table][i] = db[table][i]
              /\ \A c \in draft[p] : ~(c.table = table /\ c.id = i)
           \/ \E c \in draft[p] : c.table = table /\ c.id = i /\ db'[table][i] = c.row
<1>1. db'[table] = Applied(db[table], table, draft[p])
  BY CommitFacts
<1> QED BY <1>1, AppliedIs

LEMMA CommittedTyped ==
    ASSUME Base, NEW p \in Process, Commit(p), NEW table \in Tables, NEW S, RowsTyped(table, S)
    PROVE  RowsTyped(table, S)'
<1>1. ASSUME NEW i \in Ids PROVE db'[table][i] \in S \cup {None}
  BY CommittedRows DEF RowsTyped
<1>2. ASSUME NEW q \in Process, NEW c \in draft'[q], c.table = table PROVE c.row \in S \cup {None}
  <2>1. draft'[p] = {} /\ OnlyOf(p)
    BY CommitFacts, EndFacts DEF Base
  <2>2. c \in draft[q]
    BY <2>1 DEF OnlyOf
  <2> QED BY <1>2, <2>2 DEF RowsTyped
<1> QED BY <1>1, <1>2 DEF RowsTyped

LEMMA OwnTyped ==
    ASSUME NEW p \in Process, Own(p), NEW table, NEW S, RowsTyped(table, S),
           \A c \in draft'[p] : c.table = table => c \in draft[p] \/ c.row \in S \cup {None}
    PROVE  RowsTyped(table, S)'
<1>1. ASSUME NEW q \in Process, NEW c \in draft'[q], c.table = table PROVE c.row \in S \cup {None}
  BY <1>1 DEF RowsTyped, Own
<1> QED BY <1>1 DEF RowsTyped, Own

(* With one row written that overlaps no other one, or none                *)
LEMMA FittingRow ==
    ASSUME NEW rows, NEW table, NEW changes, NEW id, NEW new,
           \A c \in changes : c.table = table => c.id = id /\ c.row = new,
           \A j \in Ids \ {id} : rows[j] # None => ~Overlap(rows[j], new)
    PROVE  NoNewOverlap(rows, Applied(rows, table, changes))
<1> DEFINE after == Applied(rows, table, changes)
<1>1. \A i \in Ids : after[i] = rows[i] \/ (i = id /\ after[i] = new)
  BY AppliedIs
<1>2. \A a, b : Overlap(a, b) <=> Overlap(b, a)
  BY DEF Overlap
<1> HIDE DEF after
<1>3. NoNewOverlap(rows, after)
  BY <1>1, <1>2 DEF NoNewOverlap, OverlapAt
<1> QED BY <1>3 DEF after

-----------------------------------------------------------------------------
(* Periods                                                                 *)

Certifications == db["registrar_certification"]

(* What a creation makes of each certification                             *)
Recertified(i, id, new, after) ==
    \/ i \notin Truncated(new.from) /\ i # id /\ after = Certifications[i]
    \/ i \in Truncated(new.from) /\ i # id /\ after = Period(Certifications[i].from, new.from - 1)
    \/ i = id /\ after = new /\ Certifications[i] = None

LEMMA RecertifiedApart ==
    ASSUME RowsTyped("registrar_certification", PeriodRow), NEW new \in PeriodRow, NoneLater(new.from),
           NEW i \in Ids, NEW j \in Ids, i # j, NEW id, NEW a, NEW b,
           Recertified(i, id, new, a), Recertified(j, id, new, b), a # None, b # None, Overlap(a, b)
    PROVE  OverlapAt(Certifications, i, j)
<1> DEFINE x == Certifications[i]
           y == Certifications[j]
<1>1. x \in PeriodRow \cup {None} /\ y \in PeriodRow \cup {None} /\ None \notin Nat
  BY NoneIsNoRow DEF RowsTyped, Certifications
<1>2. \A k \in Ids : k \in Truncated(new.from) <=>
         /\ Certifications[k] # None /\ Certifications[k].from < new.from
         /\ NotAfter(new.from, Certifications[k].to)
  BY DEF Truncated, RowsOf, Certifications
<1>3. \A k \in Ids : Certifications[k] # None /\ k \notin Truncated(new.from) =>
         ~NotAfter(new.from, Certifications[k].to)
  BY DEF NoneLater, RowsOf, Certifications
<1>4. new.from \in Nat /\ new.to \in Until
  BY DEF PeriodRow
<1>5. CASE i # id /\ j # id
  <2>1. x # None /\ y # None
    BY <1>2, <1>5 DEF Recertified
  <2>2. x \in PeriodRow /\ y \in PeriodRow
    BY <1>1, <2>1
  <2>3. i \in Truncated(new.from) => a.from = x.from /\ a.to = new.from - 1
    BY <1>5 DEF Recertified, Period
  <2>4. j \in Truncated(new.from) => b.from = y.from /\ b.to = new.from - 1
    BY <1>5 DEF Recertified, Period
  <2>5. i \notin Truncated(new.from) => a = x
    BY <1>5 DEF Recertified
  <2>6. j \notin Truncated(new.from) => b = y
    BY <1>5 DEF Recertified
  <2>7. /\ i \in Truncated(new.from) => NotAfter(new.from, x.to)
        /\ j \in Truncated(new.from) => NotAfter(new.from, y.to)
    BY <1>2
  <2>8. i \in Truncated(new.from) \/ j \in Truncated(new.from) => new.from - 1 \in Nat
    <3>1. i \in Truncated(new.from) => x.from < new.from
      BY <1>2
    <3>2. j \in Truncated(new.from) => y.from < new.from
      BY <1>2
    <3> QED BY <1>4, <2>2, <3>1, <3>2 DEF PeriodRow
  <2>9. Overlap(x, y)
    BY <1>1, <1>4, <2>2, <2>3, <2>4, <2>5, <2>6, <2>7, <2>8 DEF Overlap, NotAfter, PeriodRow, Until
  <2> QED BY <2>1, <2>9 DEF OverlapAt
<1>6. ASSUME NEW k \in Ids, k # id, NEW c, Recertified(k, id, new, c), c # None, Overlap(c, new)
      PROVE  FALSE
  <2>1. Certifications[k] \in PeriodRow
    BY <1>6, <1>2 DEF Recertified, RowsTyped, Certifications
  <2>2. CASE k \in Truncated(new.from)
    <3>1. c.to = new.from - 1
      BY <1>6, <2>2 DEF Recertified, Period
    <3>2. new.from - 1 \in Nat
      BY <1>2, <1>4, <2>1, <2>2 DEF PeriodRow
    <3> QED BY <1>1, <1>4, <1>6, <3>1, <3>2 DEF Overlap, NotAfter
  <2>3. CASE k \notin Truncated(new.from)
    <3>1. c = Certifications[k]
      BY <1>6, <2>3 DEF Recertified
    <3>2. ~NotAfter(new.from, c.to)
      BY <1>3, <1>6, <2>3, <3>1
    <3> QED BY <1>6, <3>2 DEF Overlap
  <2> QED BY <2>2, <2>3
<1>7. CASE i = id
  BY <1>6, <1>7 DEF Recertified, Overlap
<1>8. CASE j = id
  BY <1>6, <1>8 DEF Recertified, Overlap
<1> QED BY <1>5, <1>7, <1>8

LEMMA CertificationFits ==
    ASSUME Base, RowsTyped("registrar_certification", PeriodRow), NEW p \in Process,
           CreateRegistrarCertification(p)
    PROVE  /\ NoNewOverlap(Certifications, Applied(Certifications, "registrar_certification", draft'[p]))
           /\ \A c \in draft'[p] : c.table = "registrar_certification" /\ c.row \in PeriodRow
<1> DEFINE new == Period(call[p].from, call[p].to)
<1>1. stage[p] = "locked" /\ call[p].kind = "createCertification" /\ NoneLater(call[p].from)
  BY DEF CreateRegistrarCertification, At
<1>2. call[p].from \in Nat /\ call[p].to \in Until
  BY <1>1, CallsGiveDates DEF Base, Engaged, Shaped
<1>3. new \in PeriodRow /\ new.from = call[p].from /\ new.to = call[p].to
  BY <1>2 DEF Period, PeriodRow
<1>4. PICK id \in NewIds("registrar_certification") :
         Written(p, TruncatedRows(call[p].from) \cup {NewCertification(p, id)})
  BY CertificationIsWritten
<1>5. draft'[p] = TruncatedRows(new.from) \cup {Row("registrar_certification", id, new)}
  BY <1>3, <1>4, Writing DEF Base, NewCertification
<1>6. id \in Ids /\ Certifications[id] = None /\ id \notin Truncated(new.from)
  BY <1>4 DEF NewIds, Certifications, Truncated, RowsOf
<1> HIDE DEF new
<1>7. ASSUME NEW c \in draft'[p]
      PROVE  /\ c.table = "registrar_certification"
             /\ \/ c.id = id /\ c.row = new
                \/ c.id \in Truncated(new.from) /\ c.row = Period(Certifications[c.id].from, new.from - 1)
  BY <1>5 DEF TruncatedRows, Row, Certifications
<1>8. ASSUME NEW i \in Truncated(new.from)
      PROVE  \E c \in draft'[p] : c.table = "registrar_certification" /\ c.id = i
  <2>1. Row("registrar_certification", i, Period(Certifications[i].from, new.from - 1)) \in draft'[p]
    BY <1>5 DEF TruncatedRows, Certifications
  <2> QED BY <2>1 DEF Row
<1>9. \E c \in draft'[p] : c.table = "registrar_certification" /\ c.id = id
  <2>1. Row("registrar_certification", id, new) \in draft'[p]
    BY <1>5
  <2> QED BY <2>1 DEF Row
<1>10. ASSUME NEW i \in Ids
       PROVE  Recertified(i, id, new, Applied(Certifications, "registrar_certification", draft'[p])[i])
  BY <1>6, <1>7, <1>8, <1>9, AppliedIs DEF Recertified
<1>11. NoneLater(new.from)
  BY <1>1, <1>3
<1>12. NoNewOverlap(Certifications, Applied(Certifications, "registrar_certification", draft'[p]))
  BY <1>3, <1>10, <1>11, RecertifiedApart DEF NoNewOverlap, OverlapAt
<1>13. ASSUME NEW i \in Truncated(new.from) PROVE Period(Certifications[i].from, new.from - 1) \in PeriodRow
  <2>1. Certifications[i] \in PeriodRow /\ Certifications[i].from < new.from
    BY DEF Truncated, RowsOf, RowsTyped, Certifications
  <2> QED BY <1>3, <2>1 DEF Period, PeriodRow, Until
<1> QED BY <1>3, <1>7, <1>12, <1>13

(* A statement keeps the periods if it does what is right for its kind.    *)
LEMMA OwnPeriods ==
    ASSUME Periods, NEW p \in Process, Own(p), AccessKept(p)', CertificationKept(p)', GroupEmpty(p)',
           \A c \in draft'[p] : c.table \in {"registrarinvoice", "registrar_certification"} =>
               c \in draft[p] \/ c.row \in PeriodRow \cup {None}
    PROVE  Periods'
<1>1. RowsTyped("registrarinvoice", PeriodRow)' /\ RowsTyped("registrar_certification", PeriodRow)'
  BY OwnTyped DEF Periods
<1>2. ASSUME NEW q \in Process \ {p}, stage'[q] # "idle"
      PROVE  AccessKept(q)' /\ CertificationKept(q)' /\ GroupEmpty(q)'
  <2>1. AccessKept(q) /\ CertificationKept(q) /\ GroupEmpty(q)
    BY <1>2 DEF Periods, Own
  <2>2. /\ db' = db /\ call' = call /\ day' = day
        /\ stage'[q] = stage[q] /\ draft'[q] = draft[q] /\ seen'[q] = seen[q]
    BY DEF Own
  <2>3. AccessKept(q)'
    BY <2>1, <2>2 DEF AccessKept, FitsSeen, Deletes
  <2>4. CertificationKept(q)'
    BY <2>1, <2>2 DEF CertificationKept, Deletes
  <2>5. GroupEmpty(q)'
    BY <2>1, <2>2 DEF GroupEmpty, RowsOf
  <2> QED BY <2>3, <2>4, <2>5
<1> QED BY <1>1, <1>2 DEF Periods

LEMMA ElsewherePeriods ==
    ASSUME Base, Periods, NEW p \in Process, Elsewhere(p)
    PROVE  Periods'
<1>1. Own(p) /\ call' = call /\ call[p].kind \notin GuardedKinds
  BY DEF Elsewhere, Own
<1>2. AccessKept(p)' /\ CertificationKept(p)' /\ GroupEmpty(p)'
  BY <1>1 DEF AccessKept, CertificationKept, GroupEmpty, GuardedKinds, Keepers
<1>3. \A c \in draft'[p] : c.table \in {"registrarinvoice", "registrar_certification"} => c \in draft[p]
  BY DEF Elsewhere, Guarded
<1> QED BY <1>1, <1>2, <1>3, OwnPeriods

(* A statement that writes nothing yet                                     *)
LEMMA LockingPeriods ==
    ASSUME Base, Periods, NEW p \in Process, Own(p), draft'[p] = {}, stage'[p] # "written"
    PROVE  Periods'
<1>1. AccessKept(p)' /\ CertificationKept(p)' /\ GroupEmpty(p)'
  BY DEF AccessKept, CertificationKept, GroupEmpty, Deletes
<1> QED BY <1>1, OwnPeriods

LEMMA ZoneAccessPeriods ==
    ASSUME Base, Periods, NEW p \in Process, ZoneAccess(p)
    PROVE  Periods'
<1> DEFINE T == "registrarinvoice"
<1>1. Own(p) /\ Shaped /\ call' = call /\ db' = db
  BY ZoneAccessOwn DEF Base, Own
<1>2. \A i \in Ids : db[T][i] \in PeriodRow \cup {None}
  BY DEF Periods, RowsTyped
<1>3. stage[p] # "idle" => call[p] \in Workloads[workload] /\ workload \in DOMAIN Workloads
  BY DEF Base, Engaged, Shaped
<1>4. CASE LockRegistrarinvoice(p)
  <2>1. draft'[p] = {} /\ stage'[p] = "locked"
    BY <1>1, <1>4, NothingYet DEF LockRegistrarinvoice, Lock, Passed, Shaped
  <2> QED BY <1>1, <2>1, LockingPeriods
<1>5. CASE AddRegistrarZoneAccess(p)
  <2> DEFINE new == Period(call[p].from, call[p].to)
  <2>1. /\ call[p].kind = "addAccess" /\ stage[p] = "locked"
        /\ \A i \in RowsOf(T) : ~Overlap(db[T][i], new)
        /\ \E i \in NewIds(T) : Written(p, {Row(T, i, new)})
    BY <1>5 DEF AddRegistrarZoneAccess, At
  <2>2. new \in PeriodRow
    BY <1>3, <2>1, CallsGiveDates DEF Period, PeriodRow
  <2> HIDE DEF new
  <2>3. PICK i \in NewIds(T) : Written(p, {Row(T, i, new)})
    BY <2>1
  <2>4. \A c \in draft'[p] : c.table = T /\ c.id = i /\ c.row = new
    BY <1>1, <2>3, WritingRow
  <2>5. NoNewOverlap(db[T], Applied(db[T], T, draft'[p]))
    <3>1. \A j \in Ids \ {i} : db[T][j] # None => ~Overlap(db[T][j], new)
      BY <2>1 DEF RowsOf
    <3>2. \A c \in draft'[p] : c.table = T => c.id = i /\ c.row = new
      BY <2>4
    <3> HIDE DEF T
    <3> QED BY <3>1, <3>2, FittingRow
  <2>6. AccessKept(p)' /\ CertificationKept(p)' /\ GroupEmpty(p)'
    BY <1>1, <2>1, <2>5 DEF AccessKept, CertificationKept, GroupEmpty
  <2> QED BY <1>1, <2>2, <2>4, <2>6, OwnPeriods
<1>6. CASE UpdateRegistrarZoneAccess(p)
  <2> DEFINE old == db[T][call[p].id]
             new == Period(IF call[p].from = None THEN old.from ELSE call[p].from,
                           IF call[p].to = None THEN old.to ELSE call[p].to)
  <2>1. /\ call[p].kind = "updateAccess" /\ stage[p] = "begun" /\ old # None
        /\ AccessFits(call[p].id, new) /\ Written(p, {Row(T, call[p].id, new)}) /\ seen'[p] = db[T]
    BY <1>1, <1>6 DEF UpdateRegistrarZoneAccess, At, Shaped
  <2>2. call[p].id \in Ids /\ call[p].from \in Until /\ call[p].to \in Until
    BY <1>3, <2>1, CallsGiveDates
  <2>3. old \in PeriodRow
    BY <1>2, <2>1, <2>2
  <2>4. new \in PeriodRow
    BY <2>2, <2>3 DEF Period, PeriodRow, Until
  <2> HIDE DEF new
  <2>5. \A c \in draft'[p] : c.table = T /\ c.id = call[p].id /\ c.row = new
    BY <1>1, <2>1, WritingRow
  <2>6. \A j \in Ids \ {call[p].id} : db[T][j] # None => ~Overlap(db[T][j], new)
    BY <2>1 DEF AccessFits, RowsOf
  <2>7. FitsSeen(p)'
    BY <1>1, <2>1, <2>5, <2>6 DEF FitsSeen
  <2>8. AccessKept(p)' /\ CertificationKept(p)' /\ GroupEmpty(p)'
    BY <1>1, <2>1, <2>7 DEF AccessKept, CertificationKept, GroupEmpty
  <2> QED BY <1>1, <2>4, <2>5, <2>8, OwnPeriods
<1>7. CASE DeleteRegistrarZoneAccess(p)
  <2>1. call[p].kind = "deleteAccess" /\ Written(p, {Row(T, call[p].id, None)})
    BY <1>7 DEF DeleteRegistrarZoneAccess, At
  <2>2. \A c \in draft'[p] : c.row = None
    BY <1>1, <2>1, WritingRow
  <2>3. AccessKept(p)' /\ CertificationKept(p)' /\ GroupEmpty(p)'
    BY <1>1, <2>1, <2>2 DEF AccessKept, CertificationKept, GroupEmpty, Deletes
  <2> QED BY <1>1, <2>2, <2>3, OwnPeriods
<1> QED BY <1>4, <1>5, <1>6, <1>7 DEF ZoneAccess

LEMMA CertificationPeriods ==
    ASSUME Base, Periods, NEW p \in Process, Certification(p)
    PROVE  Periods'
<1> DEFINE T == "registrar_certification"
<1>1. Own(p) /\ Shaped /\ call' = call /\ db' = db
  BY CertificationOwn DEF Base, Own
<1>2. \A i \in Ids : db[T][i] \in PeriodRow \cup {None}
  BY DEF Periods, RowsTyped
<1>3. stage[p] # "idle" => call[p] \in Workloads[workload] /\ workload \in DOMAIN Workloads
  BY DEF Base, Engaged, Shaped
<1>4. CASE LockRegistrarCertification(p)
  <2>1. draft'[p] = {} /\ stage'[p] = "locked"
    BY <1>1, <1>4, NothingYet DEF LockRegistrarCertification, Lock, Passed, Shaped
  <2> QED BY <1>1, <2>1, LockingPeriods
<1>5. CASE CreateRegistrarCertification(p)
  <2>1. /\ NoNewOverlap(Certifications, Applied(Certifications, T, draft'[p]))
        /\ \A c \in draft'[p] : c.table = T /\ c.row \in PeriodRow
    BY <1>5, CertificationFits DEF Periods
  <2>2. call[p].kind = "createCertification"
    BY <1>5 DEF CreateRegistrarCertification, At
  <2>3. AccessKept(p)' /\ CertificationKept(p)' /\ GroupEmpty(p)'
    BY <1>1, <2>1, <2>2 DEF AccessKept, CertificationKept, GroupEmpty, Certifications
  <2> QED BY <1>1, <2>1, <2>3, OwnPeriods
<1>6. CASE UpdateRegistrarCertification(p)
  <2> DEFINE old == db[T][call[p].id]
             new == IF call[p].to = None THEN old ELSE Period(old.from, call[p].to)
  <2>1. /\ call[p].kind = "updateCertification" /\ stage[p] = "begun" /\ old # None
        /\ Written(p, {Row(T, call[p].id, new)})
    BY <1>6 DEF UpdateRegistrarCertification, At
  <2>2. call[p].id \in Ids /\ call[p].to \in Until
    BY <1>3, <2>1, CallsGiveDates
  <2>3. old \in PeriodRow
    BY <1>2, <2>1, <2>2
  <2>4. new \in PeriodRow
    BY <2>2, <2>3 DEF Period, PeriodRow, Until
  <2> HIDE DEF new
  <2>5. \A c \in draft'[p] : c.row = new
    BY <1>1, <2>1, WritingRow
  <2>6. AccessKept(p)' /\ CertificationKept(p)' /\ GroupEmpty(p)'
    BY <1>1, <2>1 DEF AccessKept, CertificationKept, GroupEmpty
  <2> QED BY <1>1, <2>4, <2>5, <2>6, OwnPeriods
<1>7. CASE DeleteRegistrarCertification(p)
  <2>1. call[p].kind = "deleteCertification" /\ Written(p, {Row(T, call[p].id, None)})
    BY <1>7 DEF DeleteRegistrarCertification, At
  <2>2. \A c \in draft'[p] : c.row = None
    BY <1>1, <2>1, WritingRow
  <2>3. AccessKept(p)' /\ CertificationKept(p)' /\ GroupEmpty(p)'
    BY <1>1, <2>1, <2>2 DEF AccessKept, CertificationKept, GroupEmpty, Deletes
  <2> QED BY <1>1, <2>2, <2>3, OwnPeriods
<1> QED BY <1>4, <1>5, <1>6, <1>7 DEF Certification

LEMMA GroupPeriods ==
    ASSUME Base, Periods, NEW p \in Process, Group(p)
    PROVE  Periods'
<1>1. Own(p) /\ Shaped /\ call' = call /\ db' = db /\ day' = day
  BY GroupOwn DEF Base, Own
<1>2. ASSUME \A c \in draft'[p] : c.table \in {"registrar_group", "registrar_group_map"},
             call[p].kind \in {"createGroup", "updateGroup", "createMembership", "endMembership"}
      PROVE  Periods'
  <2>1. AccessKept(p)' /\ CertificationKept(p)' /\ GroupEmpty(p)'
    BY <1>1, <1>2 DEF AccessKept, CertificationKept, GroupEmpty
  <2> QED BY <1>1, <1>2, <2>1, OwnPeriods
<1>3. CASE LockRegistrarGroup(p)
  <2>1. draft'[p] = {} /\ stage'[p] = "locked"
    BY <1>1, <1>3, NothingYet DEF LockRegistrarGroup, Lock, Passed, Shaped
  <2> QED BY <1>1, <2>1, LockingPeriods
<1>4. CASE CreateRegistrarGroup(p)
  BY <1>1, <1>2, <1>4, WritingRow DEF CreateRegistrarGroup, At
<1>5. CASE UpdateRegistrarGroup(p)
  BY <1>1, <1>2, <1>5, WritingRow DEF UpdateRegistrarGroup, At
<1>6. CASE CheckNotCancelled(p)
  <2>1. draft'[p] = {} /\ stage'[p] = "checked"
    BY <1>1, <1>6, NothingYet DEF CheckNotCancelled, At, Passed, Shaped
  <2> QED BY <1>1, <2>1, LockingPeriods
<1>7. CASE LockMembers(p)
  <2>1. draft'[p] = {} /\ stage'[p] = "locked"
    BY <1>1, <1>7, NothingYet DEF LockMembers, At, Passed, Shaped
  <2> QED BY <1>1, <2>1, LockingPeriods
<1>8. CASE CancelRegistrarGroup(p)
  <2>1. call[p].kind = "cancelGroup" /\ \A i \in RowsOf("registrar_group_map") :
           ~IsMember(db["registrar_group_map"][i], call[p].id, day[p])
    BY <1>8 DEF CancelRegistrarGroup, At
  <2>2. AccessKept(p)' /\ CertificationKept(p)' /\ GroupEmpty(p)'
    BY <1>1, <2>1 DEF AccessKept, CertificationKept, GroupEmpty, RowsOf
  <2>3. \A c \in draft'[p] : c.table = "registrar_group"
    BY <1>1, <1>8, CancelWrites
  <2> QED BY <1>1, <2>2, <2>3, OwnPeriods
<1>9. CASE LockRegistrarGroupMap(p)
  <2>1. draft'[p] = {} /\ stage'[p] = "locked"
    BY <1>1, <1>9, NothingYet DEF LockRegistrarGroupMap, Lock, Passed, Shaped
  <2> QED BY <1>1, <2>1, LockingPeriods
<1>10. CASE CreateRegistrarGroupMembership(p)
  <2>1. PICK i, last : Written(p, {NewMembership(p, i)} \cup EndedMemberships(p, last))
    BY <1>10, MembershipIsWritten
  <2>2. \A c \in draft'[p] : c.table = "registrar_group_map"
    BY <1>1, <2>1, Writing DEF NewMembership, EndedMemberships, Row
  <2> QED BY <1>2, <1>10, <2>2 DEF CreateRegistrarGroupMembership, At
<1>11. CASE FindMembership(p)
  <2>1. draft'[p] = {} /\ stage'[p] = "found"
    BY <1>1, <1>11, NothingYet DEF FindMembership, At, Shaped
  <2> QED BY <1>1, <2>1, LockingPeriods
<1>12. CASE EndRegistrarGroupMembership(p)
  <2>1. Written(p, FoundRows(p))
    BY <1>12 DEF EndRegistrarGroupMembership, FoundRows, Found
  <2>2. \A c \in draft'[p] : c.table = "registrar_group_map"
    BY <1>1, <2>1, Writing DEF FoundRows, Row
  <2> QED BY <1>2, <1>12, <2>2 DEF EndRegistrarGroupMembership, At
<1> QED
  BY <1>3, <1>4, <1>5, <1>6, <1>7, <1>8, <1>9, <1>10, <1>11, <1>12 DEF Group

LEMMA CreditFacts ==
    ASSUME Base, NEW p \in Process, Credit(p)
    PROVE  /\ Own(p) /\ call' = call /\ call[p].kind = "charge"
           /\ \A c \in draft'[p] : c \in draft[p] \/ c.table = "registrar_credit"
<1>1. Own(p) /\ Shaped /\ call' = call
  BY CreditOwn DEF Base, Own
<1>2. CASE FindCredit(p)
  BY <1>1, <1>2 DEF FindCredit, At, Passed
<1>3. CASE LockCredit(p)
  BY <1>1, <1>3 DEF LockCredit, At, Passed
<1>4. CASE InsertCredit(p)
  BY <1>1, <1>4 DEF InsertCredit, At, Row, Shaped
<1>5. CASE CreateRegistrarCreditTransaction(p)
  BY <1>1, <1>5, Writing DEF CreateRegistrarCreditTransaction, At
<1> QED BY <1>2, <1>3, <1>4, <1>5 DEF Credit

LEMMA CreditPeriods ==
    ASSUME Base, Periods, NEW p \in Process, Credit(p)
    PROVE  Periods'
<1>1. /\ Own(p) /\ call' = call /\ call[p].kind = "charge"
      /\ \A c \in draft'[p] : c \in draft[p] \/ c.table = "registrar_credit"
  BY CreditFacts
<1>2. AccessKept(p)' /\ CertificationKept(p)' /\ GroupEmpty(p)'
  BY <1>1 DEF AccessKept, CertificationKept, GroupEmpty
<1> QED BY <1>1, <1>2, OwnPeriods

LEMMA BeginPeriods ==
    ASSUME Base, Periods, NEW p \in Process, Begin(p)
    PROVE  Periods'
<1>1. /\ OnlyOf(p) /\ db' = db /\ stage[p] = "idle" /\ stage'[p] = "begun" /\ draft' = draft
  BY BeginFacts DEF Base
<1>2. draft[p] = {}
  BY <1>1 DEF Base, Engaged
<1>3. RowsTyped("registrarinvoice", PeriodRow)' /\ RowsTyped("registrar_certification", PeriodRow)'
  BY <1>1 DEF Periods, RowsTyped
<1>4. AccessKept(p)' /\ CertificationKept(p)' /\ GroupEmpty(p)'
  BY <1>1, <1>2 DEF AccessKept, CertificationKept, GroupEmpty, Deletes
<1>5. ASSUME NEW q \in Process \ {p}, stage'[q] # "idle"
      PROVE  AccessKept(q)' /\ CertificationKept(q)' /\ GroupEmpty(q)'
  <2>1. /\ call'[q] = call[q] /\ stage'[q] = stage[q] /\ day'[q] = day[q]
        /\ draft'[q] = draft[q] /\ seen'[q] = seen[q]
    BY <1>1 DEF OnlyOf
  <2>2. AccessKept(q) /\ CertificationKept(q) /\ GroupEmpty(q)
    BY <1>5, <2>1 DEF Periods
  <2> QED
    BY <1>1, <2>1, <2>2 DEF AccessKept, CertificationKept, GroupEmpty, FitsSeen, Deletes, RowsOf
<1> QED BY <1>3, <1>4, <1>5 DEF Periods

(* Tables that q keeps from others are as they were.                       *)
LEMMA EndPeriods ==
    ASSUME Base, Periods, NEW p \in Process, End(p), DOMAIN db' = Tables, \A t \in Tables : DOMAIN db'[t] = Ids,
           \A table \in Guarded, i \in Ids : (\A c \in draft[p] : c.table # table) => db'[table][i] = db[table][i],
           RowsTyped("registrarinvoice", PeriodRow)', RowsTyped("registrar_certification", PeriodRow)'
    PROVE  Periods'
<1>1. OnlyOf(p) /\ stage'[p] = "idle"
  BY EndFacts DEF Base
<1>2. ASSUME NEW q \in Process \ {p}, stage'[q] # "idle"
      PROVE  AccessKept(q)' /\ CertificationKept(q)' /\ GroupEmpty(q)'
  <2>1. /\ call'[q] = call[q] /\ stage'[q] = stage[q] /\ day'[q] = day[q]
        /\ draft'[q] = draft[q] /\ seen'[q] = seen[q]
    BY <1>1 DEF OnlyOf
  <2>2. AccessKept(q) /\ CertificationKept(q) /\ GroupEmpty(q) /\ OnCourse(q)
    BY <1>2, <2>1 DEF Periods, Base
  <2>3. ASSUME stage[q] = "written", call[q].kind \in Keepers
        PROVE  \A i \in Ids : db'[Keeps(call[q].kind)][i] = db[Keeps(call[q].kind)][i]
    <3>1. HoldsLock(q, Keeps(call[q].kind), {"access exclusive"})
      BY <2>2, <2>3 DEF OnCourse, LocksKept
    <3>2. Keeps(call[q].kind) \in Guarded
      BY <2>3 DEF Keeps, Keepers, Guarded
    <3>3. ASSUME NEW c \in draft[p] PROVE c.table # Keeps(call[q].kind)
      <4> DEFINE table == Keeps(call[q].kind)
                 modes == {"access exclusive"}
      <4>1. /\ q \in Process /\ p \in Process \ {q} /\ table \in Guarded
            /\ modes \subseteq {"exclusive", "access exclusive"} /\ HoldsLock(q, table, modes)
        BY <3>1, <3>2
      <4> HIDE DEF table, modes
      <4>2. c.table # table
        BY <4>1, OnlyWriter
      <4> QED BY <4>2 DEF table
    <3> QED BY <3>2, <3>3
  <2>4. AccessKept(q)'
    <3>1. CASE call[q].kind = "addAccess" /\ stage[q] = "written"
      <4>1. \A i \in Ids : db'["registrarinvoice"][i] = db["registrarinvoice"][i]
        BY <2>3, <3>1 DEF Keepers, Keeps
      <4> QED BY <2>1, <2>2, <3>1, <4>1 DEF AccessKept, NoNewOverlap, OverlapAt, Applied
    <3>2. CASE ~(call[q].kind = "addAccess" /\ stage[q] = "written")
      BY <2>1, <2>2, <3>2 DEF AccessKept, FitsSeen, Deletes
    <3> QED BY <3>1, <3>2
  <2>5. CertificationKept(q)'
    <3>1. CASE call[q].kind = "createCertification" /\ stage[q] = "written"
      <4>1. \A i \in Ids : db'["registrar_certification"][i] = db["registrar_certification"][i]
        BY <2>3, <3>1 DEF Keepers, Keeps
      <4> QED BY <2>1, <2>2, <3>1, <4>1 DEF CertificationKept, NoNewOverlap, OverlapAt, Applied
    <3>2. CASE ~(call[q].kind = "createCertification" /\ stage[q] = "written")
      BY <2>1, <2>2, <3>2 DEF CertificationKept, Deletes
    <3> QED BY <3>1, <3>2
  <2>6. GroupEmpty(q)'
    <3>1. CASE call[q].kind = "cancelGroup" /\ stage[q] = "written"
      <4>1. \A i \in Ids : db'["registrar_group_map"][i] = db["registrar_group_map"][i]
        BY <2>3, <3>1 DEF Keepers, Keeps
      <4> QED BY <2>1, <2>2, <3>1, <4>1 DEF GroupEmpty, RowsOf
    <3>2. CASE ~(call[q].kind = "cancelGroup" /\ stage[q] = "written")
      BY <2>1, <3>2 DEF GroupEmpty
    <3> QED BY <3>1, <3>2
  <2> QED BY <2>4, <2>5, <2>6
<1> QED BY <1>1, <1>2 DEF Periods

LEMMA CommitPeriods ==
    ASSUME Base, Periods, NEW p \in Process, Commit(p)
    PROVE  Periods'
<1>1. Guarded \subseteq Tables
  BY StartIsStored DEF Guarded
<1>2. RowsTyped("registrarinvoice", PeriodRow)' /\ RowsTyped("registrar_certification", PeriodRow)'
  BY <1>1, CommittedTyped DEF Periods, Guarded
<1>3. \A table \in Guarded, i \in Ids :
         (\A c \in draft[p] : c.table # table) => db'[table][i] = db[table][i]
  BY <1>1, Untouched
<1> QED BY <1>2, <1>3, CommitFacts, EndPeriods

LEMMA RollbackPeriods ==
    ASSUME Base, Periods, NEW p \in Process, Rollback(p)
    PROVE  Periods'
<1>1. End(p) /\ db' = db
  BY DEF Rollback
<1>2. OnlyOf(p) /\ draft'[p] = {}
  BY <1>1, EndFacts DEF Base, Shaped
<1>3. RowsTyped("registrarinvoice", PeriodRow)' /\ RowsTyped("registrar_certification", PeriodRow)'
  BY <1>1, <1>2 DEF Periods, RowsTyped, OnlyOf
<1> QED BY <1>1, <1>3, EndPeriods DEF Base, Shaped

LEMMA InitPeriods == Init => Periods
  BY StartIsStored DEF Init, Periods, RowsTyped

-----------------------------------------------------------------------------
(* Memberships                                                             *)

Members == db["registrar_group_map"]

LEMMA EndsTyped ==
    ASSUME Base, RowsTyped("registrar_group_map", MembershipRow), NEW i \in RowsOf("registrar_group_map")
    PROVE  /\ Members[i] \in MembershipRow /\ Members[i].from \in Nat
           /\ Ends(i) \subseteq Until /\ Members[i].to \in Ends(i)
<1>1. Members[i] \in MembershipRow
  BY DEF RowsTyped, RowsOf, Members
<1>2. Members[i].to \in Until /\ Members[i].from \in Nat
  BY <1>1 DEF MembershipRow
<1>3. \A q \in Process : day[q] \in Nat
  BY DEF Base, Engaged
<1> QED BY <1>1, <1>2, <1>3 DEF Ends, Members, Until

(* Memberships stay apart if their ends come no later.                     *)
LEMMA DisjointShrinks ==
    ASSUME Base, RowsTyped("registrar_group_map", MembershipRow), Disjoint,
           Base', RowsTyped("registrar_group_map", MembershipRow)',
           \A i \in Ids : Members[i]' # None <=> Members[i] # None,
           \A i \in RowsOf("registrar_group_map") :
              /\ Members[i]'.group = Members[i].group /\ Members[i]'.from = Members[i].from
              /\ \A e \in Ends(i)' : \E f \in Ends(i) : f = None \/ (e # None /\ e <= f)
    PROVE  Disjoint'
<1>1. RowsOf("registrar_group_map")' = RowsOf("registrar_group_map")
  BY DEF RowsOf, Members
<1>2. ASSUME NEW i \in RowsOf("registrar_group_map")
      PROVE  Members[i].from \in Nat /\ Ends(i) \subseteq Until /\ Ends(i)' \subseteq Until
  <2>1. Members[i].from \in Nat /\ Ends(i) \subseteq Until
    BY EndsTyped
  <2>2. Ends(i)' \subseteq Until
    <3>1. Members[i]' \in MembershipRow
      BY <1>1 DEF RowsTyped, RowsOf, Members
    <3>2. \A q \in Process : day'[q] \in Nat
      BY DEF Base, Engaged
    <3> QED BY <3>1, <3>2 DEF Ends, Members, MembershipRow, Until
  <2> QED BY <2>1, <2>2
<1>3. None \notin Nat
  BY NoneIsNoRow
<1>4. CASE \E i \in RowsOf("registrar_group_map") : \A f \in Ends(i) : f # None /\ f < Members[i].from
  <2>1. PICK i \in RowsOf("registrar_group_map") : \A f \in Ends(i) : f # None /\ f < Members[i].from
    BY <1>4
  <2>2. ASSUME NEW e \in Ends(i)' PROVE e # None /\ e < Members[i].from
    <3>1. PICK f \in Ends(i) : f = None \/ (e # None /\ e <= f)
      OBVIOUS
    <3> QED BY <1>2, <1>3, <2>1, <3>1 DEF Until
  <2> QED BY <1>1, <2>2 DEF Disjoint, Members
<1>5. CASE \A i, j \in RowsOf("registrar_group_map") :
              i # j /\ Members[i].group = Members[j].group =>
                 \A e \in Ends(i), f \in Ends(j) :
                    ~((f # None => Members[i].from < f) /\ (e # None => Members[j].from < e))
  <2>1. ASSUME NEW i \in RowsOf("registrar_group_map"), NEW j \in RowsOf("registrar_group_map"),
               i # j, Members[i].group = Members[j].group, NEW e \in Ends(i)', NEW f \in Ends(j)',
               f # None => Members[i].from < f, e # None => Members[j].from < e
        PROVE  FALSE
    <3>1. PICK a \in Ends(i) : a = None \/ (e # None /\ e <= a)
      OBVIOUS
    <3>2. PICK b \in Ends(j) : b = None \/ (f # None /\ f <= b)
      OBVIOUS
    <3>3. (b # None => Members[i].from < b) /\ (a # None => Members[j].from < a)
      BY <1>2, <1>3, <2>1, <3>1, <3>2 DEF Until
    <3> QED BY <1>5, <2>1, <3>3
  <2>2. \A i, j \in RowsOf("registrar_group_map") :
           i # j /\ Members[i].group = Members[j].group =>
              \A e \in Ends(i)', f \in Ends(j)' :
                 ~((f # None => Members[i].from < f) /\ (e # None => Members[j].from < e))
    BY <2>1
  <2>3. Disjoint'
    BY <1>1, <2>2 DEF Disjoint, Members
  <2> QED BY <2>3
<1> QED BY <1>4, <1>5 DEF Disjoint, Members

(* Statements of others change nothing for q.                              *)
LEMMA OwnEnders ==
    ASSUME NEW p \in Process, Own(p), NEW q \in Process \ {p}
    PROVE  /\ Ender(q)' <=> Ender(q)
           /\ Found(q)' = Found(q) /\ day'[q] = day[q]
           /\ MembershipKept(q) => MembershipKept(q)'
<1>1. /\ db' = db /\ call' = call /\ day' = day
      /\ stage'[q] = stage[q] /\ draft'[q] = draft[q] /\ seen'[q] = seen[q]
  BY DEF Own
<1>2. Found(q)' = Found(q) /\ (Ender(q)' <=> Ender(q))
  BY <1>1 DEF Found, Ender, LastsAfter
<1>3. MembershipKept(q) => MembershipKept(q)'
  BY <1>1, <1>2 DEF MembershipKept, EndsFound
<1> QED BY <1>1, <1>2, <1>3

(* A statement keeps the memberships if p is ending those that it was      *)
(* ending, and none that it was not.                                       *)
LEMMA OwnMemberships ==
    ASSUME Base, Base', Memberships, NEW p \in Process, Own(p), MembershipKept(p)',
           Ender(p)' => Ender(p) /\ Found(p)' = Found(p),
           \A c \in draft'[p] : c.table = "registrar_group_map" =>
               c \in draft[p] \/ c.row \in MembershipRow \cup {None}
    PROVE  Memberships'
<1>1. db' = db /\ call' = call /\ day' = day
  BY DEF Own
<1>2. RowsTyped("registrar_group_map", MembershipRow)'
  BY OwnTyped DEF Memberships
<1>3. ASSUME NEW q \in Process, stage'[q] # "idle" PROVE MembershipKept(q)'
  <2>1. CASE q = p
    BY <2>1
  <2>2. CASE q # p
    BY <1>3, <2>2, OwnEnders DEF Memberships, Own
  <2> QED BY <2>1, <2>2
<1>4. \A q \in Process : Ender(q)' => Ender(q) /\ Found(q)' = Found(q)
  BY OwnEnders
<1>5. ASSUME NEW i \in RowsOf("registrar_group_map"), NEW e \in Ends(i)'
      PROVE  \E f \in Ends(i) : f = None \/ (e # None /\ e <= f)
  <2>1. e \in Ends(i) /\ e \in Until
    BY <1>1, <1>4, EndsTyped DEF Ends, Memberships
  <2> QED BY <2>1 DEF Until
<1>6. Disjoint'
  BY <1>1, <1>2, <1>5, DisjointShrinks DEF Memberships, Members
<1> QED BY <1>2, <1>3, <1>6 DEF Memberships

LEMMA ElsewhereMemberships ==
    ASSUME Base, Base', Memberships, NEW p \in Process, Elsewhere(p)
    PROVE  Memberships'
<1>1. Own(p) /\ call' = call /\ call[p].kind \notin GuardedKinds
  BY DEF Elsewhere, Own
<1>2. MembershipKept(p)' /\ ~Ender(p)'
  BY <1>1 DEF MembershipKept, Ender, GuardedKinds, Keepers
<1>3. \A c \in draft'[p] : c.table = "registrar_group_map" => c \in draft[p]
  BY DEF Elsewhere, Guarded
<1> QED BY <1>1, <1>2, <1>3, OwnMemberships

(* A statement of another operation on the guarded tables                  *)
LEMMA OtherMemberships ==
    ASSUME Base, Base', Memberships, NEW p \in Process, Own(p),
           call[p].kind \notin {"createMembership", "endMembership"}
           \/ (call[p].kind = "createMembership" /\ stage'[p] = "locked")
    PROVE  Memberships'
<1>1. call' = call
  BY DEF Own
<1>2. MembershipKept(p)' /\ ~Ender(p)'
  BY <1>1 DEF MembershipKept, Ender
<1>3. ASSUME NEW c \in draft'[p], c.table = "registrar_group_map" PROVE c \in draft[p]
  <2>1. OnCourse(p)'
    BY DEF Base, Own
  <2>2. call'[p].kind \in {"createMembership", "endMembership"}
    BY <1>3, <2>1 DEF OnCourse, WritersHold, WritersOf, Guarded
  <2>3. stage'[p] = "written"
    BY <2>1, <2>2, <1>3 DEF OnCourse, DraftLast
  <2> QED BY <1>1, <2>2, <2>3
<1> QED BY <1>2, <1>3, OwnMemberships

LEMMA FindMemberships ==
    ASSUME Base, Base', Memberships, NEW p \in Process, FindMembership(p)
    PROVE  Memberships'
<1>1. Own(p) /\ Shaped /\ db' = db /\ call' = call /\ day' = day
  BY GroupOwn DEF Group, Base, Own
<1>2. seen'[p] = Members /\ draft'[p] = {} /\ stage'[p] = "found" /\ call[p].kind = "endMembership"
  BY <1>1, NothingYet DEF FindMembership, At, Shaped, Members
<1>3. RowsTyped("registrar_group_map", MembershipRow)'
  BY <1>1, <1>2, OwnTyped DEF Memberships
<1>4. \A i \in Found(p)' : LastsAfter(Members[i], day[p])
  BY <1>1, <1>2 DEF Found, LastsAfter
<1>5. day[p] \in Nat /\ None \notin Nat
  BY NoneIsNoRow DEF Base, Engaged
<1>6. ASSUME NEW i \in RowsOf("registrar_group_map"), NEW e \in Ends(i)'
      PROVE  \E f \in Ends(i) : f = None \/ (e # None /\ e <= f)
  <2>1. e \in Ends(i) \/ (e = day[p] /\ i \in Found(p)')
    BY <1>1, <1>6, OwnEnders DEF Ends
  <2>2. Ends(i) \subseteq Until /\ Members[i].to \in Ends(i)
    BY EndsTyped DEF Memberships
  <2>3. CASE e \in Ends(i)
    BY <2>2, <2>3 DEF Until
  <2>4. CASE e = day[p] /\ i \in Found(p)'
    <3>1. Members[i].to = None \/ day[p] < Members[i].to
      BY <1>4, <2>4 DEF LastsAfter
    <3> QED BY <1>5, <2>2, <2>4, <3>1 DEF Until
  <2> QED BY <2>1, <2>3, <2>4
<1>7. Disjoint'
  BY <1>1, <1>3, <1>6, DisjointShrinks DEF Memberships, Members
<1>8. MembershipKept(p)'
  BY <1>1, <1>2 DEF MembershipKept, EndsFound, Members
<1>9. ASSUME NEW q \in Process, stage'[q] # "idle" PROVE MembershipKept(q)'
  BY <1>1, <1>8, <1>9, OwnEnders DEF Memberships, Own
<1> QED BY <1>3, <1>7, <1>9 DEF Memberships

LEMMA EndMemberships ==
    ASSUME Base, Base', Memberships, NEW p \in Process, EndRegistrarGroupMembership(p)
    PROVE  Memberships'
<1>1. Own(p) /\ Shaped /\ db' = db /\ call' = call /\ day' = day
  BY GroupOwn DEF Group, Base, Own
<1>2. /\ call[p].kind = "endMembership" /\ stage[p] = "found" /\ seen' = seen
      /\ Written(p, FoundRows(p))
  BY DEF EndRegistrarGroupMembership, At, FoundRows, Found
<1>3. draft'[p] = FoundRows(p)
  BY <1>1, <1>2, Writing
<1>4. Ender(p) /\ MembershipKept(p) /\ Found(p)' = Found(p)
  BY <1>1, <1>2 DEF Ender, Found, LastsAfter, Memberships
<1>5. day[p] \in Nat
  BY DEF Base, Engaged
<1>6. ASSUME NEW c \in draft'[p]
      PROVE  /\ c.id \in Found(p) /\ Members[c.id] \in MembershipRow
             /\ c.row = [group |-> Members[c.id].group, from |-> Members[c.id].from, to |-> day[p]]
  <2>1. c.id \in Found(p) /\ c.row = [Members[c.id] EXCEPT !.to = day[p]]
    BY <1>3 DEF FoundRows, Row, Members
  <2>2. Members[c.id] \in MembershipRow
    BY <1>4, <2>1 DEF MembershipKept, EndsFound, Found, Memberships, RowsTyped, Members
  <2> QED BY <2>1, <2>2 DEF MembershipRow
<1>7. ASSUME NEW c \in draft'[p] PROVE c.row \in MembershipRow
  <2>1. Members[c.id].group \in Ids /\ Members[c.id].from \in Nat /\ day[p] \in Until
    BY <1>5, <1>6 DEF MembershipRow, Until
  <2>2. c.row = [group |-> Members[c.id].group, from |-> Members[c.id].from, to |-> day[p]]
    BY <1>6
  <2> QED BY <2>1, <2>2 DEF MembershipRow
<1>8. MembershipKept(p)'
  BY <1>1, <1>2, <1>4, <1>6 DEF MembershipKept, EndsFound, Members
<1> QED BY <1>1, <1>4, <1>7, <1>8, OwnMemberships

(* What a creation makes of each membership: `last' is ended if it is open *)
Rejoined(i, id, new, last, after) ==
    \/ i \notin EndedFor(last, new.from) /\ i # id /\ after = Members[i]
    \/ /\ i \in EndedFor(last, new.from) /\ i # id /\ Members[i] # None
       /\ after = [group |-> Members[i].group, from |-> Members[i].from, to |-> new.from]
    \/ i = id /\ after = new /\ Members[i] = None

(* The last membership of the group, if it has one                         *)
IsLast(last, group) ==
    \/ last = {} /\ MembershipsIn(group) = {}
    \/ \E k \in LastMemberships(group) : last = {k}

(* Nobody who ends a membership sees it when one is created.               *)
LEMMA NewApart ==
    ASSUME RowsTyped("registrar_group_map", MembershipRow), NEW new \in MembershipRow,
           NEW id \in Ids, NEW last, IsLast(last, new.group),
           \A k \in EndedFor(last, new.from) : Members[k].to = None,
           IntersectByInversion(Members),
           NEW after, \A i \in Ids : Rejoined(i, id, new, last, after[i])
    PROVE  IntersectByInversion(after)
<1> DEFINE before(a, b) == b.to # None => a.from < b.to
<1>1. SUFFICES ASSUME \A i \in Ids : after[i] # None => NotAfter(after[i].from, after[i].to),
                      NEW i \in Ids, NEW j \in Ids, i # j, after[i] # None, after[j] # None,
                      after[i].group = after[j].group, before(after[i], after[j]), before(after[j], after[i])
               PROVE  FALSE
  BY DEF IntersectByInversion
<1>2. None \notin Nat /\ new.from \in Nat /\ new.to \in Until
  BY NoneIsNoRow DEF MembershipRow
<1>3. ASSUME NEW k \in Ids, Members[k] # None
      PROVE  Members[k] \in MembershipRow /\ Members[k].from \in Nat /\ Members[k].to \in Until
  BY <1>3 DEF RowsTyped, Members, MembershipRow
<1>4. ASSUME NEW k \in Ids, Members[k] # None PROVE k # id
  BY <1>4 DEF Rejoined
<1>5. ASSUME NEW k \in Ids, Members[k] # None
      PROVE  /\ after[k] # None /\ after[k].group = Members[k].group /\ after[k].from = Members[k].from
             /\ k \notin EndedFor(last, new.from) => after[k].to = Members[k].to
             /\ k \in EndedFor(last, new.from) => after[k].to = new.from /\ Members[k].to = None
             /\ NotAfter(Members[k].from, Members[k].to)
  <2>1. k # id
    BY <1>4, <1>5
  <2>2. CASE k \in EndedFor(last, new.from)
    <3>1. after[k] = [group |-> Members[k].group, from |-> Members[k].from, to |-> new.from]
      BY <2>1, <2>2 DEF Rejoined
    <3>2. after[k] # None
      <4>1. Members[k].group \in Ids /\ Members[k].from \in Nat /\ new.from \in Until
        BY <1>2, <1>3, <1>5 DEF MembershipRow, Until
      <4>2. after[k] \in MembershipRow
        BY <3>1, <4>1 DEF MembershipRow
      <4> QED BY <4>2, NoneIsNoRow
    <3> QED BY <2>2, <3>1, <3>2 DEF NotAfter
  <2>3. CASE k \notin EndedFor(last, new.from)
    <3>1. after[k] = Members[k]
      BY <2>1, <2>3 DEF Rejoined
    <3> QED BY <1>1, <1>5, <2>3, <3>1
  <2> QED BY <2>2, <2>3
<1>6. ASSUME NEW k \in Ids, NEW m \in Ids, k # m, Members[k] # None, Members[m] # None,
             Members[k].group = Members[m].group
      PROVE  ~(before(Members[k], Members[m]) /\ before(Members[m], Members[k]))
  BY <1>5, <1>6 DEF IntersectByInversion
<1>7. ASSUME NEW k \in Ids, NEW m \in Ids, k # m, Members[k] # None, Members[m] # None,
             Members[k].group = Members[m].group, before(after[k], after[m])
      PROVE  before(Members[k], Members[m])
  BY <1>5, <1>7
<1>8. \A k \in Ids : Members[k] = None /\ after[k] # None => k = id
  BY DEF Rejoined
<1>9. after[id] # None => after[id] = new
  BY <1>4 DEF Rejoined
<1>10. ASSUME NEW k \in Ids, Members[k] # None, Members[k].group = new.group, before(new, after[k])
       PROVE  FALSE
  <2>1. k \in MembershipsIn(new.group)
    BY <1>10 DEF MembershipsIn, RowsOf, Members
  <2>2. PICK m \in LastMemberships(new.group) : last = {m}
    BY <2>1 DEF IsLast
  <2>3. m \in Ids /\ Members[m] # None /\ Members[m].group = new.group
    BY <2>2 DEF LastMemberships, MembershipsIn, RowsOf, Members
  <2>4. m \in EndedFor(last, new.from) <=> Members[m].to = None \/ Members[m].to > new.from
    BY <2>2 DEF EndedFor, Members
  <2>5. CASE Members[m].to = None
    <3>1. after[m].to = new.from /\ Members[m].from <= new.from
      BY <1>1, <1>2, <1>5, <2>3, <2>4, <2>5 DEF NotAfter
    <3>2. k # m
      BY <1>2, <1>10, <3>1
    <3>3. before(Members[k], Members[m]) /\ ~before(Members[m], Members[k])
      BY <1>6, <1>10, <2>3, <2>5, <3>2
    <3>4. k \notin EndedFor(last, new.from) /\ after[k].to = Members[k].to
      BY <1>5, <1>10, <2>2, <3>2 DEF EndedFor
    <3> QED BY <1>2, <1>3, <1>10, <2>3, <3>1, <3>3, <3>4 DEF Until
  <2>6. CASE Members[m].to # None
    <3>1. m \notin EndedFor(last, new.from) /\ Members[m].to <= new.from
      BY <1>2, <1>3, <1>5, <2>3, <2>4, <2>6 DEF Until
    <3>2. Members[k].to # None /\ Members[k].to <= Members[m].to
      BY <2>1, <2>2, <2>6 DEF LastMemberships, Members
    <3>3. after[k].to = Members[k].to
      BY <1>5, <1>10, <2>2, <3>1 DEF EndedFor
    <3>4. Members[k].to \in Nat /\ Members[m].to \in Nat
      BY <1>3, <1>10, <2>3, <2>6, <3>2 DEF Until
    <3>5. new.from < Members[k].to
      BY <1>10, <3>2, <3>3
    <3> QED BY <1>2, <3>1, <3>2, <3>4, <3>5
  <2> QED BY <2>5, <2>6
<1>11. CASE Members[i] # None /\ Members[j] # None
  BY <1>1, <1>5, <1>6, <1>7, <1>11
<1>12. CASE Members[i] = None
  <2>1. i = id /\ after[i] = new /\ Members[j] # None
    BY <1>1, <1>8, <1>9, <1>12
  <2> QED BY <1>1, <1>5, <1>10, <2>1
<1>13. CASE Members[j] = None
  <2>1. j = id /\ after[j] = new /\ Members[i] # None
    BY <1>1, <1>8, <1>9, <1>13
  <2> QED BY <1>1, <1>5, <1>10, <2>1
<1> QED BY <1>11, <1>12, <1>13

LEMMA DisjointAlone ==
    ASSUME RowsTyped("registrar_group_map", MembershipRow), Disjoint, \A q \in Process : ~Ender(q)
    PROVE  IntersectByInversion(Members)
<1>1. ASSUME NEW i \in Ids, Members[i] # None
      PROVE  /\ i \in RowsOf("registrar_group_map") /\ Ends(i) = {Members[i].to}
             /\ Members[i].from \in Nat /\ Members[i].to \in Until
  BY <1>1 DEF RowsOf, Ends, Members, RowsTyped, MembershipRow
<1>2. SUFFICES ASSUME \A i \in Ids : Members[i] # None => NotAfter(Members[i].from, Members[i].to),
                      NEW i \in Ids, NEW j \in Ids, Members[i] # None, Members[j] # None, i # j,
                      Members[i].group = Members[j].group,
                      Members[j].to # None => Members[i].from < Members[j].to,
                      Members[i].to # None => Members[j].from < Members[i].to
               PROVE  FALSE
  BY DEF IntersectByInversion
<1>3. \A k \in RowsOf("registrar_group_map") : k \in Ids /\ Members[k] # None
  BY DEF RowsOf, Members
<1>4. ~\E k \in RowsOf("registrar_group_map") : \A e \in Ends(k) : e # None /\ e < Members[k].from
  <2> SUFFICES ASSUME NEW k \in RowsOf("registrar_group_map"),
                      \A e \in Ends(k) : e # None /\ e < Members[k].from
               PROVE  FALSE
    OBVIOUS
  <2>1. Members[k].to # None /\ Members[k].to < Members[k].from
    BY <1>1, <1>3
  <2> QED BY <1>1, <1>2, <1>3, <2>1 DEF NotAfter, Until
<1> QED BY <1>1, <1>2, <1>4 DEF Disjoint, Members

NobodyIsEnding == \A q \in Process : ~Ender(q)

Alone == RowsTyped("registrar_group_map", MembershipRow) /\ IntersectByInversion(Members) /\ NobodyIsEnding

LEMMA AloneDisjoint == Alone => Disjoint
<1> SUFFICES ASSUME RowsTyped("registrar_group_map", MembershipRow), IntersectByInversion(Members),
                    NobodyIsEnding
             PROVE  Disjoint
  BY DEF Alone
<1>1. ASSUME NEW i \in RowsOf("registrar_group_map")
      PROVE  /\ i \in Ids /\ Members[i] # None /\ Ends(i) = {Members[i].to}
             /\ Members[i].from \in Nat /\ Members[i].to \in Until
  BY <1>1 DEF RowsOf, Ends, NobodyIsEnding, Members, RowsTyped, MembershipRow
<1>2. CASE \A i \in RowsOf("registrar_group_map") : NotAfter(Members[i].from, Members[i].to)
  <2>1. \A i \in Ids : Members[i] # None => i \in RowsOf("registrar_group_map")
    BY DEF RowsOf, Members
  <2>2. \A i \in Ids : Members[i] # None => NotAfter(Members[i].from, Members[i].to)
    BY <1>2, <2>1
  <2>3. ASSUME NEW i \in RowsOf("registrar_group_map"), NEW j \in RowsOf("registrar_group_map"),
               i # j, Members[i].group = Members[j].group
        PROVE  ~(/\ Members[j].to # None => Members[i].from < Members[j].to
                 /\ Members[i].to # None => Members[j].from < Members[i].to)
    BY <1>1, <2>2, <2>3 DEF IntersectByInversion, Members
  <2> QED BY <1>1, <2>3 DEF Disjoint, Members
<1>3. CASE ~\A i \in RowsOf("registrar_group_map") : NotAfter(Members[i].from, Members[i].to)
  <2>1. PICK i \in RowsOf("registrar_group_map") : ~NotAfter(Members[i].from, Members[i].to)
    BY <1>3
  <2>2. Members[i].to # None /\ Members[i].to < Members[i].from
    BY <1>1, <2>1, NoneIsNoRow DEF NotAfter, Until
  <2> QED BY <1>1, <2>1, <2>2 DEF Disjoint, Members
<1> QED BY <1>2, <1>3

(* Nobody else is ending memberships while p keeps them from others.       *)
LEMMA NobodyEnds ==
    ASSUME Base, NEW p \in Process, HoldsLock(p, "registrar_group_map", {"access exclusive"}),
           NEW q \in Process \ {p}
    PROVE  ~Ender(q) /\ ~(call[q].kind = "createMembership" /\ stage[q] \in {"locked", "written"})
<1>1. \A modes : ~HoldsLock(q, "registrar_group_map", modes)
  <2> DEFINE table == "registrar_group_map"
  <2>1. table \in Guarded /\ HoldsLock(p, table, {"access exclusive"})
    BY DEF Guarded
  <2> HIDE DEF table
  <2>2. \A modes : ~HoldsLock(q, table, modes)
    BY <2>1, OnlyHolder
  <2> QED BY <2>2 DEF table
<1>2. stage[q] # "idle" => LocksKept(q)
  BY DEF Base, OnCourse
<1> QED BY <1>1, <1>2 DEF Ender, LocksKept, Keepers, Keeps

LEMMA MembershipWritten ==
    ASSUME Base, Memberships, NEW p \in Process, CreateRegistrarGroupMembership(p)
    PROVE  /\ IntersectByInversion(Applied(Members, "registrar_group_map", draft'[p]))
           /\ \A c \in draft'[p] : c.table = "registrar_group_map" /\ c.row \in MembershipRow
<1> DEFINE new == Membership(call[p].id, call[p].from, call[p].to)
           T == "registrar_group_map"
<1>1. stage[p] = "locked" /\ call[p].kind = "createMembership" /\ Shaped
  BY DEF CreateRegistrarGroupMembership, At, Base
<1>2. call[p].id \in Ids /\ call[p].from \in Nat /\ call[p].to \in Until
  BY <1>1, CallsGiveDates DEF Base, Engaged, Shaped
<1>3. new \in MembershipRow /\ new.group = call[p].id /\ new.from = call[p].from
  BY <1>2 DEF Membership, MembershipRow
<1>4. PICK last \in {{i} : i \in LastMemberships(call[p].id)}
                    \cup (IF MembershipsIn(call[p].id) = {} THEN {{}} ELSE {}),
           id \in NewIds(T) :
         /\ \A j \in EndedFor(last, call[p].from) : db[T][j].to = None
         /\ Written(p, {NewMembership(p, id)} \cup EndedMemberships(p, last))
  BY MembershipIsWritten
<1>5. IsLast(last, new.group) /\ \A k \in EndedFor(last, new.from) : Members[k].to = None
  BY <1>3, <1>4 DEF IsLast, Members
<1>6. id \in Ids /\ Members[id] = None
  BY <1>4 DEF NewIds, Members
<1>7. draft'[p] = {Row(T, id, new)} \cup
                  {Row(T, j, [Members[j] EXCEPT !.to = new.from]) : j \in EndedFor(last, new.from)}
  BY <1>1, <1>3, <1>4, Writing DEF NewMembership, EndedMemberships, Members
<1>8. ASSUME NEW j \in EndedFor(last, new.from)
      PROVE  j \in Ids /\ j # id /\ Members[j] \in MembershipRow
  <2>1. j \in last /\ last # {}
    BY DEF EndedFor
  <2>2. j \in LastMemberships(new.group)
    BY <1>5, <2>1 DEF IsLast
  <2>3. j \in Ids /\ Members[j] # None
    BY <2>2 DEF LastMemberships, MembershipsIn, RowsOf, Members
  <2> QED BY <1>6, <2>3 DEF Memberships, RowsTyped, Members
<1>9. ASSUME NEW j \in EndedFor(last, new.from)
      PROVE  [Members[j] EXCEPT !.to = new.from] =
                [group |-> Members[j].group, from |-> Members[j].from, to |-> new.from]
  BY <1>8 DEF MembershipRow
<1> HIDE DEF new
<1>10. ASSUME NEW c \in draft'[p]
       PROVE  /\ c.table = T
              /\ \/ c.id = id /\ c.row = new
                 \/ /\ c.id \in EndedFor(last, new.from)
                    /\ c.row = [Members[c.id] EXCEPT !.to = new.from]
  BY <1>7 DEF Row
<1>11. ASSUME NEW j \in EndedFor(last, new.from) PROVE \E c \in draft'[p] : c.table = T /\ c.id = j
  <2>1. Row(T, j, [Members[j] EXCEPT !.to = new.from]) \in draft'[p]
    BY <1>7
  <2> QED BY <2>1 DEF Row
<1>12. \E c \in draft'[p] : c.table = T /\ c.id = id
  <2>1. Row(T, id, new) \in draft'[p]
    BY <1>7
  <2> QED BY <2>1 DEF Row
<1> DEFINE after == Applied(Members, T, draft'[p])
<1>13. ASSUME NEW i \in Ids PROVE Rejoined(i, id, new, last, after[i])
  <2>1. \/ after[i] = Members[i] /\ \A c \in draft'[p] : ~(c.table = T /\ c.id = i)
        \/ \E c \in draft'[p] : c.table = T /\ c.id = i /\ after[i] = c.row
    BY AppliedIs
  <2> HIDE DEF after
  <2>2. CASE i = id
    <3>1. after[i] = new
      BY <1>8, <1>10, <1>12, <2>1, <2>2
    <3> QED BY <1>6, <2>2, <3>1 DEF Rejoined
  <2>3. CASE i # id /\ i \in EndedFor(last, new.from)
    <3>1. after[i] = [Members[i] EXCEPT !.to = new.from]
      BY <1>10, <1>11, <2>1, <2>3
    <3>2. Members[i] # None
      BY <1>8, <2>3, NoneIsNoRow
    <3> QED BY <1>9, <2>3, <3>1, <3>2 DEF Rejoined
  <2>4. CASE i # id /\ i \notin EndedFor(last, new.from)
    BY <1>10, <2>1, <2>4 DEF Rejoined
  <2> QED BY <2>2, <2>3, <2>4
<1>14. HoldsLock(p, "registrar_group_map", {"access exclusive"})
  BY <1>1 DEF Base, OnCourse, LocksKept, Keepers, Keeps
<1>15. \A q \in Process : ~Ender(q)
  BY <1>1, <1>14, NobodyEnds DEF Ender
<1>16. IntersectByInversion(Members)
  BY <1>15, DisjointAlone DEF Memberships
<1> HIDE DEF after
<1>17. IntersectByInversion(after)
  BY <1>3, <1>5, <1>6, <1>13, <1>16, NewApart DEF Memberships
<1>18. ASSUME NEW j \in EndedFor(last, new.from)
       PROVE  [Members[j] EXCEPT !.to = new.from] \in MembershipRow
  <2>1. new.from \in Until
    BY <1>3 DEF MembershipRow, Until
  <2> QED BY <1>8, <2>1 DEF MembershipRow
<1>19. \A c \in draft'[p] : c.table = T /\ c.row \in MembershipRow
  BY <1>3, <1>10, <1>18
<1> QED BY <1>17, <1>19 DEF after

LEMMA CreateMemberships ==
    ASSUME Base, Base', Memberships, NEW p \in Process, CreateRegistrarGroupMembership(p)
    PROVE  Memberships'
<1>1. Own(p) /\ db' = db /\ call' = call
  BY GroupOwn DEF Group, Base, Own
<1>2. call[p].kind = "createMembership"
  BY DEF CreateRegistrarGroupMembership, At
<1>3. /\ IntersectByInversion(Applied(Members, "registrar_group_map", draft'[p]))
      /\ \A c \in draft'[p] : c.table = "registrar_group_map" /\ c.row \in MembershipRow
  BY MembershipWritten
<1>4. MembershipKept(p)' /\ ~Ender(p)'
  BY <1>1, <1>2, <1>3, NoneIsNoRow DEF MembershipKept, Ender, Members
<1> QED BY <1>1, <1>3, <1>4, OwnMemberships

LEMMA GroupMemberships ==
    ASSUME Base, Base', Memberships, NEW p \in Process, Group(p)
    PROVE  Memberships'
<1>1. Own(p) /\ Shaped
  BY GroupOwn DEF Base
<1>2. CASE LockRegistrarGroup(p)
  BY <1>1, <1>2, OtherMemberships DEF LockRegistrarGroup
<1>3. CASE CreateRegistrarGroup(p)
  BY <1>1, <1>3, OtherMemberships DEF CreateRegistrarGroup, At
<1>4. CASE UpdateRegistrarGroup(p)
  BY <1>1, <1>4, OtherMemberships DEF UpdateRegistrarGroup, At
<1>5. CASE CheckNotCancelled(p)
  BY <1>1, <1>5, OtherMemberships DEF CheckNotCancelled, At
<1>6. CASE LockMembers(p)
  BY <1>1, <1>6, OtherMemberships DEF LockMembers, At
<1>7. CASE CancelRegistrarGroup(p)
  BY <1>1, <1>7, OtherMemberships DEF CancelRegistrarGroup, At
<1>8. CASE LockRegistrarGroupMap(p)
  BY <1>1, <1>8, OtherMemberships DEF LockRegistrarGroupMap, Lock, Passed, Shaped
<1> QED
  BY <1>2, <1>3, <1>4, <1>5, <1>6, <1>7, <1>8, CreateMemberships, FindMemberships, EndMemberships DEF Group

LEMMA BeginMemberships ==
    ASSUME Base, Base', Memberships, NEW p \in Process, Begin(p)
    PROVE  Memberships'
<1>1. /\ OnlyOf(p) /\ db' = db /\ stage[p] = "idle" /\ stage'[p] = "begun" /\ draft' = draft
  BY BeginFacts DEF Base
<1>2. RowsTyped("registrar_group_map", MembershipRow)'
  BY <1>1 DEF Memberships, RowsTyped
<1>3. ~Ender(p) /\ ~Ender(p)' /\ MembershipKept(p)'
  BY <1>1 DEF Ender, MembershipKept
<1>4. ASSUME NEW q \in Process \ {p}
      PROVE  /\ (Ender(q)' <=> Ender(q)) /\ Found(q)' = Found(q) /\ day'[q] = day[q]
             /\ stage'[q] # "idle" => MembershipKept(q)'
  <2>1. /\ call'[q] = call[q] /\ stage'[q] = stage[q] /\ day'[q] = day[q]
        /\ draft'[q] = draft[q] /\ seen'[q] = seen[q]
    BY <1>1 DEF OnlyOf
  <2>2. (Ender(q)' <=> Ender(q)) /\ Found(q)' = Found(q)
    BY <2>1 DEF Ender, Found, LastsAfter
  <2>3. stage[q] # "idle" => MembershipKept(q)
    BY DEF Memberships
  <2> QED BY <1>1, <2>1, <2>2, <2>3 DEF MembershipKept, EndsFound
<1>5. ASSUME NEW i \in RowsOf("registrar_group_map"), NEW e \in Ends(i)'
      PROVE  \E f \in Ends(i) : f = None \/ (e # None /\ e <= f)
  <2>1. e \in Ends(i) /\ e \in Until
    BY <1>1, <1>3, <1>4, EndsTyped DEF Ends, Memberships
  <2> QED BY <2>1 DEF Until
<1>6. Disjoint'
  BY <1>1, <1>2, <1>5, DisjointShrinks DEF Memberships, Members
<1> QED BY <1>2, <1>3, <1>4, <1>6 DEF Memberships

(* The end of p, if each membership is as it was or as p has ended it      *)
LEMMA LeavingMemberships ==
    ASSUME Base, Base', Memberships, NEW p \in Process, OnlyOf(p), stage'[p] = "idle",
           RowsTyped("registrar_group_map", MembershipRow)',
           \A i \in Ids : \/ Members[i]' = Members[i]
                          \/ /\ Ender(p) /\ i \in Found(p) /\ Members[i] # None /\ Members[i]' # None
                             /\ Members[i]' = [group |-> Members[i].group, from |-> Members[i].from,
                                               to |-> day[p]],
           \A q \in Process \ {p} :
              call[q].kind = "createMembership" /\ stage[q] = "written" =>
                  \A i \in Ids : Members[i]' = Members[i]
    PROVE  Memberships'
<1>1. ASSUME NEW i \in Ids
      PROVE  /\ Members[i]' # None <=> Members[i] # None
             /\ Members[i]'.group = Members[i].group /\ Members[i]'.from = Members[i].from
             /\ \/ Members[i]'.to = Members[i].to
                \/ Ender(p) /\ i \in Found(p) /\ Members[i]'.to = day[p]
  <2>1. CASE Members[i]' = Members[i]
    BY <2>1
  <2>2. CASE Members[i]' # Members[i]
    <3>1. /\ Ender(p) /\ i \in Found(p) /\ Members[i] # None /\ Members[i]' # None
          /\ Members[i]' = [group |-> Members[i].group, from |-> Members[i].from, to |-> day[p]]
      BY <2>2
    <3> QED BY <3>1
  <2> QED BY <2>1, <2>2
<1>2. ASSUME NEW q \in Process \ {p}
      PROVE  /\ call'[q] = call[q] /\ stage'[q] = stage[q] /\ day'[q] = day[q]
             /\ draft'[q] = draft[q] /\ seen'[q] = seen[q]
  BY DEF OnlyOf
<1>3. ASSUME NEW q \in Process \ {p} PROVE (Ender(q)' <=> Ender(q)) /\ Found(q)' = Found(q)
  BY <1>2 DEF Ender, Found, LastsAfter
<1>4. ~Ender(p)'
  BY DEF Ender
<1>5. ASSUME NEW i \in RowsOf("registrar_group_map"), NEW e \in Ends(i)'
      PROVE  \E f \in Ends(i) : f = None \/ (e # None /\ e <= f)
  <2>1. i \in Ids
    BY DEF RowsOf
  <2>2. e \in Ends(i)
    <3>1. e = Members[i]'.to \/ \E q \in Process : Ender(q)' /\ i \in Found(q)' /\ e = day'[q]
      BY DEF Ends, Members
    <3>2. Members[i]'.to \in Ends(i)
      BY <1>1, <2>1 DEF Ends, Members
    <3>3. ASSUME NEW q \in Process, Ender(q)', i \in Found(q)', e = day'[q] PROVE e \in Ends(i)
      BY <1>2, <1>3, <1>4, <3>3 DEF Ends
    <3> QED BY <3>1, <3>2, <3>3
  <2>3. e \in Until
    BY <2>2, EndsTyped DEF Memberships
  <2>4. e = None \/ (e # None /\ e <= e)
    BY <2>3 DEF Until
  <2> QED BY <2>2, <2>4
<1>6. \A i \in RowsOf("registrar_group_map") : i \in Ids
  BY DEF RowsOf
<1>7. Disjoint'
  BY <1>1, <1>5, <1>6, DisjointShrinks DEF Memberships
<1>8. ASSUME NEW q \in Process \ {p}, stage'[q] # "idle" PROVE MembershipKept(q)'
  <2>1. MembershipKept(q)
    BY <1>2, <1>8 DEF Memberships
  <2>2. Ender(q) => EndsFound(q)'
    <3>1. SUFFICES ASSUME Ender(q) PROVE EndsFound(q)'
      OBVIOUS
    <3>2. EndsFound(q)
      BY <2>1, <3>1 DEF MembershipKept
    <3>3. \A i \in Found(q) : i \in Ids
      BY DEF Found
    <3> QED BY <1>1, <1>2, <1>3, <3>2, <3>3 DEF EndsFound, Members
  <2>3. ASSUME call[q].kind = "createMembership", stage[q] = "written"
        PROVE  IntersectByInversion(Applied(Members, "registrar_group_map", draft[q]))'
    <3>1. \A i \in Ids : Members[i]' = Members[i]
      BY <2>3
    <3>2. \A i \in Ids : Applied(Members, "registrar_group_map", draft[q])[i]' =
                         Applied(Members, "registrar_group_map", draft[q])[i]
      BY <1>2, <3>1 DEF Applied
    <3>3. IntersectByInversion(Applied(Members, "registrar_group_map", draft[q]))
      BY <2>1, <2>3 DEF MembershipKept, Members
    <3> QED BY <3>2, <3>3 DEF IntersectByInversion
  <2> QED BY <1>2, <1>3, <2>1, <2>2, <2>3 DEF MembershipKept, Members
<1> QED BY <1>7, <1>8 DEF Memberships

LEMMA RollbackMemberships ==
    ASSUME Base, Base', Memberships, NEW p \in Process, Rollback(p)
    PROVE  Memberships'
<1>1. db' = db /\ OnlyOf(p) /\ draft'[p] = {} /\ stage'[p] = "idle"
  BY EndFacts DEF Rollback, Base, Shaped
<1>2. RowsTyped("registrar_group_map", MembershipRow)'
  BY <1>1 DEF Memberships, RowsTyped, OnlyOf
<1> QED BY <1>1, <1>2, LeavingMemberships DEF Members

LEMMA CommitMemberships ==
    ASSUME Base, Base', Memberships, NEW p \in Process, Commit(p)
    PROVE  Memberships'
<1> DEFINE T == "registrar_group_map"
<1>1. T \in Tables /\ T \in Guarded
  BY StartIsStored DEF Guarded
<1>2. stage[p] = "written" /\ OnlyOf(p) /\ stage'[p] = "idle" /\ OnCourse(p) /\ MembershipKept(p)
  BY CommitFacts, EndFacts DEF Base, Memberships
<1>3. RowsTyped(T, MembershipRow)'
  BY <1>1, CommittedTyped DEF Memberships
<1>4. ASSUME NEW q \in Process \ {p}, call[q].kind = "createMembership", stage[q] = "written"
      PROVE  HoldsLock(q, T, {"access exclusive"}) /\ \A c \in draft[p] : c.table # T
  <2>1. HoldsLock(q, T, {"access exclusive"})
    BY <1>4 DEF Base, OnCourse, LocksKept, Keepers, Keeps
  <2>2. p \in Process \ {q} /\ {"access exclusive"} \subseteq {"exclusive", "access exclusive"}
    OBVIOUS
  <2> HIDE DEF T
  <2>3. \A c \in draft[p] : c.table # T
    BY <1>1, <2>1, <2>2, OnlyWriter
  <2> QED BY <2>1, <2>3
<1>5. CASE \A c \in draft[p] : c.table # T
  <2>1. \A i \in Ids : Members[i]' = Members[i]
    BY <1>1, <1>5, Untouched DEF Members
  <2> QED BY <1>2, <1>3, <2>1, LeavingMemberships
<1>6. CASE call[p].kind = "createMembership"
  <2>1. HoldsLock(p, T, {"access exclusive"})
    BY <1>2, <1>6 DEF OnCourse, LocksKept, Keepers, Keeps
  <2>2. ASSUME NEW q \in Process \ {p}
        PROVE  ~Ender(q)' /\ ~(call'[q].kind = "createMembership" /\ stage'[q] = "written")
    BY <1>2, <2>1, NobodyEnds DEF OnlyOf, Ender
  <2>3. ~Ender(p)'
    BY <1>2 DEF Ender
  <2>4. Members' = Applied(Members, T, draft[p])
    BY <1>1, CommitFacts DEF Members
  <2>5. IntersectByInversion(Members)'
    BY <1>2, <1>6, <2>4 DEF MembershipKept, Members
  <2>6. Disjoint'
    <3>1. NobodyIsEnding'
      BY <2>2, <2>3 DEF NobodyIsEnding
    <3>2. Alone'
      BY <1>3, <2>5, <3>1 DEF Alone
    <3>3. (Alone => Disjoint)'
      BY AloneDisjoint, PTL
    <3> QED BY <3>2, <3>3
  <2>7. ASSUME NEW q \in Process, stage'[q] # "idle" PROVE MembershipKept(q)'
    BY <1>2, <2>2, <2>7 DEF MembershipKept
  <2> QED BY <1>3, <2>6, <2>7 DEF Memberships
<1>7. CASE call[p].kind = "endMembership"
  <2>1. Ender(p) /\ EndsFound(p)
    BY <1>2, <1>7 DEF Ender, MembershipKept
  <2>2. ASSUME NEW c \in draft[p], c.table = T
        PROVE  /\ c.id \in Found(p) /\ Members[c.id] # None /\ Members[c.id] \in MembershipRow
               /\ c.row = [group |-> Members[c.id].group, from |-> Members[c.id].from, to |-> day[p]]
    <3>1. c.id \in Found(p) /\ Members[c.id] # None
      BY <2>1, <2>2 DEF EndsFound, Found, Members
    <3>2. Members[c.id] \in MembershipRow
      BY <3>1 DEF Memberships, RowsTyped, Members, Found
    <3> QED BY <2>1, <2>2, <3>1, <3>2 DEF EndsFound, Members
  <2>3. ASSUME NEW c \in draft[p], c.table = T PROVE c.row # None
    <3>1. Members[c.id].group \in Ids /\ Members[c.id].from \in Nat /\ day[p] \in Until
      BY <2>2, <2>3 DEF MembershipRow, Base, Engaged, Until
    <3>2. c.row \in MembershipRow
      <4>1. c.row = [group |-> Members[c.id].group, from |-> Members[c.id].from, to |-> day[p]]
        BY <2>2, <2>3
      <4> QED BY <3>1, <4>1 DEF MembershipRow
    <3> QED BY <3>2, NoneIsNoRow
  <2>4. ASSUME NEW i \in Ids
        PROVE  \/ Members[i]' = Members[i]
               \/ /\ Ender(p) /\ i \in Found(p) /\ Members[i] # None /\ Members[i]' # None
                  /\ Members[i]' = [group |-> Members[i].group, from |-> Members[i].from, to |-> day[p]]
    <3>1. \/ Members[i]' = Members[i]
          \/ \E c \in draft[p] : c.table = T /\ c.id = i /\ Members[i]' = c.row
      BY <1>1, CommittedRows DEF Members
    <3> QED BY <2>1, <2>2, <2>3, <3>1
  <2>5. \A q \in Process \ {p} :
           call[q].kind = "createMembership" /\ stage[q] = "written" =>
               \A i \in Ids : Members[i]' = Members[i]
    BY <1>1, <1>4, Untouched DEF Members
  <2> QED BY <1>2, <1>3, <2>4, <2>5, LeavingMemberships
<1>8. \A c \in draft[p] : c.table = T => call[p].kind \in {"createMembership", "endMembership"}
  BY <1>1, <1>2 DEF OnCourse, WritersHold, WritersOf
<1> QED BY <1>5, <1>6, <1>7, <1>8

LEMMA InitMemberships == Init => Memberships
<1> SUFFICES ASSUME Init PROVE Memberships
  OBVIOUS
<1>1. RowsTyped("registrar_group_map", MembershipRow)
  BY StartIsStored DEF Init, RowsTyped
<1>2. \A q \in Process : ~Ender(q) /\ stage[q] = "idle"
  BY DEF Init, Ender
<1>3. IntersectByInversion(Members)
  BY StartIsStored DEF Init, Members
<1>4. Disjoint
  BY <1>1, <1>2, <1>3, AloneDisjoint DEF NobodyIsEnding, Alone
<1> QED BY <1>1, <1>2, <1>4 DEF Memberships


-----------------------------------------------------------------------------
(* The invariant is inductive.                                             *)

LEMMA IdlePeriods ==
    ASSUME Periods, db' = db, UNCHANGED <<workload, call, stage, day, draft, seen, locks>>
    PROVE  Periods'
<1>1. RowsTyped("registrarinvoice", PeriodRow)' /\ RowsTyped("registrar_certification", PeriodRow)'
  BY DEF Periods, RowsTyped
<1>2. ASSUME NEW q \in Process, stage'[q] # "idle"
      PROVE  AccessKept(q)' /\ CertificationKept(q)' /\ GroupEmpty(q)'
  BY <1>2 DEF Periods, AccessKept, CertificationKept, GroupEmpty, FitsSeen, Deletes, RowsOf
<1> QED BY <1>1, <1>2 DEF Periods

LEMMA IdleMemberships ==
    ASSUME Memberships, db' = db, UNCHANGED <<workload, call, stage, day, draft, seen, locks>>
    PROVE  Memberships'
<1>1. RowsTyped("registrar_group_map", MembershipRow)'
  BY DEF Memberships, RowsTyped
<1>2. \A q \in Process : (Ender(q)' <=> Ender(q)) /\ Found(q)' = Found(q)
  BY DEF Ender, Found, LastsAfter
<1>3. \A i : Ends(i)' = Ends(i)
  BY <1>2 DEF Ends
<1>4. Disjoint'
  BY <1>3 DEF Memberships, Disjoint, RowsOf
<1>5. ASSUME NEW q \in Process, stage'[q] # "idle" PROVE MembershipKept(q)'
  BY <1>2, <1>5 DEF Memberships, MembershipKept, EndsFound
<1> QED BY <1>1, <1>4, <1>5 DEF Memberships

LEMMA IdleIInv ==
    ASSUME IInv, db' = db, UNCHANGED <<workload, call, stage, day, draft, seen, locks>>, today' \in Nat
    PROVE  IInv'
  BY IdleBase, IdlePeriods, IdleMemberships DEF IInv

LEMMA OperationIInv ==
    ASSUME IInv, NEW p \in Process,
           \/ ZoneAccess(p) \/ Certification(p) \/ Group(p) \/ Credit(p)
           \/ Accounts(p) \/ Administer(p) \/ Register(p) \/ Verify(p)
    PROVE  IInv'
<1>1. Base /\ Periods /\ Memberships /\ Shaped
  BY DEF IInv, Base
<1>2. CASE ZoneAccess(p)
  <2>1. Base' /\ Periods' /\ Own(p)
    BY <1>1, <1>2, ZoneAccessBase, ZoneAccessPeriods, ZoneAccessOwn
  <2>2. call[p].kind \in {"addAccess", "updateAccess", "deleteAccess"}
    BY <1>2 DEF ZoneAccess, LockRegistrarinvoice, AddRegistrarZoneAccess, UpdateRegistrarZoneAccess,
                DeleteRegistrarZoneAccess, At
  <2> QED BY <1>1, <2>1, <2>2, OtherMemberships DEF IInv
<1>3. CASE Certification(p)
  <2>1. Base' /\ Periods' /\ Own(p)
    BY <1>1, <1>3, CertificationBase, CertificationPeriods, CertificationOwn
  <2>2. call[p].kind \in {"createCertification", "updateCertification", "deleteCertification"}
    BY <1>3 DEF Certification, LockRegistrarCertification, CreateRegistrarCertification,
                UpdateRegistrarCertification, DeleteRegistrarCertification, At
  <2> QED BY <1>1, <2>1, <2>2, OtherMemberships DEF IInv
<1>4. CASE Group(p)
  BY <1>1, <1>4, GroupBase, GroupPeriods, GroupMemberships DEF IInv
<1>5. CASE Credit(p)
  <2>1. Base' /\ Periods' /\ Own(p) /\ call[p].kind = "charge"
    BY <1>1, <1>5, CreditBase, CreditPeriods, CreditFacts
  <2> QED BY <1>1, <2>1, OtherMemberships DEF IInv
<1>6. CASE Accounts(p) \/ Administer(p) \/ Register(p) \/ Verify(p)
  <2>1. Elsewhere(p)
    BY <1>1, <1>6, AccountsElsewhere, AdministerElsewhere, RegisterElsewhere, VerifyElsewhere
  <2>2. Base'
    BY <1>1, <2>1, ElsewhereBase
  <2> QED BY <1>1, <2>1, <2>2, ElsewherePeriods, ElsewhereMemberships DEF IInv
<1> QED BY <1>2, <1>3, <1>4, <1>5, <1>6

LEMMA EndIInv ==
    ASSUME IInv, NEW p \in Process, Begin(p) \/ Commit(p) \/ Rollback(p)
    PROVE  IInv'
<1>1. Base /\ Periods /\ Memberships /\ Shaped
  BY DEF IInv, Base
<1>2. CASE Begin(p)
  <2>1. Base'
    BY <1>1, <1>2, BeginBase
  <2> QED BY <1>1, <1>2, <2>1, BeginPeriods, BeginMemberships DEF IInv
<1>3. CASE Commit(p)
  <2>1. End(p) /\ DOMAIN db' = Tables /\ \A t \in Tables : DOMAIN db'[t] = Ids
    BY <1>1, <1>3, CommitFacts
  <2>2. Base'
    BY <1>1, <2>1, EndBase
  <2> QED BY <1>1, <1>3, <2>2, CommitPeriods, CommitMemberships DEF IInv
<1>4. CASE Rollback(p)
  <2>1. End(p) /\ DOMAIN db' = Tables /\ \A t \in Tables : DOMAIN db'[t] = Ids
    BY <1>1, <1>4 DEF Rollback, Shaped
  <2>2. Base'
    BY <1>1, <2>1, EndBase
  <2> QED BY <1>1, <1>4, <2>2, RollbackPeriods, RollbackMemberships DEF IInv
<1> QED BY <1>2, <1>3, <1>4

LEMMA Invariant ==
    /\ Init => IInv
    /\ IInv /\ [Next]_vars => IInv'
<1>1. Init => IInv
  BY InitBase, InitPeriods, InitMemberships DEF IInv
<1>2. ASSUME IInv, Next PROVE IInv'
  <2>1. CASE Tick
    <3>1. today' \in Nat
      BY <1>2, <2>1 DEF Tick, IInv, Base, Shaped
    <3> QED BY <1>2, <2>1, <3>1, IdleIInv DEF Tick
  <2>2. CASE ~Tick
    <3>1. PICK p \in Process :
             \/ Begin(p) \/ Commit(p) \/ Rollback(p)
             \/ ZoneAccess(p) \/ Certification(p) \/ Group(p) \/ Credit(p)
             \/ Accounts(p) \/ Administer(p) \/ Register(p) \/ Verify(p)
      BY <1>2, <2>2 DEF Next
    <3> QED BY <1>2, <3>1, OperationIInv, EndIInv
  <2> QED BY <2>1, <2>2
<1>3. ASSUME IInv, UNCHANGED vars PROVE IInv'
  <2>1. today' \in Nat
    BY <1>3 DEF vars, IInv, Base, Shaped
  <2> QED BY <1>3, <2>1, IdleIInv DEF vars
<1> QED BY <1>1, <1>2, <1>3


LEMMA Invariance == Spec => []IInv
<1> QED BY Invariant, PTL DEF Spec

-----------------------------------------------------------------------------
(* The locks of whole tables conflict as they should, and who has written  *)
(* a table holds one of it until it ends: LOCK TABLE in the operations     *)
(* that check a table before they write to it.                             *)
THEOREM WritersAreLocked == Spec => []Base
<1>1. IInv => Base
  BY DEF IInv
<1> QED BY <1>1, Invariance, PTL

(* create_registrar_credit_transaction finds the first row of the credit,  *)
(* its own or that of another, for it reads the table again only when      *)
(* nobody can be about to insert one.                                      *)
THEOREM FirstCharges == Spec => []FirstChargesSucceed
<1>1. IInv => FirstChargesSucceed
  BY DEF IInv, Base, OnCourse, FirstChargesSucceed
<1> QED BY <1>1, Invariance, PTL

(* Memberships of a group that create_registrar_group_membership and       *)
(* end_registrar_group_membership leave intersect only if one has been     *)
(* ended before it began, also while others end the same ones.             *)
THEOREM MembershipsIntersect == Spec => []MembershipsIntersectByInversion
<1>1. ASSUME IInv PROVE MembershipsIntersectByInversion
  <2> DEFINE T == "registrar_group_map"
  <2>1. \A i \in RowsOf(T) : i \in Ids /\ Members[i] \in MembershipRow /\ Members[i].to \in Ends(i)
    BY <1>1, EndsTyped DEF IInv, Memberships, RowsOf
  <2>2. \A i \in Ids : Members[i] # None => i \in RowsOf(T)
    BY DEF RowsOf, Members
  <2>3. CASE \E i \in RowsOf(T) : \A e \in Ends(i) : e # None /\ e < Members[i].from
    <3>1. PICK i \in RowsOf(T) : Members[i].to # None /\ Members[i].to < Members[i].from
      BY <2>1, <2>3
    <3>2. i \in Ids /\ Members[i] # None /\ ~NotAfter(Members[i].from, Members[i].to)
      BY <2>1, <3>1, NoneIsNoRow DEF NotAfter, MembershipRow, Until
    <3> QED BY <3>2 DEF MembershipsIntersectByInversion, IntersectByInversion, Members
  <2>4. CASE \A i, j \in RowsOf(T) :
                i # j /\ Members[i].group = Members[j].group =>
                   \A e \in Ends(i), f \in Ends(j) :
                      ~((f # None => Members[i].from < f) /\ (e # None => Members[j].from < e))
    BY <2>1, <2>2, <2>4 DEF MembershipsIntersectByInversion, IntersectByInversion, Members
  <2> QED BY <1>1, <2>3, <2>4 DEF IInv, Memberships, Disjoint, Members
<1> QED BY <1>1, Invariance, PTL

-----------------------------------------------------------------------------
(* A group that cancel_registrar_group cancels has no members on that day: *)
(* it locks the table of memberships before it looks for them and until it *)
(* ends.                                                                   *)
THEOREM GroupWasEmpty == Spec => CancelledGroupWasEmpty
<1> DEFINE Empties ==
        \A p \in Process : Commit(p) /\ call[p].kind = "cancelGroup" =>
          \A i \in RowsOf("registrar_group_map") :
              ~IsMember(db["registrar_group_map"][i], call[p].id, day[p])
<1>1. ASSUME IInv PROVE Empties
  BY <1>1 DEF IInv, Periods, GroupEmpty, Commit
<1>2. IInv => [Empties]_vars
  BY <1>1
<1> QED BY <1>2, Invariance, PTL DEF CancelledGroupWasEmpty

(* What operations that write no row of the table, or only delete rows of  *)
(* it, make of two rows                                                    *)
LEMMA DeletedOrKept ==
    ASSUME Base, NEW p \in Process, Commit(p), NEW table \in Tables, Deletes(p, table),
           NEW i \in Ids, db'[table][i] # None
    PROVE  db'[table][i] = db[table][i]
  BY CommittedRows DEF Deletes

(* create_registrar_certification leaves no other certification that is    *)
(* valid on the first day of the new one or later, and keeps the table     *)
(* locked; deleting does not extend any.                                   *)
THEOREM CertificationsOverlap == Spec => CertificationOverlapByUpdate
<1> DEFINE T == "registrar_certification"
           Apart ==
        \A p \in Process : Commit(p) /\ call[p].kind # "updateCertification" =>
          \A i, j \in RowsOf("registrar_certification")' :
              LET old == db["registrar_certification"]
                  new == db'["registrar_certification"]
              IN i # j /\ Overlap(new[i], new[j]) =>
                    old[i] # None /\ old[j] # None /\ Overlap(old[i], old[j])
<1>1. ASSUME IInv PROVE Apart
  <2> SUFFICES ASSUME NEW p \in Process, Commit(p), call[p].kind # "updateCertification",
                      NEW i \in Ids, NEW j \in Ids, i # j, OverlapAt(db'[T], i, j)
               PROVE  OverlapAt(db[T], i, j)
    BY DEF RowsOf, OverlapAt
  <2>1. Base /\ T \in Tables /\ T \in Guarded /\ stage[p] = "written" /\ OnCourse(p) /\ CertificationKept(p)
    BY <1>1, StartIsStored, CommitFacts DEF IInv, Base, Periods, Guarded
  <2>2. CASE call[p].kind = "createCertification"
    <3>1. db'[T] = Applied(db[T], T, draft[p])
      BY <2>1, CommitFacts
    <3> QED BY <2>1, <2>2, <3>1 DEF CertificationKept, NoNewOverlap
  <2>3. CASE call[p].kind # "createCertification"
    <3>1. Deletes(p, T)
      BY <2>1, <2>3 DEF CertificationKept, OnCourse, WritersHold, WritersOf, Deletes
    <3>2. db'[T][i] = db[T][i] /\ db'[T][j] = db[T][j]
      BY <2>1, <3>1, DeletedOrKept DEF OverlapAt
    <3> QED BY <3>2 DEF OverlapAt
  <2> QED BY <2>2, <2>3
<1>2. IInv => [Apart]_vars
  BY <1>1
<1> QED BY <1>2, Invariance, PTL DEF CertificationOverlapByUpdate

(* update_registrar_zone_access compares its row in the statement that     *)
(* updates it, without a lock of the table: two accesses come to overlap   *)
(* only when another transaction has changed one of them since.            *)
THEOREM AccessOverlaps == Spec => AccessOverlapWasConcurrent
<1> DEFINE T == "registrarinvoice"
           Concurrent ==
        \A p \in Process : Commit(p) =>
          \A i, j \in RowsOf("registrarinvoice")' :
              LET old == db["registrarinvoice"]
                  new == db'["registrarinvoice"]
              IN i # j /\ Overlap(new[i], new[j])
                 /\ ~(old[i] # None /\ old[j] # None /\ Overlap(old[i], old[j]))
                 => /\ call[p].kind = "updateAccess"
                    /\ \E k \in {i, j} \ {call[p].id} : seen[p][k] # old[k]
<1>1. ASSUME IInv PROVE Concurrent
  <2> SUFFICES ASSUME NEW p \in Process, Commit(p), NEW i \in Ids, NEW j \in Ids, i # j,
                      OverlapAt(db'[T], i, j), ~OverlapAt(db[T], i, j)
               PROVE  /\ call[p].kind = "updateAccess"
                      /\ \E k \in {i, j} \ {call[p].id} : seen[p][k] # db[T][k]
    BY DEF RowsOf, OverlapAt
  <2>1. Base /\ T \in Tables /\ T \in Guarded /\ stage[p] = "written" /\ OnCourse(p) /\ AccessKept(p)
    BY <1>1, StartIsStored, CommitFacts DEF IInv, Base, Periods, Guarded
  <2>2. CASE call[p].kind = "addAccess"
    <3>1. db'[T] = Applied(db[T], T, draft[p])
      BY <2>1, CommitFacts
    <3> QED BY <2>1, <2>2, <3>1 DEF AccessKept, NoNewOverlap
  <2>3. CASE call[p].kind \notin {"addAccess", "updateAccess"}
    <3>1. Deletes(p, T)
      BY <2>1, <2>3 DEF AccessKept, OnCourse, WritersHold, WritersOf, Deletes
    <3>2. db'[T][i] = db[T][i] /\ db'[T][j] = db[T][j]
      BY <2>1, <3>1, DeletedOrKept DEF OverlapAt
    <3> QED BY <3>2 DEF OverlapAt
  <2>4. CASE call[p].kind = "updateAccess"
    <3>1. ASSUME NEW k \in Ids, db'[T][k] # db[T][k]
          PROVE  k = call[p].id /\ \A l \in Ids \ {k} : seen[p][l] # None => ~Overlap(seen[p][l], db'[T][k])
      <4>1. PICK c \in draft[p] : c.table = T /\ c.id = k /\ db'[T][k] = c.row
        BY <2>1, <3>1, CommittedRows
      <4> QED BY <2>1, <2>4, <4>1 DEF AccessKept, FitsSeen
    <3>2. ASSUME NEW k \in Ids, NEW l \in Ids, k # l, OverlapAt(db'[T], k, l), db'[T][k] # db[T][k]
          PROVE  l # call[p].id /\ seen[p][l] # db[T][l]
      <4>1. k = call[p].id /\ (seen[p][l] # None => ~Overlap(seen[p][l], db'[T][k]))
        BY <3>1, <3>2
      <4>2. db'[T][l] = db[T][l]
        BY <3>1, <3>2, <4>1
      <4> QED BY <3>2, <4>1, <4>2 DEF OverlapAt, Overlap
    <3>3. OverlapAt(db'[T], j, i)
      BY DEF OverlapAt, Overlap
    <3>4. db'[T][i] # db[T][i] \/ db'[T][j] # db[T][j]
      BY DEF OverlapAt
    <3> QED BY <2>4, <3>2, <3>3, <3>4
  <2> QED BY <2>2, <2>3, <2>4
<1>2. IInv => [Concurrent]_vars
  BY <1>1
<1> QED BY <1>2, Invariance, PTL DEF AccessOverlapWasConcurrent

-----------------------------------------------------------------------------
(* Rows that are locked or written one by one                              *)

(* Tables of which rows are locked FOR SHARE                               *)
RowTables == {"registrar", "zone"}

(* Tables of checks of contacts                                            *)
CheckTables == {"contact_check", "contact_test_result"}

(* Tables of which a row is written by one transaction at a time           *)
RowwiseTables ==
    RowTables \cup {"zone_soa", "domain", "domain_blacklist", "checker_map"} \cup CheckTables

(* Who writes the tables of zones, names and checks                        *)
OwnersOf(table) ==
    CASE table = "zone"             -> {"createZone", "updateZone"}
      [] table = "checker_map"      -> {"setConfig"}
      [] table = "domain"           -> {"register"}
      [] table = "domain_blacklist" -> {"blacklist"}
      [] table = "contact_check"    -> {"createCheck", "updateCheck"}
      [] table = "contact_test_result" -> {"createTest", "updateTest"}

OwnedTables == {"zone", "checker_map", "domain", "domain_blacklist"} \cup CheckTables

(* Rows that a transaction has locked are there, and nobody else has       *)
(* written them.                                                           *)
RowsLocked(p) ==
    \A l \in locks[p] : l.row # None =>
        /\ l.table \in RowTables /\ l.row \in Ids /\ db[l.table][l.row] # None
        /\ Unwritten(p, l.table, l.row)

RowsWritten(p) ==
    \A c \in draft[p] :
        /\ c.id # None
        /\ c.table \in RowwiseTables => c.id \in Ids /\ Unwritten(p, c.table, c.id)
        /\ c.table \in OwnedTables => call[p].kind \in OwnersOf(c.table)

AskedColumns(p) ==
    IF call[p].kind = "updateRegistrar" THEN ToNull(call[p].set) ELSE call[p].set

Updaters == {"updateZone", "updateSoa", "updateRegistrar"}

(* What an update has written is the row as it still is, with the columns  *)
(* that it was given.                                                      *)
WritesAsked(p) ==
    stage[p] = "written" /\ call[p].kind \in Updaters =>
        \A c \in draft[p] :
            c.table \in RowwiseTables /\ c.row = With(db[c.table][c.id], AskedColumns(p))

RowsKept == \A p \in Process : RowsLocked(p) /\ RowsWritten(p) /\ WritesAsked(p)

(* A statement of p locks rows that nobody else has written, and writes    *)
(* rows that nobody else has written or locked.                            *)
Considerate(p) ==
    /\ \A l \in locks'[p] \ locks[p] : l.row # None =>
          /\ l.table \in RowTables /\ l.row \in Ids /\ db[l.table][l.row] # None
          /\ Unwritten(p, l.table, l.row)
    /\ \A c \in draft'[p] \ draft[p] :
          /\ c.id # None
          /\ c.table \in RowwiseTables => c.id \in Ids /\ RowFree(p, c.table, c.id)
          /\ c.table \in OwnedTables => call[p].kind \in OwnersOf(c.table)
    /\ WritesAsked(p)'

LEMMA IdsAreNumbers == Ids \subseteq Nat /\ None \notin Ids
  BY NoneIsNoRow DEF Ids

LEMMA ConsiderateKeeps ==
    ASSUME RowsKept, NEW p \in Process, Own(p), Considerate(p)
    PROVE  RowsKept'
<1>1. /\ db' = db /\ call' = call
      /\ \A q \in Process \ {p} : stage'[q] = stage[q] /\ draft'[q] = draft[q] /\ locks'[q] = locks[q]
  BY DEF Own
<1>2. ASSUME NEW table, NEW id, Unwritten(p, table, id) PROVE Unwritten(p, table, id)'
  BY <1>1, <1>2 DEF Unwritten
<1>3. ASSUME NEW q \in Process \ {p}, NEW table \in RowwiseTables, NEW id, Unwritten(q, table, id),
             \/ \E c \in draft[q] : c.table = table /\ c.id = id
             \/ \E l \in locks[q] : l.table = table /\ l.row = id
      PROVE  Unwritten(q, table, id)'
  <2>1. \A c \in draft'[p] : ~(c.table = table /\ c.id = id)
    <3> SUFFICES ASSUME NEW c \in draft'[p], c.table = table, c.id = id PROVE FALSE
      OBVIOUS
    <3>1. c \notin draft[p]
      BY <1>3 DEF Unwritten
    <3>2. RowFree(p, table, id)
      BY <1>3, <3>1 DEF Considerate
    <3> QED BY <1>3, <3>2 DEF RowFree, Unwritten
  <2> QED BY <1>1, <1>3, <2>1 DEF Unwritten
<1>4. RowsLocked(p)'
  <2> SUFFICES ASSUME NEW l \in locks'[p], l.row # None
               PROVE  /\ l.table \in RowTables /\ l.row \in Ids /\ db[l.table][l.row] # None
                      /\ Unwritten(p, l.table, l.row)'
    BY <1>1 DEF RowsLocked
  <2>1. /\ l.table \in RowTables /\ l.row \in Ids /\ db[l.table][l.row] # None
        /\ Unwritten(p, l.table, l.row)
    BY DEF RowsKept, RowsLocked, Considerate
  <2> QED BY <1>2, <2>1
<1>5. RowsWritten(p)'
  <2> SUFFICES ASSUME NEW c \in draft'[p]
               PROVE  /\ c.id # None
                      /\ c.table \in RowwiseTables => c.id \in Ids /\ Unwritten(p, c.table, c.id)'
                      /\ c.table \in OwnedTables => call[p].kind \in OwnersOf(c.table)
    BY <1>1 DEF RowsWritten
  <2>1. /\ c.id # None /\ (c.table \in RowwiseTables => c.id \in Ids /\ Unwritten(p, c.table, c.id))
        /\ c.table \in OwnedTables => call[p].kind \in OwnersOf(c.table)
    BY DEF RowsKept, RowsWritten, Considerate, RowFree
  <2> QED BY <1>2, <2>1
<1>6. ASSUME NEW q \in Process \ {p} PROVE RowsLocked(q)' /\ RowsWritten(q)' /\ WritesAsked(q)'
  <2>1. RowsLocked(q) /\ RowsWritten(q) /\ WritesAsked(q)
    BY DEF RowsKept
  <2>2. RowsLocked(q)'
    <3> SUFFICES ASSUME NEW l \in locks[q], l.row # None
                 PROVE  /\ l.table \in RowTables /\ l.row \in Ids /\ db[l.table][l.row] # None
                        /\ Unwritten(q, l.table, l.row)'
      BY <1>1 DEF RowsLocked
    <3>1. /\ l.table \in RowTables /\ l.row \in Ids /\ db[l.table][l.row] # None
          /\ Unwritten(q, l.table, l.row)
      BY <2>1 DEF RowsLocked
    <3> QED BY <1>3, <3>1 DEF RowwiseTables, CheckTables
  <2>3. RowsWritten(q)'
    BY <1>1, <1>3, <2>1 DEF RowsWritten
  <2>4. WritesAsked(q)'
    BY <1>1, <2>1 DEF WritesAsked, AskedColumns
  <2> QED BY <2>2, <2>3, <2>4
<1> QED BY <1>4, <1>5, <1>6 DEF RowsKept, Considerate

(* A new row is nobody's.                                                  *)
LEMMA NewRowFree ==
    ASSUME RowsKept, NEW p \in Process, NEW table, NEW i \in NewIds(table)
    PROVE  i \in Ids /\ i # None /\ RowFree(p, table, i)
<1>1. i \in Ids /\ i # None /\ db[table][i] = None /\ i \notin Drafted(table)
  BY IdsAreNumbers DEF NewIds
<1>2. Unwritten(p, table, i)
  BY <1>1 DEF Unwritten, Drafted
<1>3. \A q \in Process : \A l \in locks[q] : ~(l.table = table /\ l.row = i)
  BY <1>1 DEF RowsKept, RowsLocked
<1> QED BY <1>1, <1>2, <1>3 DEF RowFree


LEMMA AcquiringNoRow ==
    ASSUME Shaped, NEW p \in Process, NEW table, NEW mode, Acquire(p, table, mode)
    PROVE  \A l \in locks'[p] \ locks[p] : l.row = None
<1> DEFINE lock == TableLock(table, mode)
<1>1. locks'[p] = locks[p] \cup {lock} /\ lock.row = None
  BY Acquiring DEF TableLock
<1> QED BY <1>1

(* Rows of other tables are not locked one by one.                         *)
LEMMA WritesElsewhere ==
    ASSUME Shaped, NEW p \in Process, call' = call, call[p].kind \notin Updaters,
           \A l \in locks'[p] \ locks[p] : l.row = None,
           \A c \in draft'[p] \ draft[p] : c.id \in Ids /\ c.table \notin RowwiseTables
    PROVE  Considerate(p)
  BY IdsAreNumbers DEF Considerate, WritesAsked, OwnedTables, CheckTables, RowwiseTables, RowTables

LEMMA ReadsOnly ==
    ASSUME Shaped, NEW p \in Process, call' = call, stage'[p] # "written",
           \A l \in locks'[p] \ locks[p] : l.row = None, draft'[p] = draft[p]
    PROVE  Considerate(p)
  BY DEF Considerate, WritesAsked

LEMMA WritesNewRow ==
    ASSUME RowsKept, Shaped, NEW p \in Process, call' = call, call[p].kind \notin Updaters, locks' = locks,
           NEW table, NEW i \in NewIds(table), NEW row, Written(p, {Row(table, i, row)}),
           table \in OwnedTables => call[p].kind \in OwnersOf(table)
    PROVE  Considerate(p)
<1>1. \A c \in draft'[p] : c.table = table /\ c.id = i
  BY WritingRow
<1>2. i \in Ids /\ i # None /\ RowFree(p, table, i)
  BY NewRowFree
<1> QED BY <1>1, <1>2 DEF Considerate, WritesAsked

LEMMA UpdatesRow ==
    ASSUME Shaped, NEW p \in Process, call' = call, NEW table, NEW id \in Ids, NEW set,
           UpdateColumns(p, table, id, set),
           call[p].kind \in Updaters => table \in RowwiseTables /\ set = AskedColumns(p),
           table \in OwnedTables => call[p].kind \in OwnersOf(table)
    PROVE  Considerate(p)
<1>1. Written(p, {Row(table, id, With(db[table][id], set))}) /\ RowFree(p, table, id) /\ locks' = locks
  BY DEF UpdateColumns
<1>2. \A c \in draft'[p] : c.table = table /\ c.id = id /\ c.row = With(db[table][id], set)
  BY <1>1, WritingRow
<1>3. db' = db
  BY <1>1 DEF Written
<1>4. WritesAsked(p)'
  BY <1>2, <1>3 DEF WritesAsked, AskedColumns
<1> QED BY <1>1, <1>2, <1>4, IdsAreNumbers DEF Considerate

(* The calls that name a row                                               *)
LEMMA CalledId ==
    ASSUME Base, NEW p \in Process, stage[p] # "idle",
           call[p].kind \in {"updateAccess", "deleteAccess", "updateCertification", "deleteCertification",
                             "createMembership", "endMembership", "cancelGroup", "updateGroup",
                             "updateRegistrar", "updateNs", "updateAuth", "deleteAuth", "blacklist"}
    PROVE  call[p].id \in Ids
  BY CallsGiveDates DEF Base, Engaged, Shaped

LEMMA ZoneAccessConsiderate ==
    ASSUME Base, RowsKept, NEW p \in Process, ZoneAccess(p)
    PROVE  Considerate(p)
<1> USE DEF Updaters, RowTables, RowwiseTables, CheckTables, OwnedTables, OwnersOf
<1>1. Own(p) /\ Shaped /\ call' = call /\ stage[p] # "idle"
  BY ZoneAccessOwn DEF Base, Own
<1>2. CASE LockRegistrarinvoice(p)
  BY <1>1, <1>2, AcquiringNoRow, ReadsOnly DEF LockRegistrarinvoice, Lock, Passed, Shaped
<1>3. CASE AddRegistrarZoneAccess(p)
  BY <1>1, <1>3, WritesNewRow DEF AddRegistrarZoneAccess, At
<1>4. CASE UpdateRegistrarZoneAccess(p)
  <2>1. PICK row : Written(p, {Row("registrarinvoice", call[p].id, row)})
    BY <1>4 DEF UpdateRegistrarZoneAccess
  <2>2. \A c \in draft'[p] : c.table = "registrarinvoice" /\ c.id = call[p].id
    BY <1>1, <2>1, WritingRow
  <2>3. call[p].kind = "updateAccess" /\ call[p].id \in Ids
    BY <1>1, <1>4, CalledId DEF UpdateRegistrarZoneAccess, At
  <2>4. \A l \in locks'[p] \ locks[p] : l.row = None
    BY <1>1, <1>4, AcquiringNoRow DEF UpdateRegistrarZoneAccess
  <2> QED BY <1>1, <2>2, <2>3, <2>4, WritesElsewhere
<1>5. CASE DeleteRegistrarZoneAccess(p)
  <2>1. \A c \in draft'[p] : c.table = "registrarinvoice" /\ c.id = call[p].id
    <3>1. PICK row : Written(p, {Row("registrarinvoice", call[p].id, row)})
      BY <1>5 DEF DeleteRegistrarZoneAccess
    <3> QED BY <1>1, <3>1, WritingRow
  <2>2. call[p].kind = "deleteAccess" /\ call[p].id \in Ids
    BY <1>1, <1>5, CalledId DEF DeleteRegistrarZoneAccess, At
  <2>3. \A l \in locks'[p] \ locks[p] : l.row = None
    BY <1>1, <1>5, AcquiringNoRow DEF DeleteRegistrarZoneAccess
  <2> QED BY <1>1, <2>1, <2>2, <2>3, WritesElsewhere
<1> QED BY <1>2, <1>3, <1>4, <1>5 DEF ZoneAccess

LEMMA CertificationConsiderate ==
    ASSUME Base, RowsKept, NEW p \in Process, Certification(p)
    PROVE  Considerate(p)
<1> USE DEF Updaters, RowTables, RowwiseTables, CheckTables, OwnedTables, OwnersOf
<1>1. Own(p) /\ Shaped /\ call' = call /\ stage[p] # "idle"
  BY CertificationOwn DEF Base, Own
<1>2. CASE LockRegistrarCertification(p)
  BY <1>1, <1>2, AcquiringNoRow, ReadsOnly DEF LockRegistrarCertification, Lock, Passed, Shaped
<1>3. CASE CreateRegistrarCertification(p)
  <2>1. PICK i \in NewIds("registrar_certification") :
           Written(p, TruncatedRows(call[p].from) \cup {NewCertification(p, i)})
    BY <1>3, CertificationIsWritten
  <2>2. \A c \in TruncatedRows(call[p].from) : c.table = "registrar_certification" /\ c.id \in Ids
    BY DEF TruncatedRows, Row, Truncated, RowsOf
  <2>3. NewCertification(p, i).table = "registrar_certification" /\ NewCertification(p, i).id \in Ids
    BY <2>1 DEF NewCertification, Row, NewIds
  <2>4. \A c \in draft'[p] : c.table = "registrar_certification" /\ c.id \in Ids
    BY <1>1, <2>1, <2>2, <2>3, Writing
  <2>5. locks' = locks /\ call[p].kind = "createCertification"
    BY <1>3 DEF CreateRegistrarCertification, At
  <2> QED BY <1>1, <2>4, <2>5, WritesElsewhere
<1>4. CASE UpdateRegistrarCertification(p)
  <2>1. PICK row : Written(p, {Row("registrar_certification", call[p].id, row)})
    BY <1>4 DEF UpdateRegistrarCertification
  <2>2. \A c \in draft'[p] : c.table = "registrar_certification" /\ c.id = call[p].id
    BY <1>1, <2>1, WritingRow
  <2>3. call[p].kind = "updateCertification" /\ call[p].id \in Ids
    BY <1>1, <1>4, CalledId DEF UpdateRegistrarCertification, At
  <2>4. \A l \in locks'[p] \ locks[p] : l.row = None
    BY <1>1, <1>4, AcquiringNoRow DEF UpdateRegistrarCertification
  <2> QED BY <1>1, <2>2, <2>3, <2>4, WritesElsewhere
<1>5. CASE DeleteRegistrarCertification(p)
  <2>1. \A c \in draft'[p] : c.table = "registrar_certification" /\ c.id = call[p].id
    <3>1. PICK row : Written(p, {Row("registrar_certification", call[p].id, row)})
      BY <1>5 DEF DeleteRegistrarCertification
    <3> QED BY <1>1, <3>1, WritingRow
  <2>2. call[p].kind = "deleteCertification" /\ call[p].id \in Ids
    BY <1>1, <1>5, CalledId DEF DeleteRegistrarCertification, At
  <2>3. \A l \in locks'[p] \ locks[p] : l.row = None
    BY <1>1, <1>5, AcquiringNoRow DEF DeleteRegistrarCertification
  <2> QED BY <1>1, <2>1, <2>2, <2>3, WritesElsewhere
<1> QED BY <1>2, <1>3, <1>4, <1>5 DEF Certification


LEMMA GroupConsiderate ==
    ASSUME Base, RowsKept, NEW p \in Process, Group(p)
    PROVE  Considerate(p)
<1> USE DEF Updaters, RowTables, RowwiseTables, CheckTables, OwnedTables, OwnersOf
<1>1. Own(p) /\ Shaped /\ call' = call /\ stage[p] # "idle"
  BY GroupOwn DEF Base, Own
<1>2. CASE LockRegistrarGroup(p)
  BY <1>1, <1>2, AcquiringNoRow, ReadsOnly DEF LockRegistrarGroup, Lock, Passed, Shaped
<1>3. CASE CreateRegistrarGroup(p)
  BY <1>1, <1>3, WritesNewRow DEF CreateRegistrarGroup, At
<1>4. CASE UpdateRegistrarGroup(p)
  <2>1. PICK row : Written(p, {Row("registrar_group", call[p].id, row)})
    BY <1>4 DEF UpdateRegistrarGroup
  <2>2. \A c \in draft'[p] : c.table = "registrar_group" /\ c.id = call[p].id
    BY <1>1, <2>1, WritingRow
  <2>3. call[p].kind = "updateGroup" /\ call[p].id \in Ids /\ locks' = locks
    BY <1>1, <1>4, CalledId DEF UpdateRegistrarGroup, At
  <2> QED BY <1>1, <2>2, <2>3, WritesElsewhere
<1>5. CASE CheckNotCancelled(p)
  BY <1>1, <1>5, AcquiringNoRow, ReadsOnly DEF CheckNotCancelled, Passed, Shaped
<1>6. CASE LockMembers(p)
  BY <1>1, <1>6, AcquiringNoRow, ReadsOnly DEF LockMembers, Passed, Shaped
<1>7. CASE CancelRegistrarGroup(p)
  <2>1. PICK row : Written(p, {Row("registrar_group", call[p].id, row)})
    BY <1>7 DEF CancelRegistrarGroup
  <2>2. \A c \in draft'[p] : c.table = "registrar_group" /\ c.id = call[p].id
    BY <1>1, <2>1, WritingRow
  <2>3. call[p].kind = "cancelGroup" /\ call[p].id \in Ids
    BY <1>1, <1>7, CalledId DEF CancelRegistrarGroup, At
  <2>4. \A l \in locks'[p] \ locks[p] : l.row = None
    BY <1>1, <1>7, AcquiringNoRow DEF CancelRegistrarGroup
  <2> QED BY <1>1, <2>2, <2>3, <2>4, WritesElsewhere
<1>8. CASE LockRegistrarGroupMap(p)
  BY <1>1, <1>8, AcquiringNoRow, ReadsOnly DEF LockRegistrarGroupMap, Lock, Passed, Shaped
<1>9. CASE CreateRegistrarGroupMembership(p)
  <2>1. PICK i, last :
           /\ i \in NewIds("registrar_group_map") /\ last \subseteq Ids
           /\ Written(p, {NewMembership(p, i)} \cup EndedMemberships(p, last))
    <3>1. LastMemberships(call[p].id) \subseteq Ids
      BY DEF LastMemberships, MembershipsIn, RowsOf
    <3> QED BY <1>9, <3>1, MembershipIsWritten
  <2>2. \A c \in EndedMemberships(p, last) : c.table = "registrar_group_map" /\ c.id \in Ids
    BY <2>1 DEF EndedMemberships, EndedFor, Row
  <2>3. NewMembership(p, i).table = "registrar_group_map" /\ NewMembership(p, i).id \in Ids
    BY <2>1 DEF NewMembership, Row, NewIds
  <2>4. \A c \in draft'[p] : c.table = "registrar_group_map" /\ c.id \in Ids
    BY <1>1, <2>1, <2>2, <2>3, Writing
  <2>5. locks' = locks /\ call[p].kind = "createMembership"
    BY <1>9 DEF CreateRegistrarGroupMembership, At
  <2> QED BY <1>1, <2>4, <2>5, WritesElsewhere
<1>10. CASE FindMembership(p)
  BY <1>1, <1>10, AcquiringNoRow, ReadsOnly DEF FindMembership, Shaped
<1>11. CASE EndRegistrarGroupMembership(p)
  <2>1. Written(p, FoundRows(p))
    BY <1>11 DEF EndRegistrarGroupMembership, FoundRows, Found
  <2>2. \A c \in FoundRows(p) : c.table = "registrar_group_map" /\ c.id \in Ids
    BY DEF FoundRows, Found, Row
  <2>3. \A c \in draft'[p] : c.table = "registrar_group_map" /\ c.id \in Ids
    BY <1>1, <2>1, <2>2, Writing
  <2>4. call[p].kind = "endMembership" /\ \A l \in locks'[p] \ locks[p] : l.row = None
    BY <1>1, <1>11, AcquiringNoRow DEF EndRegistrarGroupMembership, At
  <2> QED BY <1>1, <2>3, <2>4, WritesElsewhere
<1> QED
  BY <1>2, <1>3, <1>4, <1>5, <1>6, <1>7, <1>8, <1>9, <1>10, <1>11 DEF Group

(* The row of the credit has the number 1.                                 *)
LEMMA CreditConsiderate ==
    ASSUME Base, RowsKept, NEW p \in Process, Credit(p)
    PROVE  Considerate(p)
<1> USE DEF Updaters, RowTables, RowwiseTables, CheckTables, OwnedTables, OwnersOf
<1>1. Own(p) /\ Shaped /\ call' = call /\ call[p].kind = "charge"
  BY CreditOwn, CreditFacts DEF Base, Own
<1>2. CASE FindCredit(p)
  <2>1. draft' = draft /\ stage'[p] # "written"
    BY <1>1, <1>2 DEF FindCredit, Passed, Shaped
  <2> QED BY <1>1, <1>2, <2>1, AcquiringNoRow, ReadsOnly DEF FindCredit
<1>3. CASE LockCredit(p)
  BY <1>1, <1>3, AcquiringNoRow, ReadsOnly DEF LockCredit, Passed, Shaped
<1>4. CASE InsertCredit(p)
  <2>1. locks' = locks /\ draft'[p] \subseteq {Row("registrar_credit", 1, "credit")}
    BY <1>1, <1>4 DEF InsertCredit, Shaped
  <2>2. \A c \in draft'[p] : c.table = "registrar_credit" /\ c.id # None
    BY <2>1, NoneIsNoRow DEF Row
  <2> QED BY <1>1, <2>1, <2>2 DEF Considerate, WritesAsked
<1>5. CASE CreateRegistrarCreditTransaction(p)
  <2>1. draft'[p] = draft[p] /\ \A l \in locks'[p] \ locks[p] : l.row = None
    BY <1>1, <1>5, AcquiringNoRow, Writing DEF CreateRegistrarCreditTransaction
  <2> QED BY <1>1, <2>1 DEF Considerate, WritesAsked
<1> QED BY <1>2, <1>3, <1>4, <1>5 DEF Credit

LEMMA LocksRows ==
    ASSUME Shaped, NEW p \in Process, NEW table \in RowTables, NEW ids,
           \A i \in ids : i \in Ids /\ db[table][i] # None /\ Unwritten(p, table, i),
           locks' = [locks EXCEPT ![p] = @ \cup {RowLock(table, i) : i \in ids}],
           call' = call, call[p].kind \notin Updaters, draft'[p] \subseteq draft[p]
    PROVE  Considerate(p)
<1> DEFINE new == {RowLock(table, i) : i \in ids}
<1>1. ASSUME NEW l \in new PROVE l.table = table /\ l.row \in ids
  <2>1. PICK i \in ids : l = RowLock(table, i)
    OBVIOUS
  <2> QED BY <2>1 DEF RowLock
<1>2. locks' = [locks EXCEPT ![p] = @ \cup new]
  OBVIOUS
<1> HIDE DEF new
<1>3. locks'[p] = locks[p] \cup new
  BY <1>2 DEF Shaped
<1>4. \A l \in locks'[p] \ locks[p] : l.table = table /\ l.row \in ids
  BY <1>1, <1>3
<1> QED BY <1>4 DEF Considerate, WritesAsked

LEMMA LocksRow ==
    ASSUME Shaped, NEW p \in Process, NEW table \in RowTables, NEW i \in RowsOf(table),
           Unwritten(p, table, i), locks' = [locks EXCEPT ![p] = @ \cup {RowLock(table, i)}],
           call' = call, call[p].kind \notin Updaters, draft'[p] \subseteq draft[p]
    PROVE  Considerate(p)
<1> DEFINE ids == {i}
<1>1. \A j \in ids : j \in Ids /\ db[table][j] # None /\ Unwritten(p, table, j)
  BY DEF RowsOf
<1>2. {RowLock(table, i)} = {RowLock(table, j) : j \in ids}
  OBVIOUS
<1>3. locks' = [locks EXCEPT ![p] = @ \cup {RowLock(table, j) : j \in ids}]
  BY <1>2
<1> HIDE DEF ids
<1> QED BY <1>1, <1>3, LocksRows


LEMMA AccountsConsiderate ==
    ASSUME Base, RowsKept, NEW p \in Process, Accounts(p)
    PROVE  Considerate(p)
<1> USE DEF Updaters, RowTables, RowwiseTables, CheckTables, OwnedTables, OwnersOf
<1>1. Own(p) /\ Shaped /\ call' = call /\ stage[p] # "idle"
  BY AccountsElsewhere DEF Base, Elsewhere, Own
<1>2. CASE CreateRegistrar(p)
  BY <1>1, <1>2, WritesNewRow DEF CreateRegistrar, At
<1>3. CASE UpdateRegistrar(p)
  <2>1. /\ UpdateColumns(p, "registrar", call[p].id, ToNull(call[p].set))
        /\ call[p].kind = "updateRegistrar"
    BY <1>3 DEF UpdateRegistrar, At
  <2>2. call[p].id \in Ids /\ ToNull(call[p].set) = AskedColumns(p)
    BY <1>1, <2>1, CalledId DEF AskedColumns
  <2> QED BY <1>1, <2>1, <2>2, UpdatesRow
<1>4. CASE InfoRegistrar(p)
  <2> DEFINE ids == Told(call[p])
  <2>1. \A i \in ids : i \in Ids /\ db["registrar"][i] # None /\ Unwritten(p, "registrar", i)
    BY <1>4 DEF InfoRegistrar, Told, RowsOf
  <2>2. locks' = [locks EXCEPT ![p] = @ \cup {RowLock("registrar", i) : i \in ids}]
    BY <1>4 DEF InfoRegistrar
  <2>3. call[p].kind = "infoRegistrar" /\ draft'[p] = {}
    BY <1>1, <1>4, Writing DEF InfoRegistrar, At
  <2> HIDE DEF ids
  <2> QED BY <1>1, <2>1, <2>2, <2>3, LocksRows
<1>5. CASE InfoRegistrarLocking(p)
  <2>1. draft'[p] = {} /\ call[p].id \in RowsOf("registrar") /\ Unwritten(p, "registrar", call[p].id)
    BY <1>1, <1>5, Writing DEF InfoRegistrarLocking, RowFree
  <2>2. /\ locks' = [locks EXCEPT ![p] = @ \cup {RowLock("registrar", call[p].id)}]
        /\ call[p].kind = "lockRegistrar"
    BY <1>5 DEF InfoRegistrarLocking, At
  <2> QED BY <1>1, <2>1, <2>2, LocksRow
<1>6. CASE AddRegistrarEppAuth(p)
  BY <1>1, <1>6, WritesNewRow DEF AddRegistrarEppAuth, At
<1>7. CASE CloneRegistrarEppAuth(p)
  BY <1>1, <1>7, WritesNewRow DEF CloneRegistrarEppAuth, At
<1>8. CASE UpdateRegistrarEppAuth(p)
  <2>1. PICK set : UpdateColumns(p, "registraracl", call[p].id, set)
    BY <1>8 DEF UpdateRegistrarEppAuth
  <2>2. call[p].kind = "updateAuth" /\ call[p].id \in Ids
    BY <1>1, <1>8, CalledId DEF UpdateRegistrarEppAuth, At
  <2> QED BY <1>1, <2>1, <2>2, UpdatesRow
<1>9. CASE DeleteRegistrarEppAuth(p)
  <2>1. PICK row : Written(p, {Row("registraracl", call[p].id, row)})
    BY <1>9 DEF DeleteRegistrarEppAuth
  <2>2. \A c \in draft'[p] : c.table = "registraracl" /\ c.id = call[p].id
    BY <1>1, <2>1, WritingRow
  <2>3. call[p].kind = "deleteAuth" /\ call[p].id \in Ids /\ locks' = locks
    BY <1>1, <1>9, CalledId DEF DeleteRegistrarEppAuth, At
  <2> QED BY <1>1, <2>2, <2>3, WritesElsewhere
<1> QED BY <1>2, <1>3, <1>4, <1>5, <1>6, <1>7, <1>8, <1>9 DEF Accounts

OldCheckers(p) == {Row("checker_map", i, None) : i \in seen[p].rows \cap RowsOf("checker_map")}

NewCheckers(p, ids) ==
    LET checkers == call[p].checkers \cap DOMAIN Rejects
    IN {Row("checker_map", i, [zone |-> seen[p].zone, checker |-> Numbering(ids, checkers)[i]]) : i \in ids}

(* There are as many ids as checkers, so that each checker gets its row.   *)
LEMMA NumberingIs ==
    ASSUME NEW ids \in SUBSET Ids, NEW checkers \in SUBSET DOMAIN Rejects, Cardinality(ids) = Cardinality(checkers)
    PROVE  /\ \A i \in ids : Numbering(ids, checkers)[i] \in checkers
           /\ \A x \in checkers : \E i \in ids : Numbering(ids, checkers)[i] = x
<1>1. IsFiniteSet(ids)
  <2>1. IsFiniteSet(Ids)
    BY NoneIsNoRow, FS_Interval DEF Ids
  <2> QED BY <2>1, FS_Subset
<1>2. IsFiniteSet(checkers)
  BY CheckersAreKnown, FS_Subset
<1>3. ExistsBijection(ids, checkers)
  BY <1>1, <1>2, FS_SameCardinalityBij
<1>4. PICK f \in [ids -> checkers] : \A x \in checkers : \E i \in ids : f[i] = x
  BY <1>3 DEF ExistsBijection, Bijection, Surjection
<1>5. /\ Numbering(ids, checkers) \in [ids -> checkers]
      /\ \A x \in checkers : \E i \in ids : Numbering(ids, checkers)[i] = x
  BY <1>4 DEF Numbering
<1> QED BY <1>5

LEMMA ConfigIsWritten ==
    ASSUME NEW p \in Process, SetConfig(p)
    PROVE  \E ids \in SUBSET FreshIds :
              /\ Cardinality(ids) = Cardinality(call[p].checkers \cap DOMAIN Rejects)
              /\ Written(p, OldCheckers(p) \cup NewCheckers(p, ids))
  BY DEF SetConfig, OldCheckers, NewCheckers

LEMMA AdministerConsiderate ==
    ASSUME Base, RowsKept, NEW p \in Process, Administer(p)
    PROVE  Considerate(p)
<1> USE DEF Updaters, RowTables, RowwiseTables, CheckTables, OwnedTables, OwnersOf
<1>1. Own(p) /\ Shaped /\ call' = call /\ stage[p] # "idle"
  BY AdministerElsewhere DEF Base, Elsewhere, Own
<1>2. CASE CreateZone(p)
  BY <1>1, <1>2, WritesNewRow DEF CreateZone, At
<1>3. CASE UpdateZone(p)
  <2>1. PICK i \in ZonesNamed(call[p].fqdn) : UpdateColumns(p, "zone", i, call[p].set)
    BY <1>3 DEF UpdateZone
  <2>2. call[p].kind = "updateZone" /\ call[p].set = AskedColumns(p) /\ i \in Ids
    BY <1>3 DEF UpdateZone, At, AskedColumns, ZonesNamed, RowsOf
  <2> QED BY <1>1, <2>1, <2>2, UpdatesRow
<1>4. CASE CreateZoneSoa(p)
  <2>1. PICK z, row :
           /\ z \in ZonesNamed(call[p].fqdn) /\ db["zone_soa"][z] = None /\ Unwritten(p, "zone_soa", z)
           /\ Written(p, {Row("zone_soa", z, row)})
    BY <1>4 DEF CreateZoneSoa
  <2>2. \A c \in draft'[p] : c.table = "zone_soa" /\ c.id = z
    BY <1>1, <2>1, WritingRow
  <2>3. z \in Ids /\ z # None /\ locks' = locks /\ call[p].kind = "createSoa"
    BY <1>4, <2>1, IdsAreNumbers DEF CreateZoneSoa, At, ZonesNamed, RowsOf
  <2>4. RowFree(p, "zone_soa", z)
    BY <2>1, <2>3 DEF RowFree, RowsKept, RowsLocked
  <2> QED BY <1>1, <2>2, <2>3, <2>4 DEF Considerate, WritesAsked
<1>5. CASE UpdateZoneSoa(p)
  <2>1. PICK i \in ZonesNamed(call[p].fqdn) : UpdateColumns(p, "zone_soa", i, call[p].set)
    BY <1>5 DEF UpdateZoneSoa
  <2>2. call[p].kind = "updateSoa" /\ call[p].set = AskedColumns(p) /\ i \in Ids
    BY <1>5 DEF UpdateZoneSoa, At, AskedColumns, ZonesNamed, RowsOf
  <2> QED BY <1>1, <2>1, <2>2, UpdatesRow
<1>6. CASE CreateZoneNs(p)
  BY <1>1, <1>6, WritesNewRow DEF CreateZoneNs, At
<1>7. CASE UpdateZoneNs(p)
  <2>1. PICK set : UpdateColumns(p, "zone_ns", call[p].id, set)
    BY <1>7 DEF UpdateZoneNs
  <2>2. call[p].kind = "updateNs" /\ call[p].id \in Ids
    BY <1>1, <1>7, CalledId DEF UpdateZoneNs, At
  <2> QED BY <1>1, <2>1, <2>2, UpdatesRow
<1>8. CASE FindConfig(p)
  <2>1. PICK z \in ZonesNamed(call[p].fqdn) :
           ShareZone(p, z) /\ Read(p, [zone |-> z, rows |-> ConfigRows(z)], "found")
    BY <1>8 DEF FindConfig
  <2>2. z \in RowsOf("zone") /\ call[p].kind = "setConfig" /\ draft' = draft
    BY <1>8, <2>1 DEF FindConfig, At, ZonesNamed, Read
  <2> QED BY <1>1, <2>1, <2>2, LocksRow DEF ShareZone
<1>9. CASE SetConfig(p)
  <2>1. PICK ids \in SUBSET FreshIds : Written(p, OldCheckers(p) \cup NewCheckers(p, ids))
    BY <1>9, ConfigIsWritten
  <2>2. locks' = locks /\ call[p].kind = "setConfig" /\ draft'[p] = OldCheckers(p) \cup NewCheckers(p, ids)
    BY <1>1, <1>9, <2>1, Writing DEF SetConfig, At
  <2>3. \A c \in NewCheckers(p, ids) : c.table = "checker_map" /\ c.id \in NewIds("checker_map")
    BY DEF FreshIds, NewCheckers, Row
  <2>4. \A c \in OldCheckers(p) : c.table = "checker_map" /\ c.id \in Ids /\ c.id \in seen[p].rows
    BY DEF OldCheckers, Row, RowsOf
  <2>5. \A i \in seen[p].rows : RowFree(p, "checker_map", i)
    BY <1>9 DEF SetConfig
  <2>6. \A c \in draft'[p] : c.table = "checker_map" /\ c.id \in Ids /\ c.id # None /\ RowFree(p, "checker_map", c.id)
    BY <2>2, <2>3, <2>4, <2>5, NewRowFree, IdsAreNumbers
  <2> QED BY <1>1, <2>2, <2>6 DEF Considerate, WritesAsked
<1>10. CASE CheckNotBlacklisted(p)
  <2>1. stage'[p] # "written" /\ draft' = draft /\ locks' = locks
    BY <1>1, <1>10 DEF CheckNotBlacklisted, Read, Shaped
  <2> QED BY <1>1, <2>1, ReadsOnly
<1>11. CASE CreateDomainNameBlacklistId(p)
  BY <1>1, <1>11, WritesNewRow DEF CreateDomainNameBlacklistId, At
<1> QED
  BY <1>2, <1>3, <1>4, <1>5, <1>6, <1>7, <1>8, <1>9, <1>10, <1>11 DEF Administer


LEMMA RegisterConsiderate ==
    ASSUME Base, RowsKept, NEW p \in Process, Register(p)
    PROVE  Considerate(p)
<1> USE DEF Updaters, RowTables, RowwiseTables, CheckTables, OwnedTables, OwnersOf
<1>1. Own(p) /\ Shaped /\ call' = call /\ stage[p] # "idle"
  BY RegisterElsewhere DEF Base, Elsewhere, Own
<1>2. CASE BeginChecks(p)
  <2>1. stage'[p] # "written" /\ draft' = draft /\ locks' = locks
    BY <1>1, <1>2 DEF BeginChecks, Read, Shaped
  <2> QED BY <1>1, <2>1, ReadsOnly
<1>3. CASE FindZone(p)
  <2>1. PICK z \in LongestZone(call[p].name) : ShareZone(p, z)
    BY <1>3 DEF FindZone
  <2>2. z \in RowsOf("zone") /\ call[p].kind = "register" /\ draft' = draft
    BY <1>3, <2>1 DEF FindZone, Registering, At, LongestZone, ZonesOf, Read
  <2> QED BY <1>1, <2>1, <2>2, LocksRow DEF ShareZone
<1>4. CASE Check(p)
  <2>1. stage'[p] # "written" /\ draft' = draft /\ locks' = locks
    BY <1>1, <1>4 DEF Check, Read, Shaped
  <2> QED BY <1>1, <2>1, ReadsOnly
<1>5. CASE CheckRegistrar(p)
  <2>1. PICK r \in RowsOf("registrar") :
           /\ Unwritten(p, "registrar", r)
           /\ locks' = [locks EXCEPT ![p] = @ \cup {RowLock("registrar", r)}]
    BY <1>5 DEF CheckRegistrar
  <2>2. call[p].kind = "register" /\ draft' = draft
    BY <1>5 DEF CheckRegistrar, Registering, At, Read
  <2> QED BY <1>1, <2>1, <2>2, LocksRow
<1>6. CASE CreateDomain(p)
  BY <1>1, <1>6, WritesNewRow DEF CreateDomain, Registering, At
<1> QED BY <1>2, <1>3, <1>4, <1>5, <1>6 DEF Register

LEMMA VerifyConsiderate ==
    ASSUME Base, RowsKept, NEW p \in Process, Verify(p)
    PROVE  Considerate(p)
<1> USE DEF Updaters, RowTables, RowwiseTables, CheckTables, OwnedTables, OwnersOf
<1>1. Own(p) /\ Shaped /\ call' = call /\ stage[p] # "idle"
  BY VerifyElsewhere DEF Base, Elsewhere, Own
<1>2. CASE CreateContactCheck(p)
  BY <1>1, <1>2, WritesNewRow DEF CreateContactCheck, At
<1>3. CASE CreateContactTest(p)
  BY <1>1, <1>3, WritesNewRow DEF CreateContactTest, At
<1>4. CASE UpdateContactCheck(p)
  <2>1. PICK set : UpdateColumns(p, "contact_check", call[p].check, set)
    BY <1>4 DEF UpdateContactCheck, ChangeState
  <2>2. call[p].kind = "updateCheck" /\ call[p].check \in Ids
    BY <1>4 DEF UpdateContactCheck, At, RowsOf
  <2> QED BY <1>1, <2>1, <2>2, UpdatesRow
<1>5. CASE UpdateContactTest(p)
  <2>1. PICK i, set :
           i \in TestsOf(call[p].check) /\ UpdateColumns(p, "contact_test_result", i, set)
    BY <1>5 DEF UpdateContactTest, ChangeState
  <2>2. call[p].kind = "updateTest" /\ i \in Ids
    BY <1>5, <2>1 DEF UpdateContactTest, At, TestsOf, RowsOf
  <2> QED BY <1>1, <2>1, <2>2, UpdatesRow
<1>6. CASE ReadCheck(p) \/ ReadTests(p) \/ ReadPastOfTests(p) \/ ListContactChecks(p)
  <2>1. stage'[p] # "written" /\ draft' = draft /\ locks' = locks
    BY <1>1, <1>6 DEF ReadCheck, ReadTests, ReadPastOfTests, ListContactChecks, Read, Shaped
  <2> QED BY <1>1, <2>1, ReadsOnly
<1>7. CASE ReadPastOfCheck(p) \/ FindFinishTimes(p)
  <2>1. draft'[p] = {} /\ locks' = locks
    BY <1>1, <1>7, Writing DEF ReadPastOfCheck, FindFinishTimes
  <2> QED BY <1>1, <2>1 DEF Considerate, WritesAsked
<1> QED BY <1>2, <1>3, <1>4, <1>5, <1>6, <1>7 DEF Verify

LEMMA OperationRows ==
    ASSUME Base, RowsKept, NEW p \in Process,
           \/ ZoneAccess(p) \/ Certification(p) \/ Group(p) \/ Credit(p)
           \/ Accounts(p) \/ Administer(p) \/ Register(p) \/ Verify(p)
    PROVE  RowsKept'
<1>1. Considerate(p)
  BY ZoneAccessConsiderate, CertificationConsiderate, GroupConsiderate, CreditConsiderate,
     AccountsConsiderate, AdministerConsiderate, RegisterConsiderate, VerifyConsiderate
<1>2. Own(p)
  BY ZoneAccessOwn, CertificationOwn, GroupOwn, CreditOwn, AccountsElsewhere, AdministerElsewhere,
     RegisterElsewhere, VerifyElsewhere DEF Base, Elsewhere
<1> QED BY <1>1, <1>2, ConsiderateKeeps

(* Rows that others have locked or written are not committed by p.         *)
LEMMA EndRows ==
    ASSUME Base, RowsKept, NEW p \in Process, Commit(p) \/ Rollback(p)
    PROVE  RowsKept'
<1>1. End(p) /\ DOMAIN db' = Tables /\ \A t \in Tables : DOMAIN db'[t] = Ids
  BY CommitFacts DEF Rollback, Base, Shaped
<1>2. /\ OnlyOf(p) /\ draft'[p] = {} /\ locks'[p] = {} /\ stage'[p] = "idle"
  BY <1>1, EndFacts DEF Base
<1>3. ASSUME NEW q \in Process \ {p}, NEW table \in RowwiseTables, NEW id \in Ids, Unwritten(q, table, id)
      PROVE  db'[table][id] = db[table][id] /\ Unwritten(q, table, id)'
  <2>1. \A c \in draft[p] : ~(c.table = table /\ c.id = id)
    BY <1>3 DEF Unwritten
  <2>2. table \in Tables
    BY StartIsStored DEF RowwiseTables, CheckTables, RowTables
  <2>3. db'[table][id] = db[table][id]
    BY <2>1, <2>2, CommittedRows DEF Rollback
  <2>4. Unwritten(q, table, id)'
    BY <1>2, <1>3 DEF Unwritten, OnlyOf
  <2> QED BY <2>3, <2>4
<1>4. ASSUME NEW q \in Process \ {p} PROVE RowsLocked(q)' /\ RowsWritten(q)' /\ WritesAsked(q)'
  <2>1. /\ call'[q] = call[q] /\ stage'[q] = stage[q] /\ draft'[q] = draft[q] /\ locks'[q] = locks[q]
        /\ RowsLocked(q) /\ RowsWritten(q) /\ WritesAsked(q)
    BY <1>2 DEF OnlyOf, RowsKept
  <2>2. RowsLocked(q)'
    BY <1>3, <2>1 DEF RowsLocked, RowwiseTables, CheckTables
  <2>3. RowsWritten(q)'
    BY <1>3, <2>1 DEF RowsWritten
  <2>4. WritesAsked(q)'
    <3> SUFFICES ASSUME stage[q] = "written", call[q].kind \in Updaters, NEW c \in draft[q]
                 PROVE  /\ c.table \in RowwiseTables
                        /\ c.row = With(db'[c.table][c.id], AskedColumns(q))
      BY <2>1 DEF WritesAsked, AskedColumns
    <3>1. c.table \in RowwiseTables /\ c.row = With(db[c.table][c.id], AskedColumns(q))
      BY <2>1 DEF WritesAsked
    <3>2. db'[c.table][c.id] = db[c.table][c.id]
      BY <1>3, <2>1, <3>1 DEF RowsWritten
    <3> QED BY <3>1, <3>2
  <2> QED BY <2>2, <2>3, <2>4
<1>5. RowsLocked(p)' /\ RowsWritten(p)' /\ WritesAsked(p)'
  BY <1>2 DEF RowsLocked, RowsWritten, WritesAsked
<1> QED BY <1>4, <1>5 DEF RowsKept

LEMMA BeginRows ==
    ASSUME Base, RowsKept, NEW p \in Process, Begin(p)
    PROVE  RowsKept'
<1>1. OnlyOf(p) /\ db' = db /\ stage'[p] = "begun" /\ draft' = draft /\ locks' = locks
  BY BeginFacts DEF Base
<1>2. ASSUME NEW q \in Process PROVE RowsLocked(q)' /\ RowsWritten(q)'
  <2>1. RowsLocked(q) /\ RowsWritten(q) /\ (draft[q] = {} \/ call'[q] = call[q])
    BY <1>1 DEF RowsKept, OnlyOf, Base, Engaged, Begin
  <2> QED BY <1>1, <2>1 DEF RowsLocked, RowsWritten, Unwritten
<1>3. ASSUME NEW q \in Process PROVE WritesAsked(q)'
  BY <1>1 DEF RowsKept, WritesAsked, AskedColumns, OnlyOf
<1> QED BY <1>2, <1>3 DEF RowsKept

LEMMA RowsNext == IInv /\ RowsKept /\ [Next]_vars => RowsKept'
<1> SUFFICES ASSUME Base, RowsKept, [Next]_vars PROVE RowsKept'
  BY DEF IInv
<1>1. CASE Tick \/ UNCHANGED vars
  <2>1. UNCHANGED <<db, call, stage, draft, locks>>
    BY <1>1 DEF Tick, vars
  <2> QED BY <2>1 DEF RowsKept, RowsLocked, RowsWritten, WritesAsked, AskedColumns, Unwritten
<1>2. CASE ~Tick /\ Next
  <2>1. PICK p \in Process :
           \/ Begin(p) \/ Commit(p) \/ Rollback(p)
           \/ ZoneAccess(p) \/ Certification(p) \/ Group(p) \/ Credit(p)
           \/ Accounts(p) \/ Administer(p) \/ Register(p) \/ Verify(p)
    BY <1>2 DEF Next
  <2> QED BY <2>1, OperationRows, EndRows, BeginRows
<1> QED BY <1>1, <1>2

LEMMA RowsInvariance == Spec => []RowsKept
<1>1. Init => RowsKept
  BY DEF Init, RowsKept, RowsLocked, RowsWritten, WritesAsked
<1> QED BY <1>1, RowsNext, Invariance, PTL DEF Spec

(* An update of a registrar, a zone or a SOA record changes the columns    *)
(* that its class was given and no others, because UPDATE reads the row    *)
(* that it writes; and no operation commits a row that info_registrar or   *)
(* the look-up of a zone has locked for another transaction.               *)
THEOREM UpdatesChange == Spec => UpdatesChangeWhatTheyAsk
<1> DEFINE Asked ==
        \A p \in Process : Commit(p) =>
          \A c \in draft[p] :
              LET old == db[c.table][c.id]
                  set == IF call[p].kind = "updateRegistrar" THEN ToNull(call[p].set) ELSE call[p].set
              IN /\ \A q \in Process \ {p} : RowLock(c.table, c.id) \notin locks[q]
                 /\ call[p].kind \in {"updateZone", "updateSoa", "updateRegistrar"} =>
                       \A d \in DOMAIN DiffRegistrar(old, c.row) :
                          d \in DOMAIN set /\ c.row[d] = set[d]
<1>1. ASSUME RowsKept PROVE Asked
  <2> SUFFICES ASSUME NEW p \in Process, Commit(p), NEW c \in draft[p]
               PROVE  /\ \A q \in Process \ {p} : RowLock(c.table, c.id) \notin locks[q]
                      /\ call[p].kind \in Updaters =>
                            \A d \in DOMAIN DiffRegistrar(db[c.table][c.id], c.row) :
                               d \in DOMAIN AskedColumns(p) /\ c.row[d] = AskedColumns(p)[d]
    BY DEF AskedColumns, Updaters
  <2>1. RowsWritten(p) /\ WritesAsked(p) /\ stage[p] = "written"
    BY <1>1 DEF RowsKept, Commit
  <2>2. ASSUME NEW q \in Process \ {p}, RowLock(c.table, c.id) \in locks[q] PROVE FALSE
    <3> DEFINE l == RowLock(c.table, c.id)
    <3>1. l.table = c.table /\ l.row = c.id /\ c.id # None
      BY <2>1 DEF RowLock, RowsWritten
    <3>2. l \in locks[q]
      BY <2>2
    <3> HIDE DEF l
    <3>3. Unwritten(q, c.table, c.id)
      BY <1>1, <3>1, <3>2 DEF RowsKept, RowsLocked
    <3> QED BY <3>3 DEF Unwritten
  <2>3. ASSUME call[p].kind \in Updaters, NEW d \in DOMAIN DiffRegistrar(db[c.table][c.id], c.row)
        PROVE  d \in DOMAIN AskedColumns(p) /\ c.row[d] = AskedColumns(p)[d]
    <3>1. c.row = With(db[c.table][c.id], AskedColumns(p))
      BY <2>1, <2>3 DEF WritesAsked
    <3> QED BY <2>3, <3>1 DEF With, DiffRegistrar
  <2> QED BY <2>2, <2>3
<1>2. RowsKept => [Asked]_vars
  BY <1>1
<1> QED BY <1>2, RowsInvariance, PTL DEF UpdatesChangeWhatTheyAsk

-----------------------------------------------------------------------------
(* Checks of contacts                                                      *)

AllStates(row) == Append(row.past, row.state)

(* All that the row went through is what it went through before and more.  *)
Continues(old, new) ==
    /\ Len(old.past) <= Len(new.past)
    /\ \A k \in 1..(Len(old.past) + 1) : AllStates(new)[k] = AllStates(old)[k]

WentThrough(state, row) == \E k \in 1..(Len(row.past) + 1) : AllStates(row)[k] = state

(* Each of the first n states has a place, in the order of the changes but *)
(* for those of transactions that began before an earlier change.          *)
Placed(told, all, n, place) ==
    /\ \A j \in 1..n : told[place[j]] = all[j]
    /\ \A i, j \in 1..n : i < j /\ all[i].time <= all[j].time => place[i] < place[j]

Arranged(told, all, n) == \E place \in Bijection(1..n, 1..n) : Placed(told, all, n, place)

(* What is told are the states before the last and a state that was the    *)
(* last then or before.                                                    *)
ToldAll(told, row) ==
    \E n \in 0..Len(row.past) :
        /\ Len(told) = n + 1 /\ Arranged(told, AllStates(row), n)
        /\ \E k \in 1..(n + 1) : told[n + 1] = AllStates(row)[k]

ToldTime(told, row) ==
    \E k \in 1..(Len(row.past) + 1) :
        /\ AllStates(row)[k].status = told.status
        /\ \A j \in 1..k : AllStates(row)[j].status \in AfterTests =>
              told.finished # None /\ (j < k => told.finished <= AllStates(row)[j].time)

CheckingRows == CheckRow \cup TestRow

LEMMA StatesAre ==
    ASSUME NEW row \in CheckingRows
    PROVE  /\ row # None /\ row.past \in Seq(CheckState) /\ row.state \in CheckState /\ Len(row.past) \in Nat
           /\ AllStates(row) \in Seq(CheckState) /\ Len(AllStates(row)) = Len(row.past) + 1
           /\ DOMAIN AllStates(row) = 1..(Len(row.past) + 1)
           /\ \A k \in 1..Len(row.past) : AllStates(row)[k] = row.past[k]
           /\ AllStates(row)[Len(row.past) + 1] = row.state
<1>1. row # None /\ row.past \in Seq(CheckState) /\ row.state \in CheckState
  BY NoneIsNoRow DEF CheckingRows, CheckRow, TestRow
<1> QED BY <1>1 DEF AllStates

LEMMA ContinuesItself ==
    ASSUME NEW row \in CheckingRows
    PROVE  Continues(row, row)
  BY StatesAre DEF Continues

LEMMA ToldStays ==
    ASSUME NEW old \in CheckingRows, NEW new \in CheckingRows, Continues(old, new), NEW told
    PROVE  /\ WentThrough(told, old) => WentThrough(told, new)
           /\ ToldAll(told, old) => ToldAll(told, new)
           /\ ToldTime(told, old) => ToldTime(told, new)
<1>1. Len(old.past) \in Nat /\ Len(new.past) \in Nat /\ Len(old.past) <= Len(new.past)
  BY StatesAre DEF Continues
<1>2. ASSUME NEW k \in 1..(Len(old.past) + 1)
      PROVE  k \in 1..(Len(new.past) + 1) /\ AllStates(new)[k] = AllStates(old)[k]
  BY <1>1 DEF Continues
<1>3. WentThrough(told, old) => WentThrough(told, new)
  BY <1>2 DEF WentThrough
<1>4. ASSUME ToldAll(told, old) PROVE ToldAll(told, new)
  <2>1. PICK n \in 0..Len(old.past) :
           /\ Len(told) = n + 1 /\ Arranged(told, AllStates(old), n)
           /\ \E k \in 1..(n + 1) : told[n + 1] = AllStates(old)[k]
    BY <1>4 DEF ToldAll
  <2>2. n \in 0..Len(new.past) /\ n \in Nat
    BY <1>1
  <2>3. \A j \in 1..(n + 1) : AllStates(old)[j] = AllStates(new)[j]
    BY <1>1, <1>2
  <2>4. \A j \in 1..n : j \in 1..(n + 1)
    BY <2>2
  <2>5. PICK place \in Bijection(1..n, 1..n) : Placed(told, AllStates(old), n, place)
    BY <2>1 DEF Arranged
  <2>6. Placed(told, AllStates(new), n, place)
    BY <2>3, <2>4, <2>5 DEF Placed
  <2>7. Arranged(told, AllStates(new), n)
    BY <2>6 DEF Arranged
  <2> QED BY <2>1, <2>2, <2>3, <2>7 DEF ToldAll
<1>5. ASSUME ToldTime(told, old) PROVE ToldTime(told, new)
  <2>1. PICK k \in 1..(Len(old.past) + 1) :
        /\ AllStates(old)[k].status = told.status
        /\ \A j \in 1..k : AllStates(old)[j].status \in AfterTests =>
              told.finished # None /\ (j < k => told.finished <= AllStates(old)[j].time)
    BY <1>5 DEF ToldTime
  <2>2. \A j \in 1..k : AllStates(old)[j] = AllStates(new)[j]
    BY <1>1, <1>2
  <2>3. k \in 1..(Len(new.past) + 1) /\ k \in 1..k
    BY <1>1
  <2> QED BY <2>1, <2>2, <2>3 DEF ToldTime
<1> QED BY <1>3, <1>4, <1>5

(* A change of the state                                                   *)
LEMMA ChangeContinues ==
    ASSUME NEW row \in CheckingRows, NEW state \in CheckState
    PROVE  LET new == With(row, [state |-> state, past |-> Append(row.past, row.state)])
           IN /\ Continues(row, new)
              /\ row \in CheckRow => new \in CheckRow
              /\ row \in TestRow => new \in TestRow
<1> DEFINE set == [state |-> state, past |-> Append(row.past, row.state)]
           new == With(row, set)
<1>1. PICK past \in Seq(CheckState) : past = Append(row.past, row.state) /\ past = AllStates(row)
  BY StatesAre DEF AllStates
<1>2. DOMAIN set = {"state", "past"} /\ set.state = state /\ set.past = past
  BY <1>1
<1>3. {"state", "past"} \subseteq DOMAIN row /\ DOMAIN new = DOMAIN row
  BY DEF With, CheckingRows, CheckRow, TestRow
<1>4. new.state = state /\ new.past = past
  BY <1>2, <1>3 DEF With
<1>5. \A c \in DOMAIN row : c \notin {"state", "past"} => new[c] = row[c]
  BY <1>2 DEF With
<1>6. new = [c \in DOMAIN row |-> new[c]]
  BY DEF With
<1> HIDE DEF new, set
<1>7. ASSUME row \in CheckRow PROVE new \in CheckRow
  <2>1. DOMAIN row = {"suite", "state", "past"} /\ row.suite \in DOMAIN Suites
    BY <1>7 DEF CheckRow
  <2>2. new = [suite |-> row.suite, state |-> state, past |-> past]
    BY <1>4, <1>5, <1>6, <2>1
  <2> QED BY <2>1, <2>2 DEF CheckRow
<1>8. ASSUME row \in TestRow PROVE new \in TestRow
  <2>1. /\ DOMAIN row = {"check", "test", "state", "past"} /\ row.check \in Ids
        /\ row.test \in UNION {Suites[s] : s \in DOMAIN Suites}
    BY <1>8 DEF TestRow
  <2>2. new = [check |-> row.check, test |-> row.test, state |-> state, past |-> past]
    BY <1>4, <1>5, <1>6, <2>1
  <2> QED BY <2>1, <2>2 DEF TestRow
<1>9. Continues(row, new)
  <2>1. new \in CheckingRows
    BY <1>7, <1>8 DEF CheckingRows
  <2>2. Len(row.past) \in Nat /\ Len(new.past) = Len(row.past) + 1
    BY <1>1, <1>4, StatesAre
  <2>3. \A k \in 1..Len(new.past) : AllStates(new)[k] = AllStates(row)[k]
    BY <1>1, <1>4, <2>1, StatesAre
  <2> QED BY <2>2, <2>3 DEF Continues
<1> QED BY <1>7, <1>8, <1>9 DEF new, set

LEMMA SameContinues ==
    ASSUME NEW row \in CheckingRows
    PROVE  LET new == With(row, [state |-> row.state])
           IN /\ Continues(row, new)
              /\ row \in CheckRow => new \in CheckRow
              /\ row \in TestRow => new \in TestRow
<1>1. row = [c \in DOMAIN row |-> row[c]]
  BY DEF CheckingRows, CheckRow, TestRow
<1>2. With(row, [state |-> row.state]) = row
  BY <1>1 DEF With
<1> QED BY <1>2, ContinuesItself

LEMMA ElementsAre ==
    ASSUME NEW past \in Seq(CheckState)
    PROVE  /\ Len(past) \in Nat /\ DOMAIN past = 1..Len(past)
           /\ \A k \in 1..Len(past) : past[k] \in CheckState /\ past[k].time \in Nat
<1>1. Len(past) \in Nat /\ DOMAIN past = 1..Len(past)
  OBVIOUS
<1>2. \A k \in 1..Len(past) : past[k] \in CheckState
  OBVIOUS
<1>3. \A state \in CheckState : state.time \in Nat
  BY DEF CheckState
<1> QED BY <1>1, <1>2, <1>3

(* The order in which past states are read: by time, and changes of the    *)
(* same time one after the other.                                          *)
LEMMA RanksDiffer ==
    ASSUME NEW past \in Seq(CheckState), NEW i \in 1..Len(past), NEW j \in 1..Len(past),
           past[i].time < past[j].time \/ (past[i].time = past[j].time /\ i < j)
    PROVE  /\ Rank(past, i) \in 1..Len(past) /\ Rank(past, j) \in 1..Len(past)
           /\ Rank(past, i) < Rank(past, j)
<1> DEFINE n == Len(past)
           upTo(k) == {l \in DOMAIN past :
               past[l].time < past[k].time \/ (past[l].time = past[k].time /\ l <= k)}
<1>1. n \in Nat /\ DOMAIN past = 1..n /\ \A k \in 1..n : past[k].time \in Nat
  BY ElementsAre
<1>2. \A k \in 1..n : Rank(past, k) = Cardinality(upTo(k)) /\ k \in upTo(k) /\ upTo(k) \in SUBSET (1..n)
  BY <1>1 DEF Rank
<1>3. upTo(i) \in SUBSET upTo(j) /\ j \notin upTo(i)
  BY <1>1
<1> HIDE DEF upTo, n
<1>4. IsFiniteSet(1..n) /\ Cardinality(1..n) = n
  BY <1>1, FS_Interval
<1>5. \A k \in 1..n : IsFiniteSet(upTo(k)) /\ Cardinality(upTo(k)) \in Nat /\ Cardinality(upTo(k)) <= n
  BY <1>2, <1>4, FS_Subset, FS_CardinalityType
<1>6. \A k \in 1..n : Cardinality(upTo(k)) # 0
  BY <1>2, <1>5, FS_EmptySet
<1>7. i \in 1..n /\ j \in 1..n
  BY DEF n
<1>8. Cardinality(upTo(i)) <= Cardinality(upTo(j)) /\ Cardinality(upTo(i)) # Cardinality(upTo(j))
  BY <1>2, <1>3, <1>5, <1>7, FS_Subset
<1>9. /\ Rank(past, i) \in 1..n /\ Rank(past, j) \in 1..n
      /\ Rank(past, i) < Rank(past, j)
  BY <1>1, <1>2, <1>5, <1>6, <1>7, <1>8
<1> QED BY <1>9 DEF n

LEMMA RanksArePlaces ==
    ASSUME NEW past \in Seq(CheckState)
    PROVE  LET n == Len(past) IN
           /\ [i \in 1..n |-> Rank(past, i)] \in Bijection(1..n, 1..n)
           /\ \A i, j \in 1..n : i < j /\ past[i].time <= past[j].time => Rank(past, i) < Rank(past, j)
           /\ \A i \in 1..n : Rank(past, i) \in 1..n /\ ByTime(past)[Rank(past, i)] = past[i]
           /\ ByTime(past) \in Seq(CheckState) /\ Len(ByTime(past)) = n
<1> DEFINE n == Len(past)
           rank == [i \in 1..n |-> Rank(past, i)]
<1>1. n \in Nat /\ DOMAIN past = 1..n /\ \A k \in 1..n : past[k] \in CheckState /\ past[k].time \in Nat
  BY ElementsAre
<1>2. \A i \in 1..n : Rank(past, i) \in 1..n
  <2> SUFFICES ASSUME NEW i \in 1..n PROVE Rank(past, i) \in 1..n
    OBVIOUS
  <2> DEFINE upTo == {l \in DOMAIN past :
                 past[l].time < past[i].time \/ (past[l].time = past[i].time /\ l <= i)}
  <2>1. Rank(past, i) = Cardinality(upTo) /\ i \in upTo /\ upTo \in SUBSET (1..n)
    BY <1>1 DEF Rank
  <2> HIDE DEF upTo
  <2>2. IsFiniteSet(1..n) /\ Cardinality(1..n) = n
    BY <1>1, FS_Interval
  <2> HIDE DEF n
  <2>3. upTo \in SUBSET (1..n)
    BY <2>1
  <2>4. IsFiniteSet(upTo) /\ Cardinality(upTo) <= n
    <3>1. IsFiniteSet(upTo) /\ Cardinality(upTo) <= Cardinality(1..n)
      BY <2>2, <2>3, FS_Subset
    <3> QED BY <2>2, <3>1
  <2>5. Cardinality(upTo) \in Nat
    BY <2>4, FS_CardinalityType
  <2>6. Cardinality(upTo) # 0
    BY <2>1, <2>4, FS_EmptySet
  <2> QED BY <1>1, <2>1, <2>4, <2>5, <2>6
<1>3. \A i, j \in 1..n : i < j /\ past[i].time <= past[j].time => Rank(past, i) < Rank(past, j)
  BY <1>1, RanksDiffer
<1>4. \A i, j \in 1..n : i < j => Rank(past, i) # Rank(past, j)
  <2> SUFFICES ASSUME NEW i \in 1..n, NEW j \in 1..n, i < j PROVE Rank(past, i) # Rank(past, j)
    OBVIOUS
  <2>1. CASE past[i].time <= past[j].time
    BY <1>2, <1>3, <2>1
  <2>2. CASE past[j].time < past[i].time
    <3>1. Rank(past, j) < Rank(past, i)
      BY <1>1, <2>2, RanksDiffer
    <3> QED BY <1>2, <3>1
  <2> QED BY <1>1, <2>1, <2>2
<1>5. \A i, j \in 1..n : Rank(past, i) = Rank(past, j) => i = j
  <2> SUFFICES ASSUME NEW i \in 1..n, NEW j \in 1..n, Rank(past, i) = Rank(past, j), i # j PROVE FALSE
    OBVIOUS
  <2>1. i < j \/ j < i
    BY <1>1
  <2> QED BY <1>4, <2>1
<1>6. rank \in Injection(1..n, 1..n)
  BY <1>2, <1>5 DEF Injection, IsInjective
<1>7. rank \in Bijection(1..n, 1..n) /\ \A k \in 1..n : \E i \in 1..n : Rank(past, i) = k
  <2> HIDE DEF rank
  <2>1. rank \in Surjection(1..n, 1..n)
    BY <1>1, <1>6, FS_Interval, FS_Injection
  <2>2. rank \in Bijection(1..n, 1..n) /\ \A k \in 1..n : \E i \in 1..n : rank[i] = k
    BY <1>6, <2>1 DEF Bijection, Surjection
  <2>3. \A i \in 1..n : rank[i] = Rank(past, i)
    BY DEF rank
  <2> QED BY <2>2, <2>3
<1>8. \A i \in 1..n : ByTime(past)[Rank(past, i)] = past[i]
  <2> SUFFICES ASSUME NEW i \in 1..n PROVE ByTime(past)[Rank(past, i)] = past[i]
    OBVIOUS
  <2>1. ByTime(past)[Rank(past, i)] = past[CHOOSE j \in DOMAIN past : Rank(past, j) = Rank(past, i)]
    BY <1>1, <1>2 DEF ByTime
  <2>2. PICK k : k = CHOOSE j \in 1..n : Rank(past, j) = Rank(past, i)
    OBVIOUS
  <2>3. k \in 1..n /\ Rank(past, k) = Rank(past, i)
    BY <2>2
  <2> QED BY <1>1, <1>5, <2>1, <2>2, <2>3
<1>9. ByTime(past) \in Seq(CheckState) /\ Len(ByTime(past)) = n
  <2>1. \A k \in 1..n : \E i \in DOMAIN past : Rank(past, i) = k
    BY <1>1, <1>7
  <2>2. \A k \in 1..n : past[CHOOSE i \in DOMAIN past : Rank(past, i) = k] \in CheckState
    BY <1>1, <2>1
  <2>3. ByTime(past) = [k \in 1..n |-> past[CHOOSE i \in DOMAIN past : Rank(past, i) = k]]
    BY <1>1 DEF ByTime
  <2>4. ByTime(past) \in [1..n -> CheckState]
    BY <2>2, <2>3
  <2> QED BY <1>1, <2>4
<1> QED BY <1>2, <1>3, <1>7, <1>8, <1>9

(* What the second read adds to what the first one found                   *)
LEMMA AllAreTold ==
    ASSUME NEW row \in CheckingRows, NEW state, WentThrough(state, row)
    PROVE  ToldAll(Append(ByTime(row.past), state), row)
<1>1. PICK k \in 1..(Len(row.past) + 1) : AllStates(row)[k] = state
  BY DEF WentThrough
<1>2. state \in CheckState /\ row.past \in Seq(CheckState) /\ Len(row.past) \in Nat
  BY <1>1, StatesAre
<1> DEFINE told == Append(ByTime(row.past), state)
           n == Len(row.past)
           place == [i \in 1..n |-> Rank(row.past, i)]
<1>3. /\ place \in Bijection(1..n, 1..n)
      /\ \A i, j \in 1..n : i < j /\ row.past[i].time <= row.past[j].time => Rank(row.past, i) < Rank(row.past, j)
      /\ \A i \in 1..n : Rank(row.past, i) \in 1..n /\ ByTime(row.past)[Rank(row.past, i)] = row.past[i]
      /\ ByTime(row.past) \in Seq(CheckState) /\ Len(ByTime(row.past)) = n
  BY <1>2, RanksArePlaces
<1>4. /\ Len(told) = n + 1 /\ told[n + 1] = state
      /\ \A k_1 \in 1..n : told[k_1] = ByTime(row.past)[k_1]
  BY <1>2, <1>3
<1>5. \A i \in 1..n : place[i] = Rank(row.past, i) /\ AllStates(row)[i] = row.past[i]
  BY StatesAre
<1>6. n \in 0..Len(row.past) /\ k \in 1..(n + 1) /\ told[n + 1] = AllStates(row)[k]
  BY <1>1, <1>2, <1>4
<1> HIDE DEF told, n, place
<1>7. Placed(told, AllStates(row), n, place)
  <2>1. \A j \in 1..n : told[place[j]] = AllStates(row)[j]
    <3> SUFFICES ASSUME NEW j \in 1..n PROVE told[place[j]] = AllStates(row)[j]
      OBVIOUS
    <3>1. place[j] = Rank(row.past, j) /\ AllStates(row)[j] = row.past[j]
      BY <1>5
    <3>2. Rank(row.past, j) \in 1..n /\ ByTime(row.past)[Rank(row.past, j)] = row.past[j]
      BY <1>3
    <3>3. told[Rank(row.past, j)] = ByTime(row.past)[Rank(row.past, j)]
      BY <1>4, <3>2
    <3> QED BY <3>1, <3>2, <3>3
  <2>2. \A i, j \in 1..n : i < j /\ AllStates(row)[i].time <= AllStates(row)[j].time => place[i] < place[j]
    BY <1>3, <1>5
  <2> QED BY <2>1, <2>2 DEF Placed
<1>8. Arranged(told, AllStates(row), n)
  BY <1>3, <1>7 DEF Arranged
<1>9. ToldAll(told, row)
  BY <1>4, <1>6, <1>8 DEF ToldAll
<1> QED BY <1>9 DEF told

(* The earliest of the states in which the tests had finished              *)
LEMMA FirstTimeIs ==
    ASSUME NEW states, states \subseteq CheckState
    PROVE  /\ FirstTime(states) = None => \A s \in states : s.status \notin AfterTests
           /\ FirstTime(states) # None =>
                 \A s \in states : s.status \in AfterTests => FirstTime(states) <= s.time
<1> DEFINE times == {s.time : s \in {t \in states : t.status \in AfterTests}}
<1>1. times \subseteq Nat /\ \A s \in states : s.status \in AfterTests => s.time \in times
  BY DEF CheckState
<1>2. FirstTime(states) = IF times = {} THEN None ELSE CHOOSE t \in times : \A u \in times : t <= u
  BY DEF FirstTime
<1> HIDE DEF times
<1>3. CASE times = {}
  BY <1>1, <1>2, <1>3
<1>4. CASE times # {}
  <2>1. \E n \in times : \A m \in times : ~(<<m, n>> \in OpToRel(<, Nat))
    BY <1>1, <1>4, NatLessThanWellFounded, WFMin
  <2>2. \E n \in times : \A m \in times : n <= m
    <3>1. PICK n \in times : \A m \in times : ~(<<m, n>> \in OpToRel(<, Nat))
      BY <2>1
    <3>2. \A m \in times : ~(m < n)
      BY <1>1, <3>1 DEF OpToRel
    <3> QED BY <1>1, <3>2
  <2>3. FirstTime(states) \in times /\ \A m \in times : FirstTime(states) <= m
    BY <1>2, <1>4, <2>2
  <2>4. FirstTime(states) # None
    BY <1>1, <2>3, NoneIsNoRow
  <2> QED BY <1>1, <2>3, <2>4
<1> QED BY <1>3, <1>4

(* The end of the tests is found in what was past at the second read, or   *)
(* else in the state that was read first.                                  *)
LEMMA TimeIsTold ==
    ASSUME NEW row \in CheckingRows, NEW state, WentThrough(state, row),
           NEW told, told = [status |-> state.status, finished |-> Finish(state, row.past)]
    PROVE  ToldTime(told, row)
<1>1. PICK k \in 1..(Len(row.past) + 1) : AllStates(row)[k] = state
  BY DEF WentThrough
<1>2. /\ state \in CheckState /\ Len(row.past) \in Nat /\ ToSet(row.past) \subseteq CheckState
      /\ \A j \in 1..Len(row.past) : AllStates(row)[j] \in ToSet(row.past)
  <2>1. /\ row.past \in Seq(CheckState) /\ Len(row.past) \in Nat
        /\ DOMAIN row.past = 1..Len(row.past)
    BY StatesAre
  <2>2. state \in CheckState
    <3>1. k = Len(row.past) + 1 \/ k \in 1..Len(row.past)
      BY <2>1
    <3>2. \A j \in 1..Len(row.past) : row.past[j] \in CheckState
      BY <2>1
    <3> QED BY <1>1, <3>1, <3>2, StatesAre
  <2>3. ToSet(row.past) = {row.past[j] : j \in 1..Len(row.past)}
    BY <2>1 DEF ToSet
  <2>4. \A j \in 1..Len(row.past) : AllStates(row)[j] = row.past[j] /\ row.past[j] \in CheckState
    BY <2>1, StatesAre
  <2> QED BY <2>1, <2>2, <2>3, <2>4
<1>3. PICK past \in SUBSET CheckState : past = ToSet(row.past)
  BY <1>2
<1>4. told.finished = IF FirstTime(past) # None THEN FirstTime(past) ELSE FirstTime({state})
  BY <1>3 DEF Finish
<1>5. /\ FirstTime(past) = None => \A s \in past : s.status \notin AfterTests
      /\ FirstTime(past) # None => \A s \in past : s.status \in AfterTests => FirstTime(past) <= s.time
      /\ FirstTime({state}) = None => state.status \notin AfterTests
  BY <1>2, FirstTimeIs
<1>6. ASSUME NEW j \in 1..k, AllStates(row)[j].status \in AfterTests
      PROVE  told.finished # None /\ (j < k => told.finished <= AllStates(row)[j].time)
  <2>1. CASE FirstTime(past) # None
    <3>1. j < k => j \in 1..Len(row.past)
      BY <1>2
    <3> QED BY <1>2, <1>3, <1>4, <1>5, <1>6, <2>1, <3>1
  <2>2. CASE FirstTime(past) = None
    <3>1. j \notin 1..Len(row.past)
      BY <1>2, <1>3, <1>5, <1>6, <2>2
    <3>2. j = k
      BY <1>2, <3>1
    <3> QED BY <1>1, <1>4, <1>5, <1>6, <2>2, <3>2
  <2> QED BY <2>1, <2>2
<1> QED BY <1>1, <1>6 DEF ToldTime

-----------------------------------------------------------------------------
(* The invariant about checks                                              *)

ChecksTyped == RowsTyped("contact_check", CheckRow) /\ RowsTyped("contact_test_result", TestRow)

DraftContinues(p) ==
    \A c \in draft[p] : c.table \in CheckTables =>
        /\ c.row # None
        /\ db[c.table][c.id] # None => Continues(db[c.table][c.id], c.row)

(* What p has read of a row                                                *)
Reads(what(_, _), told, table, i) ==
    i \in Ids /\ db[table][i] # None /\ what(told, db[table][i])

InfoKept(p) ==
    call[p].kind = "infoCheck" =>
        /\ stage[p] \in {"checkRead", "testsRead", "testsTold"} =>
              Reads(WentThrough, seen[p].check, "contact_check", call[p].check)
        /\ stage[p] = "written" => Reads(ToldAll, seen[p].check, "contact_check", call[p].check)
        /\ stage[p] = "testsRead" =>
              \A i \in DOMAIN seen[p].tests :
                  Reads(WentThrough, seen[p].tests[i], "contact_test_result", i)
        /\ stage[p] \in {"testsTold", "written"} =>
              \A i \in DOMAIN seen[p].tests : Reads(ToldAll, seen[p].tests[i], "contact_test_result", i)

ListKept(p) ==
    call[p].kind = "listChecks" =>
        /\ stage[p] = "listed" =>
              \A i \in DOMAIN seen[p] : Reads(WentThrough, seen[p][i], "contact_check", i)
        /\ stage[p] = "written" =>
              \A i \in DOMAIN seen[p] : Reads(ToldTime, seen[p][i], "contact_check", i)

ChecksOf(p) == DraftContinues(p) /\ InfoKept(p) /\ ListKept(p)

ChecksKept == ChecksTyped /\ \A p \in Process : ChecksOf(p)

(* Checks and tests stay and go on.                                        *)
ChecksGrow ==
    \A table \in CheckTables : \A i \in Ids : db[table][i] # None =>
        db'[table][i] # None /\ Continues(db[table][i], db'[table][i])

LEMMA TypedRow ==
    ASSUME ChecksTyped, NEW table \in CheckTables, NEW i \in Ids, db[table][i] # None
    PROVE  db[table][i] \in CheckingRows
  BY DEF ChecksTyped, RowsTyped, CheckTables, CheckingRows

LEMMA ReadStays ==
    ASSUME ChecksTyped, ChecksTyped', ChecksGrow, NEW table \in CheckTables, NEW i, NEW told
    PROVE  /\ Reads(WentThrough, told, table, i) => Reads(WentThrough, told, table, i)'
           /\ Reads(ToldAll, told, table, i) => Reads(ToldAll, told, table, i)'
           /\ Reads(ToldTime, told, table, i) => Reads(ToldTime, told, table, i)'
<1> SUFFICES ASSUME i \in Ids, db[table][i] # None
             PROVE  /\ WentThrough(told, db[table][i]) => Reads(WentThrough, told, table, i)'
                    /\ ToldAll(told, db[table][i]) => Reads(ToldAll, told, table, i)'
                    /\ ToldTime(told, db[table][i]) => Reads(ToldTime, told, table, i)'
  BY DEF Reads
<1>1. PICK old : old = db[table][i]
  OBVIOUS
<1>2. PICK new : new = db'[table][i]
  OBVIOUS
<1>3. old \in CheckingRows /\ new \in CheckingRows /\ new # None /\ Continues(old, new)
  <2>1. db'[table][i] # None /\ Continues(old, new)
    BY <1>1, <1>2 DEF ChecksGrow
  <2>2. db'[table][i] \in CheckingRows
    BY <2>1 DEF ChecksTyped, RowsTyped, CheckTables, CheckingRows
  <2> QED BY <1>1, <1>2, <2>1, <2>2, TypedRow
<1>4. /\ WentThrough(told, old) => WentThrough(told, new)
      /\ ToldAll(told, old) => ToldAll(told, new)
      /\ ToldTime(told, old) => ToldTime(told, new)
  BY <1>3, ToldStays
<1> QED BY <1>1, <1>2, <1>3, <1>4 DEF Reads

-----------------------------------------------------------------------------
(* Steps                                                                   *)

(* p has what it had, and the rows that it drafted are as they were.       *)
LEMMA ChecksStay ==
    ASSUME ChecksTyped, ChecksTyped', ChecksGrow, NEW p \in Process, ChecksOf(p),
           call'[p] = call[p], stage'[p] = stage[p], seen'[p] = seen[p], draft'[p] = draft[p],
           \A c \in draft[p] : c.table \in CheckTables => db'[c.table][c.id] = db[c.table][c.id]
    PROVE  ChecksOf(p)'
<1>1. DraftContinues(p)'
  BY DEF ChecksOf, DraftContinues
<1>2. "contact_check" \in CheckTables /\ "contact_test_result" \in CheckTables
  BY DEF CheckTables
<1>3. InfoKept(p)'
  BY <1>2, ReadStays DEF ChecksOf, InfoKept
<1>4. ListKept(p)'
  BY <1>2, ReadStays DEF ChecksOf, ListKept
<1> QED BY <1>1, <1>3, <1>4 DEF ChecksOf

LEMMA NothingGrows ==
    ASSUME ChecksTyped, db' = db
    PROVE  ChecksGrow
<1>1. ASSUME NEW table \in CheckTables, NEW i \in Ids, db[table][i] # None
      PROVE  Continues(db[table][i], db[table][i])
  <2>1. db[table][i] \in CheckingRows
    BY <1>1, TypedRow
  <2> QED BY <2>1, ContinuesItself
<1> QED BY <1>1 DEF ChecksGrow

(* A statement of p                                                        *)
LEMMA OwnChecks ==
    ASSUME ChecksKept, NEW p \in Process, Own(p), ChecksOf(p)',
           \A c \in draft'[p] :
              /\ c.table = "contact_check" => c.row \in CheckRow
              /\ c.table = "contact_test_result" => c.row \in TestRow
    PROVE  ChecksKept'
<1>1. ChecksTyped'
  BY OwnTyped DEF ChecksKept, ChecksTyped
<1>2. db' = db /\ call' = call
  BY DEF Own
<1>3. ASSUME NEW q \in Process \ {p} PROVE ChecksOf(q)'
  <2>1. stage'[q] = stage[q] /\ draft'[q] = draft[q] /\ seen'[q] = seen[q]
    BY DEF Own
  <2> QED BY <1>1, <1>2, <2>1, NothingGrows, ChecksStay DEF ChecksKept
<1> QED BY <1>1, <1>3 DEF ChecksKept

CheckKinds == {"createCheck", "createTest", "updateCheck", "updateTest", "infoCheck", "listChecks"}

LEMMA NotChecking ==
    ASSUME NEW p \in Process,
           \/ ZoneAccess(p) \/ Certification(p) \/ Group(p) \/ Credit(p) \/ Accounts(p)
           \/ Administer(p) \/ Register(p)
    PROVE  call[p].kind \notin CheckKinds
<1> USE DEF CheckKinds, At
<1>1. CASE ZoneAccess(p)
  BY <1>1 DEF ZoneAccess, LockRegistrarinvoice, AddRegistrarZoneAccess, UpdateRegistrarZoneAccess,
     DeleteRegistrarZoneAccess
<1>2. CASE Certification(p)
  BY <1>2 DEF Certification, LockRegistrarCertification, CreateRegistrarCertification,
     UpdateRegistrarCertification, DeleteRegistrarCertification
<1>3. CASE Group(p)
  BY <1>3 DEF Group, LockRegistrarGroup, CreateRegistrarGroup, UpdateRegistrarGroup, CheckNotCancelled,
     LockMembers, CancelRegistrarGroup, LockRegistrarGroupMap, CreateRegistrarGroupMembership,
     FindMembership, EndRegistrarGroupMembership
<1>4. CASE Credit(p)
  BY <1>4 DEF Credit, FindCredit, LockCredit, InsertCredit, CreateRegistrarCreditTransaction
<1>5. CASE Accounts(p)
  BY <1>5 DEF Accounts, CreateRegistrar, UpdateRegistrar, InfoRegistrar, InfoRegistrarLocking,
     AddRegistrarEppAuth, CloneRegistrarEppAuth, UpdateRegistrarEppAuth, DeleteRegistrarEppAuth
<1>6. CASE Administer(p)
  BY <1>6 DEF Administer, CreateZone, UpdateZone, CreateZoneSoa, UpdateZoneSoa, CreateZoneNs, UpdateZoneNs,
     FindConfig, SetConfig, CheckNotBlacklisted, CreateDomainNameBlacklistId
<1>7. CASE Register(p)
  BY <1>7 DEF Register, BeginChecks, FindZone, Check, CheckRegistrar, CreateDomain, Registering
<1> QED BY <1>1, <1>2, <1>3, <1>4, <1>5, <1>6, <1>7

(* Statements of operations that have nothing to do with checks            *)
LEMMA OtherChecks ==
    ASSUME Base, RowsKept', ChecksKept, NEW p \in Process, Own(p), call[p].kind \notin CheckKinds
    PROVE  ChecksKept'
<1>1. call'[p] = call[p] /\ RowsWritten(p)'
  BY DEF Own, RowsKept
<1>2. \A c \in draft'[p] : c.table \notin CheckTables
  BY <1>1 DEF RowsWritten, CheckKinds, CheckTables, OwnedTables, OwnersOf
<1>3. ChecksOf(p)'
  BY <1>1, <1>2 DEF ChecksOf, DraftContinues, InfoKept, ListKept, CheckKinds
<1> QED BY <1>2, <1>3, OwnChecks DEF CheckTables

LEMMA CreateCheckChecks ==
    ASSUME Base, ChecksKept, NEW p \in Process, Own(p), CreateContactCheck(p)
    PROVE  ChecksKept'
<1>1. /\ Shaped /\ call'[p] = call[p] /\ call[p].kind = "createCheck" /\ db' = db
      /\ call[p].suite \in DOMAIN Suites /\ day[p] \in Nat
  BY DEF Own, Base, Engaged, CreateContactCheck, At
<1> DEFINE row == [suite |-> call[p].suite, state |-> State("enqueue_req", day[p]), past |-> <<>>]
<1>2. row \in CheckRow
  BY <1>1 DEF CheckRow, CheckState, State
<1> HIDE DEF row
<1>3. PICK i \in NewIds("contact_check") : Written(p, {Row("contact_check", i, row)})
  BY DEF CreateContactCheck, row
<1>4. \A c \in draft'[p] : c.table = "contact_check" /\ c.id = i /\ c.row = row
  BY <1>1, <1>3, WritingRow
<1>5. db["contact_check"][i] = None /\ row # None
  BY <1>2, NoneIsNoRow DEF NewIds
<1>6. ChecksOf(p)'
  BY <1>1, <1>4, <1>5 DEF ChecksOf, DraftContinues, InfoKept, ListKept
<1> QED BY <1>2, <1>4, <1>6, OwnChecks

LEMMA CreateTestChecks ==
    ASSUME Base, ChecksKept, NEW p \in Process, Own(p), CreateContactTest(p)
    PROVE  ChecksKept'
<1>1. /\ Shaped /\ call'[p] = call[p] /\ call[p].kind = "createTest" /\ db' = db /\ day[p] \in Nat
      /\ call[p].check \in Ids /\ db["contact_check"][call[p].check] # None
      /\ call[p].test \in Suites[db["contact_check"][call[p].check].suite]
  BY DEF Own, Base, Engaged, CreateContactTest, At, RowsOf
<1>2. db["contact_check"][call[p].check].suite \in DOMAIN Suites
  BY <1>1 DEF ChecksKept, ChecksTyped, RowsTyped, CheckRow
<1> DEFINE row == [check |-> call[p].check, test |-> call[p].test, state |-> State("enqueued", day[p]), past |-> <<>>]
<1>3. row \in TestRow
  BY <1>1, <1>2 DEF TestRow, CheckState, State
<1> HIDE DEF row
<1>4. PICK i \in NewIds("contact_test_result") : Written(p, {Row("contact_test_result", i, row)})
  BY DEF CreateContactTest, row
<1>5. \A c \in draft'[p] : c.table = "contact_test_result" /\ c.id = i /\ c.row = row
  BY <1>1, <1>4, WritingRow
<1>6. db["contact_test_result"][i] = None /\ row # None
  BY <1>3, NoneIsNoRow DEF NewIds
<1>7. ChecksOf(p)'
  BY <1>1, <1>5, <1>6 DEF ChecksOf, DraftContinues, InfoKept, ListKept
<1> QED BY <1>3, <1>5, <1>7, OwnChecks

(* A change of the state of a check or of a test                           *)
LEMMA ChangeChecks ==
    ASSUME Base, ChecksKept, NEW p \in Process, Own(p), call[p].kind \in {"updateCheck", "updateTest"},
           NEW table \in CheckTables, NEW id \in Ids, NEW status \in CheckStatus \cup TestStatus,
           ChangeState(p, table, id, status)
    PROVE  ChecksKept'
<1>1. Shaped /\ call'[p] = call[p] /\ db' = db /\ day[p] \in Nat
  BY DEF Own, Base, Engaged
<1>2. PICK old : old = db[table][id]
  OBVIOUS
<1>3. PICK state \in CheckState : state = State(status, day[p])
  BY <1>1 DEF State, CheckState
<1>4. PICK set : /\ UpdateColumns(p, table, id, set)
                 /\ \/ set = [state |-> state, past |-> Append(old.past, old.state)]
                    \/ set = [state |-> old.state]
  BY <1>2, <1>3 DEF ChangeState
<1>5. PICK new : new = With(old, set)
  OBVIOUS
<1>6. Written(p, {Row(table, id, new)}) /\ old # None
  BY <1>2, <1>4, <1>5 DEF UpdateColumns
<1>7. \A c \in draft'[p] : c.table = table /\ c.id = id /\ c.row = new
  BY <1>1, <1>6, WritingRow
<1>8. /\ table = "contact_check" => old \in CheckRow
      /\ table = "contact_test_result" => old \in TestRow
  BY <1>2, <1>6 DEF ChecksKept, ChecksTyped, RowsTyped
<1>9. old \in CheckingRows
  BY <1>8 DEF CheckingRows, CheckTables
<1>10. Continues(old, new) /\ (old \in CheckRow => new \in CheckRow) /\ (old \in TestRow => new \in TestRow)
  BY <1>4, <1>5, <1>9, ChangeContinues, SameContinues
<1>11. new # None
  BY <1>8, <1>10, NoneIsNoRow DEF CheckTables
<1>12. ChecksOf(p)'
  BY <1>1, <1>2, <1>7, <1>10, <1>11 DEF ChecksOf, DraftContinues, InfoKept, ListKept
<1> QED BY <1>7, <1>8, <1>10, <1>12, OwnChecks DEF CheckTables

(* A read                                                                  *)
LEMMA ReadingChecks ==
    ASSUME Base, ChecksKept, NEW p \in Process, Own(p), call[p].kind \in {"infoCheck", "listChecks"},
           draft'[p] = {} \/ draft' = draft, InfoKept(p)', ListKept(p)'
    PROVE  ChecksKept'
<1>1. call'[p] = call[p] /\ db' = db
  BY DEF Own
<1>2. \A c \in draft'[p] : c \in draft[p]
  OBVIOUS
<1>3. DraftContinues(p)'
  BY <1>1, <1>2 DEF ChecksKept, ChecksOf, DraftContinues
<1>4. \A c \in draft[p] :
         /\ c.table = "contact_check" => c.row \in CheckRow
         /\ c.table = "contact_test_result" => c.row \in TestRow
  BY DEF ChecksKept, ChecksTyped, RowsTyped, ChecksOf, DraftContinues, CheckTables
<1>5. ChecksOf(p)'
  BY <1>3 DEF ChecksOf
<1> QED BY <1>2, <1>4, <1>5, OwnChecks

LEMMA InfoChecks ==
    ASSUME Base, ChecksKept, NEW p \in Process, Own(p),
           ReadCheck(p) \/ ReadTests(p) \/ ReadPastOfTests(p) \/ ReadPastOfCheck(p)
    PROVE  ChecksKept'
<1>1. Shaped /\ call' = call /\ call[p].kind = "infoCheck" /\ db' = db /\ InfoKept(p) /\ ChecksTyped
  BY DEF Own, Base, ReadCheck, ReadTests, ReadPastOfTests, ReadPastOfCheck, At, ChecksKept, ChecksOf
<1>2. ListKept(p)'
  BY <1>1 DEF ListKept
<1> DEFINE checks == "contact_check"
           tests == "contact_test_result"
<1>3. \A table \in CheckTables : \A i \in RowsOf(table) :
         i \in Ids /\ db[table][i] # None /\ WentThrough(db[table][i].state, db[table][i])
  <2> SUFFICES ASSUME NEW table \in CheckTables, NEW i \in Ids, db[table][i] # None
               PROVE  WentThrough(db[table][i].state, db[table][i])
    BY DEF RowsOf
  <2>1. PICK row \in CheckingRows : row = db[table][i]
    BY <1>1, TypedRow
  <2>2. Len(row.past) + 1 \in 1..(Len(row.past) + 1) /\ AllStates(row)[Len(row.past) + 1] = row.state
    BY StatesAre
  <2> QED BY <2>1, <2>2 DEF WentThrough
<1>4. checks \in CheckTables /\ tests \in CheckTables
  BY DEF CheckTables
<1>5. CASE ReadCheck(p)
  <2>1. /\ seen'[p].check = db[checks][call[p].check].state /\ stage'[p] = "checkRead" /\ draft' = draft
        /\ call[p].check \in RowsOf(checks)
    BY <1>1, <1>5 DEF ReadCheck, Read, Shaped
  <2>2. InfoKept(p)'
    BY <1>1, <1>3, <1>4, <2>1 DEF InfoKept, Reads
  <2> QED BY <1>1, <1>2, <2>1, <2>2, ReadingChecks
<1>6. CASE ReadTests(p)
  <2>1. /\ seen'[p].check = seen[p].check /\ stage[p] = "checkRead" /\ stage'[p] = "testsRead"
        /\ seen'[p].tests = Current(tests, TestsOf(call[p].check)) /\ draft' = draft
    BY <1>1, <1>6 DEF ReadTests, Read, Shaped, At
  <2>2. \A i \in DOMAIN seen'[p].tests : i \in RowsOf(tests) /\ seen'[p].tests[i] = db[tests][i].state
    BY <2>1 DEF Current, TestsOf
  <2>3. \A i \in DOMAIN seen'[p].tests : Reads(WentThrough, seen'[p].tests[i], tests, i)
    BY <1>3, <1>4, <2>2 DEF Reads
  <2>4. InfoKept(p)'
    BY <1>1, <2>1, <2>3 DEF InfoKept, Reads
  <2> QED BY <1>1, <1>2, <2>1, <2>4, ReadingChecks
<1>7. CASE ReadPastOfTests(p)
  <2>1. /\ seen'[p].check = seen[p].check /\ stage[p] = "testsRead" /\ stage'[p] = "testsTold"
        /\ seen'[p].tests = Appended(Past(tests, DOMAIN seen[p].tests), seen[p].tests) /\ draft' = draft
    BY <1>1, <1>7 DEF ReadPastOfTests, Read, Shaped, At
  <2>2. /\ DOMAIN seen'[p].tests = DOMAIN seen[p].tests
        /\ \A i \in DOMAIN seen[p].tests :
              seen'[p].tests[i] = Append(ByTime(db[tests][i].past), seen[p].tests[i])
    BY <2>1 DEF Appended, Past
  <2>3. ASSUME NEW i \in DOMAIN seen[p].tests PROVE Reads(ToldAll, seen'[p].tests[i], tests, i)
    <3>1. i \in Ids /\ db[tests][i] # None /\ WentThrough(seen[p].tests[i], db[tests][i])
      BY <1>1, <2>1 DEF InfoKept, Reads
    <3>2. ToldAll(Append(ByTime(db[tests][i].past), seen[p].tests[i]), db[tests][i])
      BY <1>1, <1>4, <3>1, TypedRow, AllAreTold
    <3> QED BY <2>2, <3>1, <3>2 DEF Reads
  <2>4. InfoKept(p)'
    BY <1>1, <2>1, <2>2, <2>3 DEF InfoKept, Reads
  <2> QED BY <1>1, <1>2, <2>1, <2>4, ReadingChecks
<1>8. CASE ReadPastOfCheck(p)
  <2>1. /\ stage[p] = "testsTold" /\ stage'[p] = "written" /\ draft'[p] = {}
        /\ seen'[p].tests = seen[p].tests
        /\ seen'[p].check = Append(ByTime(db[checks][call[p].check].past), seen[p].check)
    BY <1>1, <1>8, Writing DEF ReadPastOfCheck, Shaped, At
  <2>2. Reads(WentThrough, seen[p].check, checks, call[p].check)
    BY <1>1, <2>1 DEF InfoKept
  <2>3. Reads(ToldAll, seen'[p].check, checks, call[p].check)
    <3>1. ToldAll(Append(ByTime(db[checks][call[p].check].past), seen[p].check), db[checks][call[p].check])
      BY <1>1, <1>4, <2>2, TypedRow, AllAreTold DEF Reads
    <3> QED BY <2>1, <2>2, <3>1 DEF Reads
  <2>4. InfoKept(p)'
    BY <1>1, <2>1, <2>3 DEF InfoKept, Reads
  <2> QED BY <1>1, <1>2, <2>1, <2>4, ReadingChecks
<1> QED BY <1>5, <1>6, <1>7, <1>8

LEMMA ListChecks ==
    ASSUME Base, ChecksKept, NEW p \in Process, Own(p), ListContactChecks(p) \/ FindFinishTimes(p)
    PROVE  ChecksKept'
<1>1. Shaped /\ call' = call /\ call[p].kind = "listChecks" /\ db' = db /\ ListKept(p) /\ ChecksTyped
  BY DEF Own, Base, ListContactChecks, FindFinishTimes, At, ChecksKept, ChecksOf
<1>2. InfoKept(p)'
  BY <1>1 DEF InfoKept
<1> DEFINE checks == "contact_check"
<1>3. checks \in CheckTables
  BY DEF CheckTables
<1>4. CASE ListContactChecks(p)
  <2>1. PICK ids \in SUBSET RowsOf(checks) : Read(p, Current(checks, ids), "listed")
    BY <1>4 DEF ListContactChecks
  <2>2. seen'[p] = Current(checks, ids) /\ stage'[p] = "listed" /\ draft' = draft
    BY <1>1, <2>1 DEF Read, Shaped
  <2>3. ASSUME NEW i \in DOMAIN seen'[p] PROVE Reads(WentThrough, seen'[p][i], checks, i)
    <3>1. i \in Ids /\ db[checks][i] # None /\ seen'[p][i] = db[checks][i].state
      BY <2>2, <2>3 DEF Current, RowsOf
    <3>2. PICK row \in CheckingRows : row = db[checks][i]
      BY <1>1, <1>3, <3>1, TypedRow
    <3>3. Len(row.past) + 1 \in 1..(Len(row.past) + 1) /\ AllStates(row)[Len(row.past) + 1] = row.state
      BY StatesAre
    <3>4. WentThrough(row.state, row)
      BY <3>3 DEF WentThrough
    <3> QED BY <3>1, <3>2, <3>4 DEF Reads
  <2>4. ListKept(p)'
    BY <1>1, <2>2, <2>3 DEF ListKept, Reads
  <2> QED BY <1>1, <1>2, <2>2, <2>4, ReadingChecks
<1>5. CASE FindFinishTimes(p)
  <2>1. /\ stage[p] = "listed" /\ stage'[p] = "written" /\ draft'[p] = {}
        /\ seen'[p] = [i \in DOMAIN seen[p] |->
              [status |-> seen[p][i].status, finished |-> Finish(seen[p][i], db[checks][i].past)]]
    BY <1>1, <1>5, Writing DEF FindFinishTimes, Shaped, At
  <2>2. ASSUME NEW i \in DOMAIN seen'[p] PROVE Reads(ToldTime, seen'[p][i], checks, i)
    <3>1. i \in Ids /\ db[checks][i] # None /\ WentThrough(seen[p][i], db[checks][i])
      BY <1>1, <2>1 DEF ListKept, Reads
    <3>2. PICK row \in CheckingRows : row = db[checks][i]
      BY <1>1, <1>3, <3>1, TypedRow
    <3>3. PICK told : told = seen'[p][i]
      OBVIOUS
    <3>4. told = [status |-> seen[p][i].status, finished |-> Finish(seen[p][i], row.past)]
      BY <2>1, <3>2, <3>3
    <3>5. ToldTime(told, row)
      BY <3>1, <3>2, <3>4, TimeIsTold
    <3> QED BY <3>1, <3>2, <3>3, <3>5 DEF Reads
  <2>3. ListKept(p)'
    BY <1>1, <2>1, <2>2 DEF ListKept, Reads
  <2> QED BY <1>1, <1>2, <2>1, <2>3, ReadingChecks
<1> QED BY <1>4, <1>5

LEMMA VerifyChecks ==
    ASSUME Base, ChecksKept, NEW p \in Process, Own(p), Verify(p)
    PROVE  ChecksKept'
<1>1. CASE UpdateContactCheck(p)
  BY <1>1, ChangeChecks DEF UpdateContactCheck, At, RowsOf, CheckTables
<1>2. CASE UpdateContactTest(p)
  <2>1. PICK i \in TestsOf(call[p].check) : ChangeState(p, "contact_test_result", i, call[p].status)
    BY <1>2 DEF UpdateContactTest
  <2>2. i \in Ids /\ call[p].kind = "updateTest" /\ call[p].status \in CheckStatus \cup TestStatus
    BY <1>2 DEF UpdateContactTest, At, TestsOf, RowsOf
  <2> QED BY <2>1, <2>2, ChangeChecks DEF CheckTables
<1> QED BY <1>1, <1>2, CreateCheckChecks, CreateTestChecks, InfoChecks, ListChecks DEF Verify

LEMMA OperationChecks ==
    ASSUME Base, RowsKept', ChecksKept, NEW p \in Process,
           \/ ZoneAccess(p) \/ Certification(p) \/ Group(p) \/ Credit(p)
           \/ Accounts(p) \/ Administer(p) \/ Register(p) \/ Verify(p)
    PROVE  ChecksKept'
<1>1. Own(p)
  BY ZoneAccessOwn, CertificationOwn, GroupOwn, CreditOwn, AccountsElsewhere, AdministerElsewhere,
     RegisterElsewhere, VerifyElsewhere DEF Base, Elsewhere
<1> QED BY <1>1, NotChecking, OtherChecks, VerifyChecks

(* A commit replaces rows by rows that continue them.                      *)
LEMMA CommitGrowsChecks ==
    ASSUME Base, ChecksKept, NEW p \in Process, Commit(p)
    PROVE  ChecksGrow
<1> SUFFICES ASSUME NEW table \in CheckTables, NEW i \in Ids, db[table][i] # None
             PROVE  db'[table][i] # None /\ Continues(db[table][i], db'[table][i])
  BY DEF ChecksGrow
<1>1. table \in Tables
  BY StartIsStored DEF CheckTables
<1>2. CASE db'[table][i] = db[table][i]
  <2>1. db[table][i] \in CheckingRows
    BY TypedRow DEF ChecksKept
  <2> QED BY <1>2, <2>1, ContinuesItself
<1>3. CASE db'[table][i] # db[table][i]
  <2>1. PICK c \in draft[p] : c.table = table /\ c.id = i /\ db'[table][i] = c.row
    BY <1>1, <1>3, CommittedRows
  <2>2. c.row # None /\ Continues(db[table][i], c.row)
    BY <2>1 DEF ChecksKept, ChecksOf, DraftContinues
  <2> QED BY <2>1, <2>2
<1> QED BY <1>2, <1>3

LEMMA EndChecks ==
    ASSUME Base, RowsKept, ChecksKept, NEW p \in Process, Commit(p) \/ Rollback(p)
    PROVE  ChecksKept'
<1>1. End(p) /\ DOMAIN db' = Tables /\ \A t \in Tables : DOMAIN db'[t] = Ids
  BY CommitFacts DEF Rollback, Base, Shaped
<1>2. OnlyOf(p) /\ draft'[p] = {} /\ stage'[p] = "idle"
  BY <1>1, EndFacts DEF Base
<1>3. CheckTables \subseteq Tables
  BY StartIsStored DEF CheckTables
<1>4. ChecksTyped'
  <2>1. CASE Commit(p)
    BY <1>3, <2>1, CommittedTyped DEF ChecksKept, ChecksTyped, CheckTables
  <2>2. CASE Rollback(p)
    BY <1>2, <2>2 DEF ChecksKept, ChecksTyped, RowsTyped, Rollback, OnlyOf
  <2> QED BY <2>1, <2>2
<1>5. ChecksGrow
  BY CommitGrowsChecks, NothingGrows DEF Rollback, ChecksKept
<1>6. ChecksOf(p)'
  BY <1>2 DEF ChecksOf, DraftContinues, InfoKept, ListKept
<1>7. ASSUME NEW q \in Process \ {p} PROVE ChecksOf(q)'
  <2>1. /\ call'[q] = call[q] /\ stage'[q] = stage[q] /\ draft'[q] = draft[q] /\ seen'[q] = seen[q]
    BY <1>2 DEF OnlyOf
  <2>2. ASSUME NEW c \in draft[q], c.table \in CheckTables
        PROVE  db'[c.table][c.id] = db[c.table][c.id]
    <3>1. c.id \in Ids /\ Unwritten(q, c.table, c.id)
      BY <2>2 DEF RowsKept, RowsWritten, RowwiseTables
    <3>2. \A d \in draft[p] : ~(d.table = c.table /\ d.id = c.id)
      BY <3>1 DEF Unwritten
    <3> QED BY <1>3, <2>2, <3>1, <3>2, CommittedRows DEF Rollback
  <2> QED BY <1>4, <1>5, <2>1, <2>2, ChecksStay DEF ChecksKept
<1> QED BY <1>4, <1>6, <1>7 DEF ChecksKept

LEMMA BeginChecking ==
    ASSUME Base, ChecksKept, NEW p \in Process, Begin(p)
    PROVE  ChecksKept'
<1>1. OnlyOf(p) /\ db' = db /\ stage'[p] = "begun" /\ draft' = draft
  BY BeginFacts DEF Base
<1>2. ChecksTyped'
  BY <1>1 DEF ChecksKept, ChecksTyped, RowsTyped
<1>3. ChecksOf(p)'
  BY <1>1 DEF ChecksKept, ChecksOf, DraftContinues, InfoKept, ListKept
<1>4. ASSUME NEW q \in Process \ {p} PROVE ChecksOf(q)'
  BY <1>1, <1>2, NothingGrows, ChecksStay DEF ChecksKept, OnlyOf
<1> QED BY <1>2, <1>3, <1>4 DEF ChecksKept

LEMMA ChecksNext == IInv /\ RowsKept /\ RowsKept' /\ ChecksKept /\ [Next]_vars => ChecksKept'
<1> SUFFICES ASSUME Base, RowsKept, RowsKept', ChecksKept, [Next]_vars PROVE ChecksKept'
  BY DEF IInv
<1>1. CASE Tick \/ UNCHANGED vars
  <2>1. UNCHANGED <<db, call, stage, draft, seen>>
    BY <1>1 DEF Tick, vars
  <2>2. ChecksTyped'
    BY <2>1 DEF ChecksKept, ChecksTyped, RowsTyped
  <2>3. \A q \in Process : ChecksOf(q)'
    BY <2>1, <2>2, NothingGrows, ChecksStay DEF ChecksKept
  <2> QED BY <2>2, <2>3 DEF ChecksKept
<1>2. CASE ~Tick /\ Next
  <2>1. PICK p \in Process :
           \/ Begin(p) \/ Commit(p) \/ Rollback(p)
           \/ ZoneAccess(p) \/ Certification(p) \/ Group(p) \/ Credit(p)
           \/ Accounts(p) \/ Administer(p) \/ Register(p) \/ Verify(p)
    BY <1>2 DEF Next
  <2> QED BY <2>1, OperationChecks, EndChecks, BeginChecking
<1> QED BY <1>1, <1>2

LEMMA ChecksInvariance == Spec => []ChecksKept
<1>1. Init => ChecksKept
  <2> SUFFICES ASSUME Init PROVE ChecksKept
    OBVIOUS
  <2>1. ChecksTyped
    BY StartIsStored DEF Init, ChecksTyped, RowsTyped
  <2>2. \A p \in Process : ChecksOf(p)
    BY DEF Init, ChecksOf, DraftContinues, InfoKept, ListKept
  <2> QED BY <2>1, <2>2 DEF ChecksKept
<1> QED BY <1>1, ChecksNext, Invariance, RowsInvariance, PTL DEF Spec

(* What the property says of a sequence that is told                       *)
WholeTold(told, row) ==
    LET n == Len(told) - 1
        all == AllStates(row)
    IN /\ n <= Len(row.past)
       /\ \E k \in 1..(n + 1) : told[n + 1] = all[k]
       /\ \E place \in Bijection(1..n, 1..n) :
             /\ \A j \in 1..n : told[place[j]] = all[j]
             /\ \A i, j \in 1..n : i < j /\ all[i].time <= all[j].time => place[i] < place[j]

LEMMA ToldIsWhole ==
    ASSUME NEW row \in CheckingRows, NEW told, ToldAll(told, row)
    PROVE  WholeTold(told, row)
<1>1. PICK n \in 0..Len(row.past) :
        /\ Len(told) = n + 1 /\ Arranged(told, AllStates(row), n)
        /\ \E k \in 1..(n + 1) : told[n + 1] = AllStates(row)[k]
  BY DEF ToldAll
<1>2. n \in Nat /\ Len(told) - 1 = n /\ n <= Len(row.past)
  BY <1>1, StatesAre
<1>3. PICK place \in Bijection(1..n, 1..n) : Placed(told, AllStates(row), n, place)
  BY <1>1 DEF Arranged
<1> QED BY <1>1, <1>2, <1>3 DEF WholeTold, Placed

(* What is told of a check or a test, put together from several reads      *)
(* without locks, has all that it went through until it was read, out of   *)
(* the order of changes only where a transaction made a change that had    *)
(* begun before an earlier one, and a check whose tests had finished is    *)
(* listed with that time.                                                  *)
THEOREM NoStatusLost == Spec => []NoStatusIsLost
<1>1. ASSUME ChecksKept PROVE NoStatusIsLost
  <2>1. ASSUME NEW p \in Process, stage[p] = "written", call[p].kind = "infoCheck",
               NEW told, NEW table \in CheckTables, NEW i, Reads(ToldAll, told, table, i)
        PROVE  WholeTold(told, db[table][i])
    <3>1. db[table][i] \in CheckingRows /\ ToldAll(told, db[table][i])
      BY <1>1, <2>1, TypedRow DEF ChecksKept, Reads
    <3> QED BY <3>1, ToldIsWhole
  <2>2. ASSUME NEW p \in Process, stage[p] = "written", call[p].kind = "listChecks",
               NEW i \in DOMAIN seen[p]
        PROVE  \E k \in DOMAIN AllStates(db["contact_check"][i]) :
                  /\ AllStates(db["contact_check"][i])[k].status = seen[p][i].status
                  /\ \A j \in 1..k : AllStates(db["contact_check"][i])[j].status \in AfterTests =>
                        /\ seen[p][i].finished # None
                        /\ j < k => seen[p][i].finished <= AllStates(db["contact_check"][i])[j].time
    <3>1. Reads(ToldTime, seen[p][i], "contact_check", i)
      BY <1>1, <2>2 DEF ChecksKept, ChecksOf, ListKept
    <3>2. PICK row \in CheckingRows : row = db["contact_check"][i]
      BY <1>1, <3>1, TypedRow DEF ChecksKept, Reads, CheckTables
    <3> QED BY <3>1, <3>2, StatesAre DEF Reads, ToldTime
  <2>3. ASSUME NEW p \in Process, stage[p] = "written", call[p].kind = "infoCheck"
        PROVE  /\ Reads(ToldAll, seen[p].check, "contact_check", call[p].check)
               /\ \A i \in DOMAIN seen[p].tests :
                     Reads(ToldAll, seen[p].tests[i], "contact_test_result", i)
    BY <1>1, <2>3 DEF ChecksKept, ChecksOf, InfoKept
  <2>4. ASSUME NEW p \in Process, stage[p] = "written", call[p].kind = "infoCheck"
        PROVE  /\ WholeTold(seen[p].check, db["contact_check"][call[p].check])
               /\ \A i \in DOMAIN seen[p].tests :
                     WholeTold(seen[p].tests[i], db["contact_test_result"][i])
    BY <2>1, <2>3, <2>4 DEF CheckTables
  <2> QED BY <2>2, <2>4 DEF NoStatusIsLost, WholeTold, AllStates
<1> QED BY <1>1, ChecksInvariance, PTL
=============================================================================
