---------------------------- MODULE Administration ----------------------------
(***************************************************************************)
(* The operations on registrars, zones, names and contact checks in        *)
(* transactions that run at once.                                          *)
(***************************************************************************)
EXTENDS Registrars, Zones, ContactChecks

Until == Nat \cup {None}

PeriodRow == [from : Nat, to : Until]

MembershipRow == [group : Ids, from : Nat, to : Until]

(* A name is a sequence of labels.                                         *)
DomainName == Seq(STRING)

ZoneRow == [fqdn : DomainName, enum : BOOLEAN, dots : Nat, expiry : Nat, validity : Nat]

CheckerRow == [zone : Ids, checker : DOMAIN Rejects]

DomainRow == [name : DomainName, zone : Ids]

BlacklistRow == [regexp : SUBSET DomainName, from : Nat, to : Until]

CheckState == [status : CheckStatus \cup TestStatus \cup {"enqueue_req", "enqueued"}, time : Nat]

CheckRow == [suite : DOMAIN Suites, state : CheckState, past : Seq(CheckState)]

TestRow ==
    [check : Ids, test : UNION {Suites[s] : s \in DOMAIN Suites}, state : CheckState, past : Seq(CheckState)]

(* What is seen of the checkers of a zone                                  *)
SeenConfig == [zone : Ids, rows : SUBSET Ids]

ASSUME NoneIsNoRow ==
    /\ MaxRows \in Nat
    /\ None \notin Nat \cup PeriodRow \cup MembershipRow
    /\ None \notin ZoneRow \cup CheckerRow \cup DomainRow \cup BlacklistRow \cup SeenConfig
    /\ None \notin CheckRow \cup TestRow

ASSUME CheckersAreKnown == IsFiniteSet(DOMAIN Rejects)

(* The calls that write periods, and those that name a row                 *)
ASSUME CallsGiveDates ==
    \A w \in DOMAIN Workloads : \A c \in Workloads[w] :
        /\ c # None
        /\ c.kind \in {"addAccess", "createCertification", "createMembership"} =>
              c.from \in Nat /\ c.to \in Until
        /\ c.kind = "updateAccess" => c.from \in Until /\ c.to \in Until
        /\ c.kind = "updateCertification" => c.to \in Until
        /\ c.kind \in {"updateAccess", "deleteAccess", "updateCertification", "deleteCertification",
                       "createMembership", "endMembership", "cancelGroup", "updateGroup",
                       "updateRegistrar", "updateNs", "updateAuth", "deleteAuth", "blacklist"} => c.id \in Ids

(* Calls about names; an update of a zone changes its periods.             *)
ASSUME CallsGiveNames ==
    \A w \in DOMAIN Workloads : \A c \in Workloads[w] :
        /\ c.kind = "createZone" =>
              c.fqdn \in DomainName /\ c.expiry \in Nat /\ c.validity \in Until
        /\ c.kind = "updateZone" =>
              DOMAIN c.set \subseteq {"expiry", "validity"} /\ \A d \in DOMAIN c.set : c.set[d] \in Nat
        /\ c.kind = "register" => c.name \in DomainName
        /\ c.kind = "blacklist" => c.from \in Until /\ c.to \in Until

(* Of all rows, two of which have been one group's at once only if one     *)
(* ended before it began                                                   *)
IntersectByInversion(rows) ==
    LET ids == {i \in Ids : rows[i] # None}
        before(a, b) == b.to # None => a.from < b.to
    IN (\A i \in ids : NotAfter(rows[i].from, rows[i].to)) =>
          \A i, j \in ids :
              i # j /\ rows[i].group = rows[j].group =>
                  ~(before(rows[i], rows[j]) /\ before(rows[j], rows[i]))

ASSUME StartIsStored ==
    /\ {"registrarinvoice", "registrar_certification", "registrar_group_map", "registrar_group",
        "registrar_credit", "registrar", "zone", "zone_soa", "checker_map", "domain", "domain_blacklist",
        "contact_check", "contact_test_result"}
          \subseteq Tables
    /\ \A t \in Tables : DOMAIN Start[t] = Ids
    /\ \A i \in Ids :
          /\ Start["registrarinvoice"][i] \in PeriodRow \cup {None}
          /\ Start["registrar_certification"][i] \in PeriodRow \cup {None}
          /\ Start["registrar_group_map"][i] \in MembershipRow \cup {None}
          /\ Start["zone"][i] \in ZoneRow \cup {None}
          /\ Start["checker_map"][i] \in CheckerRow \cup {None}
          /\ Start["domain"][i] \in DomainRow \cup {None}
          /\ Start["domain_blacklist"][i] \in BlacklistRow \cup {None}
          /\ Start["contact_check"][i] \in CheckRow \cup {None}
          /\ Start["contact_test_result"][i] \in TestRow \cup {None}
    /\ IntersectByInversion(Start["registrar_group_map"])
    /\ \A i, j \in Ids :
          Start["zone"][i] # None /\ Start["zone"][j] # None /\ i # j =>
              Start["zone"][i].fqdn # Start["zone"][j].fqdn

Next ==
    \/ Tick
    \/ \E p \in Process :
          \/ Begin(p) \/ Commit(p) \/ Rollback(p)
          \/ ZoneAccess(p) \/ Certification(p) \/ Group(p) \/ Credit(p)
          \/ Accounts(p) \/ Administer(p) \/ Register(p) \/ Verify(p)

Spec == Init /\ [][Next]_vars

-----------------------------------------------------------------------------
(* Two accesses to the zone come to overlap only when two updates run at   *)
(* once: one of them compared its row with what the other has changed      *)
(* since.                                                                  *)
AccessOverlapWasConcurrent ==
    [][\A p \in Process : Commit(p) =>
          \A i, j \in RowsOf("registrarinvoice")' :
              LET old == db["registrarinvoice"]
                  new == db'["registrarinvoice"]
              IN i # j /\ Overlap(new[i], new[j])
                 /\ ~(old[i] # None /\ old[j] # None /\ Overlap(old[i], old[j]))
                 => /\ call[p].kind = "updateAccess"
                    /\ \E k \in {i, j} \ {call[p].id} : seen[p][k] # old[k]]_vars

(* A new certification never overlaps another, whatever updates have done  *)
(* before: certifications come to overlap only when one is extended.       *)
CertificationOverlapByUpdate ==
    [][\A p \in Process : Commit(p) /\ call[p].kind # "updateCertification" =>
          \A i, j \in RowsOf("registrar_certification")' :
              LET old == db["registrar_certification"]
                  new == db'["registrar_certification"]
              IN i # j /\ Overlap(new[i], new[j]) =>
                    old[i] # None /\ old[j] # None /\ Overlap(old[i], old[j])]_vars

(* A group that is cancelled has no members on that day, also if one was   *)
(* about to join it.                                                       *)
CancelledGroupWasEmpty ==
    [][\A p \in Process : Commit(p) /\ call[p].kind = "cancelGroup" =>
          \A i \in RowsOf("registrar_group_map") :
              ~IsMember(db["registrar_group_map"][i], call[p].id, day[p])]_vars

(* Memberships share more than a day only if one has been ended before it  *)
(* began (as happens to one that is open when an earlier one is created).  *)
MembershipsIntersectByInversion == IntersectByInversion(db["registrar_group_map"])

(* The first charge to a credit does not fail because of another one.      *)
FirstChargesSucceed == \A p \in Process : stage[p] # "failed"

-----------------------------------------------------------------------------
(* An update changes the columns that it was given and no others, whatever *)
(* others have changed while it waited, and no row that somebody has       *)
(* locked for reading.                                                     *)
UpdatesChangeWhatTheyAsk ==
    [][\A p \in Process : Commit(p) =>
          \A c \in draft[p] :
              LET old == db[c.table][c.id]
                  set == IF call[p].kind = "updateRegistrar" THEN ToNull(call[p].set) ELSE call[p].set
              IN /\ \A q \in Process \ {p} : RowLock(c.table, c.id) \notin locks[q]
                 /\ call[p].kind \in {"updateZone", "updateSoa", "updateRegistrar"} =>
                       \A d \in DOMAIN DiffRegistrar(old, c.row) :
                          d \in DOMAIN set /\ c.row[d] = set[d]]_vars

(* A new domain is in the longest zone of its name and passes the checkers *)
(* of that zone, unless its registrar is the system's own or the zone was  *)
(* created, or its checkers configured, while the domain was.              *)
DomainFitsItsZone ==
    [][\A p \in Process : Commit(p) /\ call[p].kind = "register" =>
          \A d \in {c.row : c \in draft[p]} :
              LET fqdn == db["zone"][d.zone].fqdn
                  own == SubSeq(d.name, 1, Len(d.name) - Len(fqdn))
              IN /\ d.name = own \o fqdn /\ own # <<>>
                 /\ d.zone \in seen[p].zones =>
                       /\ \A z \in seen[p].zones :
                             IsSuffix(db["zone"][z].fqdn, d.name) => IsSuffix(db["zone"][z].fqdn, fqdn)
                                                                     \/ db["zone"][z].fqdn = d.name
                       /\ Len(own) <= db["zone"][d.zone].dots
                 /\ \/ d.zone \notin seen[p].zones
                    \/ Config(d.zone) # seen[p].passed.config
                    \/ \E r \in RowsOf("registrar") :
                          db["registrar"][r].handle = call[p].handle /\ db["registrar"][r].system
                    \/ \A label \in ToSet(own) : \A c \in Config(d.zone) : label \notin Rejects[c]]_vars

(* Checks that nothing protects miss only what was committed after them: a *)
(* name above or below one of the same zone of ENUM, a period on the black *)
(* list that overlaps another, checkers that stay besides those that were  *)
(* asked for.                                                              *)
RepeatedWasConcurrent ==
    [][\A p \in Process : Commit(p) =>
          LET new == {c.row : c \in {d \in draft[p] : d.row # None}}
              overlap(a, b) == /\ b.to # None => a.from < b.to
                               /\ a.to # None => b.from < a.to
              checkers(rows, z) ==
                  {rows[i].checker : i \in {j \in Ids : rows[j] # None /\ rows[j].zone = z}}
          IN /\ call[p].kind = "register" =>
                   \A d \in new, i \in seen[p].domains :
                      d.zone \in seen[p].zones /\ db["zone"][d.zone].enum
                      /\ db["domain"][i].zone = d.zone => ~Nested(d.name, db["domain"][i].name)
             /\ call[p].kind = "blacklist" =>
                   \A b \in new, i \in seen[p] :
                      LET row == db["domain_blacklist"][i] IN
                      row.regexp = b.regexp => ~(overlap(b, row) /\ overlap(row, b))
             /\ call[p].kind = "setConfig" =>
                   \/ ConfigRows(seen[p].zone) # seen[p].rows
                   \/ checkers(db'["checker_map"], seen[p].zone) = call[p].checkers \cap DOMAIN Rejects]_vars

(* What is told of a check or a test has all that it went through until it *)
(* was read, each state once and the current one at the end again, in the  *)
(* order of changes but for those that a transaction made which had begun  *)
(* before an earlier change.  A check whose tests had finished is listed   *)
(* with that time.  Others change them between the reads.                  *)
NoStatusIsLost ==
    LET states(row) == Append(row.past, row.state)
        whole(told, row) ==
            LET n == Len(told) - 1
                all == states(row)
            IN /\ n <= Len(row.past)
               /\ \E k \in 1..(n + 1) : told[n + 1] = all[k]
               /\ \E place \in Bijection(1..n, 1..n) :
                     /\ \A j \in 1..n : told[place[j]] = all[j]
                     /\ \A i, j \in 1..n : i < j /\ all[i].time <= all[j].time => place[i] < place[j]
        timed(told, row) ==
            \E k \in DOMAIN states(row) :
                /\ states(row)[k].status = told.status
                /\ \A j \in 1..k : states(row)[j].status \in AfterTests =>
                      told.finished # None /\ (j < k => told.finished <= states(row)[j].time)
    IN \A p \in Process : stage[p] = "written" =>
          /\ call[p].kind = "infoCheck" =>
                /\ whole(seen[p].check, db["contact_check"][call[p].check])
                /\ \A i \in DOMAIN seen[p].tests : whole(seen[p].tests[i], db["contact_test_result"][i])
          /\ call[p].kind = "listChecks" =>
                \A i \in DOMAIN seen[p] : timed(seen[p][i], db["contact_check"][i])
=============================================================================
