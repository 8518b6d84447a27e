--------------------------- MODULE MCAdministration ---------------------------
(***************************************************************************)
(* Calls for zone access with credit, for certifications, for membership,  *)
(* for groups, for zones, for names and their checkers, for ENUM, for the  *)
(* black list, for accounts of registrars, and for contact checks.         *)
(***************************************************************************)
EXTENDS Administration, TLC

CONSTANTS p1, p2

Symmetry == Permutations({p1, p2})

Ask(kind, id, from, to) == [kind |-> kind, id |-> id, from |-> from, to |-> to, name |-> None]
Named(kind, id, name)   == [Ask(kind, id, None, None) EXCEPT !.name = name]

AccessCalls ==
    {Ask("addAccess", None, from, to) : from \in {0, 2}, to \in {1, None}}
    \cup {Ask("updateAccess", id, None, to) : id \in {1, 2}, to \in {0, 2}}
    \cup {Ask("updateAccess", 2, 1, None), Ask("deleteAccess", 1, None, None),
          Ask("charge", None, None, None)}

CertificationCalls ==
    {Ask("createCertification", None, from, to) : from \in {0, 2}, to \in {3, None}}
    \cup {Ask("createCertification", None, 1, 2)}
    \cup {Ask("updateCertification", id, None, to) : id \in {1, 2}, to \in {2, None}}
    \cup {Ask("deleteCertification", 1, None, None)}

MembershipCalls ==
    {Ask("createMembership", 1, from, None) : from \in {0, 2}}
    \cup {Ask("createMembership", 1, 0, 2), Ask("endMembership", 1, None, None), Ask("cancelGroup", 1, None, None)}

GroupCalls ==
    {Named("createGroup", None, "a"), Named("createGroup", None, "b"), Named("updateGroup", 1, "b"),
     Ask("cancelGroup", 2, None, None), Ask("createMembership", 2, 1, None)}

-----------------------------------------------------------------------------
cz   == <<"cz">>
co   == <<"co", "cz">>
arpa == <<"1", "e164", "arpa">>

Refusals == [hyphens |-> {"a--b"}, digits |-> {"1"}]

Set(kind, id, fqdn, set) == [kind |-> kind, id |-> id, fqdn |-> fqdn, set |-> set]
New(fqdn, validity) == [kind |-> "createZone", fqdn |-> fqdn, expiry |-> 12, validity |-> validity]
Name(name, enum) == [kind |-> "register", name |-> name, handle |-> "REG", enum |-> enum, system |-> FALSE]
Configure(fqdn, checkers) == [kind |-> "setConfig", fqdn |-> fqdn, checkers |-> checkers]
Server(fqdn) == [kind |-> "createNs", fqdn |-> fqdn, host |-> "ns", addrs |-> {}]

ZoneCalls ==
    {New(co, None), New(arpa, 3),
     Set("updateZone", None, cz, [expiry |-> 24]), Set("updateZone", None, arpa, [validity |-> 4]),
     Set("createSoa", None, cz, [ns |-> "a"]),
     Set("updateSoa", None, cz, [ttl |-> "1"]), Set("updateSoa", None, cz, [ns |-> "b"]),
     Server(cz), Set("updateNs", 1, co, [host |-> "ns2"]), Set("updateNs", 1, None, [addrs |-> {"ip"}]),
     Set("infoRegistrar", 1, None, << >>)}

NameCalls ==
    {Name(<<"a--b", "cz">>, FALSE), Name(<<"a", "co", "cz">>, FALSE), New(co, None),
     Set("updateZone", None, cz, [expiry |-> 24])}

ConfigCalls ==
    {Name(<<"a--b", "cz">>, FALSE), Configure(cz, {"hyphens"}), Configure(cz, {"digits", "unknown"}),
     Set("updateRegistrar", 1, None, [system |-> TRUE]), Set("updateRegistrar", 1, None, [system |-> FALSE])}

EnumCalls ==
    {Name(<<"2">> \o arpa, TRUE), Name(<<"3", "2">> \o arpa, TRUE), New(<<"2">> \o arpa, 3)}

BlacklistCalls ==
    {Ask("blacklist", 1, from, to) : from \in {None, 0, 2}, to \in {1, None}}
    \cup {Name(<<"c", "cz">>, FALSE)}

AccountCalls ==
    {Set("createRegistrar", None, None, [handle |-> "NEW", data |-> "x", varsymb |-> "1"]),
     Set("updateRegistrar", 1, None, [handle |-> "NEW"]),
     Set("updateRegistrar", 1, None, [varsymb |-> Empty, country |-> "CZ"]),
     Set("updateRegistrar", 1, None, [varsymb |-> "1"]),
     Set("infoRegistrar", None, None, << >>), Set("lockRegistrar", 1, None, << >>),
     [kind |-> "addAuth", handle |-> "REG", cert |-> "f1", password |-> "s", pem |-> "pem"],
     [kind |-> "cloneAuth", id |-> 1, cert |-> "f2", pem |-> None],
     Set("updateAuth", 1, None, [cert |-> "f2"]), Set("updateAuth", 1, None, [password |-> "t"]),
     Set("deleteAuth", 1, None, << >>)}

Checks(kind, check, test, status) == [kind |-> kind, check |-> check, test |-> test, status |-> status]

CheckCalls ==
    {Checks("updateCheck", 1, None, "auto_ok"), Checks("infoCheck", 1, None, None)}

ResultCalls ==
    {Checks("createTest", 1, "t1", None), Checks("updateTest", 1, "t1", "ok"),
     Checks("infoCheck", 1, None, None)}

ListCalls ==
    {Checks("updateCheck", 1, None, status) : status \in {"auto_ok", "ok"}}
    \cup {Checks("listChecks", None, None, None)}

TestCalls ==
    {[kind |-> "createCheck", suite |-> "manual"]}
    \cup {Checks("createTest", 1, test, None) : test \in {"t1", "t2"}}
    \cup {Checks("updateTest", 1, "t2", "ok"), Checks("infoCheck", 1, None, None),
          Checks("listChecks", None, None, "enqueue_req")}

AllSuites == [manual |-> {"t1", "t2"}]

-----------------------------------------------------------------------------
AllWorkloads ==
    [access |-> AccessCalls, certification |-> CertificationCalls,
     membership |-> MembershipCalls, group |-> GroupCalls,
     zone |-> ZoneCalls, name |-> NameCalls, config |-> ConfigCalls, enum |-> EnumCalls,
     blacklist |-> BlacklistCalls, account |-> AccountCalls, check |-> CheckCalls,
     result |-> ResultCalls, list |-> ListCalls, test |-> TestCalls]

AllDays ==
    [w \in DOMAIN AllWorkloads |-> IF w \in {"zone", "name", "config", "enum", "account", "test"} THEN 0 ELSE 1]

(* One group, one access to the zone, one registrar, one zone with a       *)
(* domain and a checker, one name on the black list, one check of a        *)
(* contact                                                                 *)
First(t) ==
    CASE t = "registrar_group"  -> [name |-> "old", cancelled |-> None]
      [] t = "registrarinvoice" -> [from |-> 0, to |-> 1]
      [] t = "registrar"        -> [handle |-> "REG", varsymb |-> "2", country |-> None, data |-> "r",
                                    system |-> FALSE]
      [] t = "zone"             -> [fqdn |-> cz, enum |-> FALSE, dots |-> 1, expiry |-> 12, validity |-> 0]
      [] t = "checker_map"      -> [zone |-> 1, checker |-> "hyphens"]
      [] t = "domain"           -> [name |-> <<"d", "cz">>, zone |-> 1]
      [] t = "domain_blacklist" -> [regexp |-> {<<"c", "cz">>, <<"d", "cz">>}, from |-> 0, to |-> 1]
      [] t = "contact_check"    -> [suite |-> "manual", state |-> State("enqueue_req", 0), past |-> <<>>]
      [] OTHER                  -> None

StartRows ==
    [t \in {"registrarinvoice", "registrar_certification", "registrar_group_map", "registrar_group",
            "registrar_credit", "registrar", "registraracl", "zone", "zone_soa", "zone_ns",
            "checker_map", "domain", "domain_blacklist", "contact_check", "contact_test_result"} |->
        [i \in Ids |->
            IF i = 2 /\ t = "zone"
            THEN [fqdn |-> arpa, enum |-> TRUE, dots |-> 9, expiry |-> 12, validity |-> 6]
            ELSE IF i = 1 THEN First(t) ELSE None]]
=============================================================================
