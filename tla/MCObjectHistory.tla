--------------------------- MODULE MCObjectHistory ---------------------------
(***************************************************************************)
(* Two contacts, an nsset and a keyset of the same name, and an ENUM       *)
(* domain; each can be changed, deleted and, but for one contact,          *)
(* registered again.  A third contact can be made as a copy of the first.  *)
(***************************************************************************)
EXTENDS ObjectHistory, TLC

ShippingTypes == {"SHIPPING"}
Enum == {"enum"}
Symmetry == Permutations(Process)

Texts == {{"old", "OLD"}}
Companies == {"new"}
Names == {"bob", "carol"}

(* A call that asks for nothing                                            *)
Ask(kind, type, name) == [UpdateOf(type, name, "first") EXCEPT !.kind = kind]

Address(type, place) == [type |-> type, place |-> place, company |-> type = "SHIPPING"]
Host(fqdn, ips) == [fqdn |-> fqdn, ips |-> ips]

CreateAlice == [Ask("create", "contact", "alice") EXCEPT
                    !.value = "old", !.disclose = {"address"}, !.put = {Address("MAILING", "here")}]
CreateBob   == [Ask("create", "contact", "bob") EXCEPT !.value = "OLD", !.disclose = {"address"}]
CreateSetN  == [Ask("create", "nsset", "set") EXCEPT
                    !.value = 0, !.put = {Host("ns1", {"ip1"})}, !.add = {"alice"}]
CreateSetK  == [Ask("create", "keyset", "set") EXCEPT !.put = {"key1"}, !.add = {"bob"}]
CreateEnum  == [Ask("create", "domain", "enum") EXCEPT
                    !.value = 1, !.put = {1}, !.add = {"bob"},
                    !.registrant = "bob", !.nsset = "set", !.keyset = None]

StartCalls == <<CreateAlice, CreateBob, CreateSetN, CreateSetK, CreateEnum>>

CallsOfAll ==
    {CreateAlice, CreateSetN, CreateSetK, CreateEnum,
     Ask("delete", "contact", "alice"), Ask("delete", "nsset", "set"),
     Ask("delete", "keyset", "set"), Ask("delete", "domain", "enum"),
     (* an address is replaced and one is added; an address is removed      *)
     [Ask("update", "contact", "alice") EXCEPT
         !.value = "new", !.put = {Address("MAILING", "there"), Address("SHIPPING", "here")}],
     [Ask("update", "contact", "alice") EXCEPT !.drop = {"MAILING"}, !.disclose = {}],
     [Ask("request", "contact", "alice") EXCEPT !.value = "contactPassedManualVerification"],
     [Ask("request", "contact", "alice") EXCEPT !.value = "identifiedContact"],
     [Ask("request", "contact", "bob") EXCEPT !.value = "contactFailedManualVerification"],
     [Ask("request", "domain", "enum") EXCEPT !.value = "serverUpdateProhibited"],
     Ask("undisclose", "contact", "alice"),
     (* alice has an address that bob lacks, and carol is a copy of alice   *)
     [Ask("merge", "contact", "alice") EXCEPT !.add = {"bob"}],
     [Ask("merge", "contact", "bob") EXCEPT !.add = {"alice"}],
     [Ask("merge", "contact", "bob") EXCEPT !.add = {"carol"}],
     [Ask("copy", "contact", "alice") EXCEPT !.add = {"carol"}],
     Ask("cancelVerified", "contact", "alice"),
     (* a company at an address that may not have one                       *)
     [Ask("update", "contact", "bob") EXCEPT
         !.put = {[type |-> "MAILING", place |-> "here", company |-> TRUE]}],
     (* alice leaves the nsset; a host gets another address                 *)
     [Ask("update", "nsset", "set") EXCEPT !.value = 1, !.add = {"bob"}, !.rem = {"alice"}],
     [Ask("update", "nsset", "set") EXCEPT !.drop = {"ns1"}, !.put = {Host("ns1", {"ip2"})}],
     [Ask("update", "keyset", "set") EXCEPT
         !.drop = {"key1"}, !.put = {"key2"}, !.add = {"alice"}],
     (* the domain changes over from the nsset to the keyset of that name   *)
     [Ask("update", "domain", "enum") EXCEPT
         !.nsset = None, !.keyset = "set", !.rem = {"bob"}, !.put = {2}],
     [Ask("update", "domain", "enum") EXCEPT !.registrant = "alice"],
     [Ask("renew", "domain", "enum") EXCEPT !.value = 2, !.put = {3}],
     [Ask("transfer", "contact", "alice") EXCEPT !.registrar = "second"],
     [Ask("transfer", "nsset", "set") EXCEPT !.registrar = "second"],
     [Ask("transfer", "keyset", "set") EXCEPT !.registrar = "second"],
     [Ask("transfer", "domain", "enum") EXCEPT !.registrar = "second"]}
=============================================================================
