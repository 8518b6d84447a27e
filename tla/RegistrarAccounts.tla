--------------------------- MODULE RegistrarAccounts ---------------------------
(***************************************************************************)
(* Registrars and the certificates with passwords that they log in with.   *)
(*                                                                         *)
(* Each operation is one statement, and the row locks and the unique       *)
(* columns of PostgreSQL are what keeps two of them apart.  A handle       *)
(* stands for all its spellings in capitals and small letters.             *)
(***************************************************************************)
EXTENDS Transactions

CONSTANTS Countries,    \* codes of the countries that are known
          Empty         \* ""

(* Columns that can be emptied; an update to Empty sets them to NULL.         *)
OptionalColumns == {"varsymb", "country"}

ToNull(set) == [c \in DOMAIN set |-> IF set[c] = Empty THEN None ELSE set[c]]

(* What the setters and the look-up of the country let pass                *)
Acceptable(set) ==
    /\ \A c \in DOMAIN set \ OptionalColumns : set[c] # Empty
    /\ "country" \in DOMAIN set => set["country"] \in Countries \cup {Empty}

(* The constraints registrar_handle_key and registrar_varsymb_key          *)
KeysAreFree(p, id, set) ==
    \A column \in {"handle", "varsymb"} \cap DOMAIN set :
        set[column] # Empty => Unique(p, "registrar", id, column, set[column])

NewRegistrar(set) ==
    [c \in {"handle", "varsymb", "country", "data", "system"} |->
        IF c \in DOMAIN set THEN ToNull(set)[c] ELSE IF c = "system" THEN FALSE ELSE None]

CreateRegistrar(p) ==
    LET set == call[p].set IN
    /\ At(p, "createRegistrar", "begun") /\ Acceptable(set) /\ KeysAreFree(p, 0, set)
    /\ \E i \in NewIds("registrar") : Written(p, {Row("registrar", i, NewRegistrar(set))})
    /\ UNCHANGED <<locks, seen>>

UpdateRegistrar(p) ==
    LET set == call[p].set IN
    /\ At(p, "updateRegistrar", "begun") /\ Acceptable(set) /\ KeysAreFree(p, call[p].id, set)
    /\ UpdateColumns(p, "registrar", call[p].id, ToNull(set))
    /\ UNCHANGED seen

(* InfoRegistrar locks the rows that it tells, by default FOR SHARE: by    *)
(* handle, by id, or all that are neither internal nor the system's own.   *)
Told(c) ==
    {i \in RowsOf("registrar") :
        IF c.id # None THEN i = c.id ELSE ~db["registrar"][i].system}

InfoRegistrar(p) ==
    /\ At(p, "infoRegistrar", "begun") /\ (call[p].id # None => Told(call[p]) # {})
    /\ \A i \in Told(call[p]) : Unwritten(p, "registrar", i)
    /\ locks' = [locks EXCEPT ![p] = @ \cup {RowLock("registrar", i) : i \in Told(call[p])}]
    /\ Written(p, {})
    /\ seen' = [seen EXCEPT ![p] = [i \in Told(call[p]) |-> db["registrar"][i]]]

(* FOR UPDATE                                                              *)
InfoRegistrarLocking(p) ==
    /\ At(p, "lockRegistrar", "begun") /\ call[p].id \in RowsOf("registrar")
    /\ RowFree(p, "registrar", call[p].id)
    /\ locks' = [locks EXCEPT ![p] = @ \cup {RowLock("registrar", call[p].id)}]
    /\ Written(p, {})
    /\ seen' = [seen EXCEPT ![p] = [i \in {call[p].id} |-> db["registrar"][i]]]

(* InfoRegistrarDiff: the columns in which two states of a registrar       *)
(* differ, with both values                                                *)
DiffRegistrar(first, second) ==
    [c \in {d \in DOMAIN first : first[d] # second[d]} |-> <<first[c], second[c]>>]

-----------------------------------------------------------------------------
(* Certificates: the fingerprint is unique, the password is a value        *)
CertificateIsFree(p, id, cert) == Unique(p, "registraracl", id, "cert", cert)

Certificate(registrar, cert, password, pem) ==
    [registrar |-> registrar, cert |-> cert, password |-> password, pem |-> pem]

AddRegistrarEppAuth(p) ==
    LET c == call[p] IN
    /\ At(p, "addAuth", "begun") /\ CertificateIsFree(p, 0, c.cert)
    /\ \E r \in RowsOf("registrar"), i \in NewIds("registraracl") :
          /\ db["registrar"][r].handle = c.handle
          /\ Written(p, {Row("registraracl", i, Certificate(r, c.cert, c.password, c.pem))})
    /\ UNCHANGED <<locks, seen>>

(* INSERT ... SELECT: another fingerprint with the same password, which is *)
(* read without a lock                                                     *)
CloneRegistrarEppAuth(p) ==
    LET c == call[p]
        source == db["registraracl"][c.id]
    IN /\ At(p, "cloneAuth", "begun") /\ source # None /\ CertificateIsFree(p, 0, c.cert)
       /\ \E i \in NewIds("registraracl") :
             Written(p, {Row("registraracl", i,
                             Certificate(source.registrar, c.cert, source.password, c.pem))})
       /\ seen' = [seen EXCEPT ![p] = source]
       /\ UNCHANGED locks

(* A fingerprint that is set alone clears the certificate that was stored. *)
AuthColumns(set) ==
    IF "cert" \in DOMAIN set /\ "pem" \notin DOMAIN set
    THEN [c \in DOMAIN set \cup {"pem"} |-> IF c = "pem" THEN None ELSE set[c]]
    ELSE set

UpdateRegistrarEppAuth(p) ==
    LET set == AuthColumns(call[p].set) IN
    /\ At(p, "updateAuth", "begun")
    /\ "cert" \in DOMAIN set => CertificateIsFree(p, call[p].id, set["cert"])
    /\ UpdateColumns(p, "registraracl", call[p].id, set)
    /\ UNCHANGED seen

DeleteRegistrarEppAuth(p) ==
    /\ At(p, "deleteAuth", "begun")
    /\ db["registraracl"][call[p].id] # None /\ RowFree(p, "registraracl", call[p].id)
    /\ Written(p, {Row("registraracl", call[p].id, None)})
    /\ UNCHANGED <<locks, seen>>

Accounts(p) ==
    \/ CreateRegistrar(p) \/ UpdateRegistrar(p) \/ InfoRegistrar(p) \/ InfoRegistrarLocking(p)
    \/ AddRegistrarEppAuth(p) \/ CloneRegistrarEppAuth(p)
    \/ UpdateRegistrarEppAuth(p) \/ DeleteRegistrarEppAuth(p)
=============================================================================
