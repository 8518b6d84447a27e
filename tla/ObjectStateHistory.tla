-------------------------- MODULE ObjectStateHistory --------------------------
(***************************************************************************)
(* What can be asked of the rows of object_state: the states of an object  *)
(* now, and the timeline of its states between two limits.  The object was *)
(* created at time 0.                                                      *)
(***************************************************************************)
EXTENDS ObjectStateRequests, FiniteSetsExt

(* The states that an object of each type may have                         *)
ContactStates ==
    {"deleteCandidate", "linked", "contactFailedManualVerification", "contactInManualVerification",
     "contactPassedManualVerification", "conditionallyIdentifiedContact", "identifiedContact",
     "validatedContact", "mojeidContact", "serverBlocked", "serverDeleteProhibited",
     "serverTransferProhibited", "serverUpdateProhibited", "serverContactNameChangeProhibited",
     "serverContactOrganizationChangeProhibited", "serverContactIdentChangeProhibited",
     "serverContactPermanentAddressChangeProhibited"}
NssetStates ==
    {"deleteCandidate", "linked", "serverDeleteProhibited", "serverTransferProhibited",
     "serverUpdateProhibited"}
KeysetStates ==
    {"deleteCandidate", "linked", "serverDeleteProhibited", "serverTransferProhibited",
     "serverUpdateProhibited"}
DomainStates ==
    {"nssetMissing", "expirationWarning", "expired", "outzone", "unguarded",
     "outzoneUnguardedWarning", "outzoneUnguarded", "deleteCandidate", "deleteWarning",
     "validationWarning1", "validationWarning2", "notValidated", "serverOutzoneManual",
     "serverInzoneManual", "serverRegistrantChangeProhibited", "serverRenewProhibited",
     "serverBlocked", "serverDeleteProhibited", "serverTransferProhibited", "serverUpdateProhibited"}

(* ObjectHasState: a row that is open                                      *)
ObjectHasState(s) == \E r \in Rows(inEffect[s]) : r.to = None

GetContactState == {s \in States \cap ContactStates : ObjectHasState(s)}
GetNssetState   == {s \in States \cap NssetStates : ObjectHasState(s)}
GetKeysetState  == {s \in States \cap KeysetStates : ObjectHasState(s)}
GetDomainState  == {s \in States \cap DomainStates : ObjectHasState(s)}

GetState(type) ==
    CASE type = "contact" -> GetContactState [] type = "nsset" -> GetNssetState
      [] type = "keyset" -> GetKeysetState   [] type = "domain" -> GetDomainState

(* GetObjectStates: rows that are valid at CURRENT_TIMESTAMP               *)
GetObjectStates(t) == {s \in States : \E r \in Rows(inEffect[s]) : Covers(r, t)}

-----------------------------------------------------------------------------
(* No lower limit is the creation, no upper limit is infinity.             *)
LookingStart(lower) == IF lower = None THEN 0 ELSE lower

(* Rows of a state that the query joins                                    *)
Overlapping(s, lower, upper) ==
    {r \in Rows(inEffect[s]) : /\ r.to # None => LookingStart(lower) <= r.to
                               /\ upper # None => r.from <= upper}

PresentOnBegin(s, lower, upper) ==
    {r \in Overlapping(s, lower, upper) : r.from <= LookingStart(lower)}

(* Variants with a mistake in them: a state ends only if it was not on at  *)
(* the lower limit ...                                                     *)
EndsOfNew(s, lower, upper) ==
    {r.to : r \in {q \in Overlapping(s, lower, upper) \ PresentOnBegin(s, lower, upper) :
                      q.to # None /\ (upper # None => q.to <= upper)}}

(* The keys of state_changes                                               *)
Begins(s, lower, upper) ==
    {r.from : r \in Overlapping(s, lower, upper) \ PresentOnBegin(s, lower, upper)}

Ends(s, lower, upper) ==
    {r.to : r \in {q \in Overlapping(s, lower, upper) :
                      q.to # None /\ (upper # None => q.to <= upper)}}

StateChanges(states, lower, upper) ==
    UNION {Begins(s, lower, upper) \cup Ends(s, lower, upper) : s \in states}

(* The record before the changes: that on begin, or one with no states if  *)
(* the first change is later than the lower limit, or none at all          *)
FirstRecord(states, lower, upper) ==
    LET onBegin == {s \in states : PresentOnBegin(s, lower, upper) # {}}
        froms == {r.from : r \in UNION {PresentOnBegin(s, lower, upper) : s \in states}}
        later == \A t \in StateChanges(states, lower, upper) : LookingStart(lower) < t
    IN CASE onBegin # {} -> <<[from |-> Max(froms), states |-> onBegin]>>
         [] onBegin = {} /\ later -> <<[from |-> LookingStart(lower), states |-> {}]>>
         [] OTHER -> <<>>

(* At each change states begin, then states end.                           *)
AddRecord(timeline, t, states, lower, upper) ==
    LET before == IF timeline = <<>> THEN {} ELSE timeline[Len(timeline)].states
        begin == {s \in states : t \in Begins(s, lower, upper)}
        end == {s \in states : t \in Ends(s, lower, upper)}
    IN Append(timeline, [from |-> t, states |-> (before \cup begin) \ end])

(* The changes are visited in order: upTo[n] has those before n.  The      *)
(* timeline ends at the upper limit.                                       *)
StateHistory(states, lower, upper) ==
    LET changes == StateChanges(states, lower, upper)
        upTo[n \in 0..(MaxTime + 1)] ==
            IF n = 0 THEN FirstRecord(states, lower, upper)
            ELSE IF n - 1 \in changes
                 THEN AddRecord(upTo[n - 1], n - 1, states, lower, upper) ELSE upTo[n - 1]
    IN upTo[MaxTime + 1]

GetContactStateHistory(lower, upper) == StateHistory(States \cap ContactStates, lower, upper)
GetNssetStateHistory(lower, upper)   == StateHistory(States \cap NssetStates, lower, upper)
GetKeysetStateHistory(lower, upper)  == StateHistory(States \cap KeysetStates, lower, upper)
GetDomainStateHistory(lower, upper)  == StateHistory(States \cap DomainStates, lower, upper)

GetStateHistory(type, lower, upper) ==
    CASE type = "contact" -> GetContactStateHistory(lower, upper)
      [] type = "nsset" -> GetNssetStateHistory(lower, upper)
      [] type = "keyset" -> GetKeysetStateHistory(lower, upper)
      [] type = "domain" -> GetDomainStateHistory(lower, upper)

(* GetObjectStatesByHistoryId of a version: its states when it began, and  *)
(* before it ended or, if it has not, before now                           *)
StatesAtBegin(version) == GetObjectStates(version.from)

StatesAtEnd(version, t) ==
    LET end == IF version.to = None THEN t ELSE version.to
    IN {s \in States : \E r \in Rows(inEffect[s]) :
            r.from < end /\ (r.to = None \/ end <= r.to)}

(* A record holds until the next one begins.                               *)
ReadAt(timeline, t) == timeline[Max({i \in DOMAIN timeline : timeline[i].from <= t})].states

-----------------------------------------------------------------------------
(* No row of the state is empty or reaches the next one.                   *)
Apart(s) ==
    \A i \in DOMAIN inEffect[s] : inEffect[s][i].to # None =>
        /\ inEffect[s][i].from < inEffect[s][i].to
        /\ \A j \in DOMAIN inEffect[s] : i < j => inEffect[s][i].to < inEffect[s][j].from

(* The types of which an object in these states may be                     *)
TypesOfObject ==
    {type \in {"contact", "nsset", "keyset", "domain"} :
        States \subseteq CASE type = "contact" -> ContactStates [] type = "nsset" -> NssetStates
                           [] type = "keyset" -> KeysetStates   [] type = "domain" -> DomainStates}

(* A timeline, read record by record, shows at each instant between its    *)
(* limits the states that were in effect then, also those that began       *)
(* before the lower limit or ended on a limit, and at the present those    *)
(* that the other queries report; and so do the states at both ends of a   *)
(* version that was valid between the limits.  Rows of a state must be     *)
(* apart: of two that meet (a transaction that began earlier wrote the     *)
(* later one), the timeline shows the end and not the beginning.  (Asked   *)
(* while no transaction runs, as nothing is committed until it ends.)      *)
StateHistoryTellsStates ==
    LET apart == {s \in States : Apart(s)} IN
    (\A p \in Process : stage[p] = "idle") =>
    \A type \in TypesOfObject, lower \in {None} \cup 1..now, upper \in {None} \cup 0..now :
        LookingStart(lower) <= (IF upper = None THEN now ELSE upper) =>
            LET timeline == GetStateHistory(type, lower, upper)
                version == [from |-> LookingStart(lower), to |-> upper]
                end == IF upper = None THEN now ELSE upper
            IN /\ \A t \in LookingStart(lower)..end :
                     /\ timeline # <<>> /\ timeline[1].from <= t
                     /\ ReadAt(timeline, t) \cap apart = GetObjectStates(t) \cap apart
                     /\ t = now => GetObjectStates(t) = GetState(type)
               /\ LookingStart(lower) < end =>
                     /\ ReadAt(timeline, version.from) \cap apart = StatesAtBegin(version) \cap apart
                     /\ ReadAt(timeline, end - 1) \cap apart = StatesAtEnd(version, now) \cap apart
=============================================================================
