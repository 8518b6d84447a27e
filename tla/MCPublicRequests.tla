--------------------------- MODULE MCPublicRequests ---------------------------
(***************************************************************************)
(* Instances of PublicRequests for TLC.                                    *)
(***************************************************************************)
EXTENDS PublicRequests, TLC

CONSTANTS identify, validate, p1, p2

TwoTypes == {identify, validate}

(* A type cancels itself on creation; one cancels the other, too.          *)
MCCancelOnCreate == (identify :> {identify, validate}) @@ (validate :> {validate})

(* An answer to one type closes the other; closing identify closes itself. *)
MCCancelOnUpdate ==
    [change \in TwoTypes \X Status \X Status |->
        CASE change[1] = validate /\ change[3] = "resolved" -> {identify}
          [] change[1] = identify /\ change[3] = "invalidated" -> {identify, validate}
          [] OTHER -> {}]

Ask(kind, type, id, status) == [kind |-> kind, type |-> type, id |-> id, status |-> status]

StatusCalls ==
    {Ask("create", type, 0, "unset") : type \in TwoTypes}
    \cup {Ask("one", identify, 1, "invalidated")}
    \cup {Ask("one", validate, 2, status) : status \in {"resolved", "unset"}}
    \cup {Ask("all", identify, 0, "invalidated"), Ask("all", validate, 0, "resolved")}

(* Only a column other than the status is updated, for all requests.       *)
UnsetCalls == {Ask("create", identify, 0, "unset"), Ask("all", identify, 0, "unset")}
=============================================================================
