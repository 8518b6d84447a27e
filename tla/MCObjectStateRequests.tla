------------------------ MODULE MCObjectStateRequests ------------------------
(***************************************************************************)
(* Instances of ObjectStateRequests for TLC.                               *)
(***************************************************************************)
EXTENDS ObjectStateHistory, TLC

CONSTANTS noTransfer, noUpdate, p1, p2

Ask(kind, states, from, to) == [kind |-> kind, states |-> states, from |-> from, to |-> to]

(* One state, asked for in intervals of every shape                        *)
OneState == {serverBlocked}

IntervalCalls ==
    {Ask("create", OneState, from, to) : from \in {None, 0, 1}, to \in {None, 2}}
    \cup {Ask("cancel", OneState, None, None), Ask("clear", {}, None, None)}

(* Administrative blocks, now and later, of an object that may have had    *)
(* another server state before                                             *)
BlockStates == {serverBlocked, noTransfer, noUpdate}

BlockCalls ==
    {Ask("create", {noTransfer}, None, None),
     Ask("block", {noUpdate}, None, None), Ask("block", {noTransfer}, 2, 3),
     Ask("unblock", {}, None, None), Ask("restore", {}, None, None),
     Ask("perform", {}, None, None)}

Processes == Permutations({p1, p2})
=============================================================================
