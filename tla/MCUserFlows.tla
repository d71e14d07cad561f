---------------------------- MODULE MCUserFlows ----------------------------
(***************************************************************************)
(* Small instances, for TLC, of two flows that a user drives and that      *)
(* share no state: the device authorization grant and the user's avatar.   *)
(* A behaviour follows one of them; focus says which.                      *)
(***************************************************************************)
EXTENDS DeviceFlow, Avatars, TLC

VARIABLE focus

flowVars == <<vars, avatarVars, focus>>

FlowsInit ==
    /\ Init /\ AvatarsInit
    /\ focus \in {"device", "avatar"}
    /\ focus = "device" => ingest.pc = "done"

FlowsNext ==
    /\ \/ focus = "device" /\ Next /\ UNCHANGED avatarVars
       \/ focus = "avatar" /\ AvatarsNext /\ UNCHANGED vars
    /\ UNCHANGED focus

FlowsSpec == FlowsInit /\ [][FlowsNext]_flowVars

-----------------------------------------------------------------------------
\* One upload session beside the ingest; sessions and ids share a bound.
Within ==
    /\ focus = "avatar" =>
          /\ ingest.pc # "done" => Cardinality(issued) <= 1
          /\ Cardinality(issued) + lastId <= 4
    /\ (\E c \in Codes : log[c].withdrawn # {}) =>
          Cardinality({q \in Requests : ~At(q, "idle")}) <= 2

\* The avatar's calls are two of the users, its keys the calls of the grant.
Symmetry == Permutations(Codes) \union Permutations(UserCodes) \union Permutations(Users)
                \union Permutations(Clients) \union Permutations(Requests)

-----------------------------------------------------------------------------
(***************************************************************************)
(* The records and calls of the device grant and the rows, objects and     *)
(* calls of the avatar are well-formed.                                    *)
(***************************************************************************)
TypesOK == TypeOK /\ AvatarsTypeOK

=============================================================================
