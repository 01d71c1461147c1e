-------------------------- MODULE PermittedSending --------------------------
(***************************************************************************)
(* What the publication ledger promises about what goes out, whatever is   *)
(* retried, recovered, paused or swept: a call carries a version that      *)
(* somebody vouched for before it was made, never one older than the       *)
(* version its command was made for, and it uses up a permit of that       *)
(* command.  A command is born with one permit; only a person gives it     *)
(* another.                                                                *)
(*                                                                         *)
(* Permits belong to commands.  Version v can go out under each command of *)
(* 1..v: as often, at most, as these commands have permits together.       *)
(***************************************************************************)
EXTENDS Naturals

CONSTANT Versions   \* numbered; a command has the number of its version

VARIABLES
    vouched,   \* versions that may be sent
    permits,   \* permits[c]: calls the command c may have made
    calls,     \* calls[c]: calls of c that may have gone out
    sentBy     \* sentBy[c]: the versions they carried

vars == <<vouched, permits, calls, sentBy>>

Init ==
    /\ vouched = {}
    /\ permits = [c \in Versions |-> 1]
    /\ calls = [c \in Versions |-> 0]
    /\ sentBy = [c \in Versions |-> {}]

Vouch(v) ==
    /\ vouched' = vouched \cup {v}
    /\ UNCHANGED <<permits, calls, sentBy>>

Permit(c) ==
    /\ permits' = [permits EXCEPT ![c] = @ + 1]
    /\ UNCHANGED <<vouched, calls, sentBy>>

Send(c, v) ==
    /\ v \in vouched /\ c <= v
    /\ calls[c] < permits[c]
    /\ calls' = [calls EXCEPT ![c] = @ + 1]
    /\ sentBy' = [sentBy EXCEPT ![c] = @ \cup {v}]
    /\ UNCHANGED <<vouched, permits>>

Next ==
    \/ \E v \in Versions : Vouch(v)
    \/ \E c \in Versions : Permit(c)
    \/ \E c, v \in Versions : Send(c, v)

Spec == Init /\ [][Next]_vars
=============================================================================
