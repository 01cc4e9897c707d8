-------------------------- MODULE PairingRegistry --------------------------
(***************************************************************************)
(* What pairing administration promises, whatever its handlers do in       *)
(* between: who has access to the accessory, and who changes the pairings. *)
(* PairingServer implements it.                                            *)
(*                                                                         *)
(* A connection has a role: none, "setup" for the one connection admitted  *)
(* to pair-setup, or "session" for one that has verified itself as a       *)
(* paired controller.  The permission of a session is the one of a pairing *)
(* that was there when the controller claimed it; it is not taken away     *)
(* when the pairing is (that is why a claim is a step of its own).         *)
(***************************************************************************)
CONSTANTS
    Addr,        \* connections
    Controller   \* those that may be paired

VARIABLES
    pairing,  \* of each controller: "none", "torn" (unreadable) or a permission
    role,     \* of each connection
    claim     \* the pairing that a connection has proved to be the owner of

vars == <<pairing, role, claim>>

Permission == {"user", "admin"}

Role(kind, c, p) == [kind |-> kind, who |-> c, perm |-> p]

None == Role("none", "nobody", "user")

IsAdmin(a) == role[a].kind = "session" /\ role[a].perm = "admin"

-----------------------------------------------------------------------------

\* One connection at a time is admitted to pair-setup.
Admit(a) ==
    /\ \A b \in Addr \ {a} : role[b].kind # "setup"
    /\ role' = [role EXCEPT ![a] = Role("setup", "nobody", "user")]
    /\ UNCHANGED <<pairing, claim>>

Claim(a, c) ==
    /\ pairing[c] \in Permission
    /\ claim' = [claim EXCEPT ![a] = Role("session", c, pairing[c])]
    /\ UNCHANGED <<pairing, role>>

Enter(a) ==
    /\ claim[a] # None
    /\ role' = [role EXCEPT ![a] = claim[a]]
    /\ claim' = [claim EXCEPT ![a] = None]
    /\ UNCHANGED pairing

Leave(a) ==
    /\ role' = [role EXCEPT ![a] = None]
    /\ UNCHANGED <<pairing, claim>>

\* Only an admin adds or changes a pairing.  A file is empty for a moment, and
\* for longer if a write fails.
Write(a, c, p) ==
    /\ IsAdmin(a)
    /\ pairing' = [pairing EXCEPT ![c] = p]
    /\ UNCHANGED <<role, claim>>

\* The connection that pair-setup has admitted saves the pairing of an admin;
\* this may be the last it does in pair-setup.
Pair(a, c, p) ==
    /\ role[a].kind = "setup"
    /\ p # "user"
    /\ pairing' = [pairing EXCEPT ![c] = p]
    /\ role' \in {role, [role EXCEPT ![a] = None]}
    /\ UNCHANGED claim

Remove(a, c) ==
    /\ IsAdmin(a)
    /\ pairing' = [pairing EXCEPT ![c] = "none"]
    /\ UNCHANGED <<role, claim>>

\* The pairings are all that survives a restart.
Restart ==
    /\ role' = [a \in Addr |-> None]
    /\ claim' = [a \in Addr |-> None]
    /\ UNCHANGED pairing

-----------------------------------------------------------------------------

Init ==
    /\ pairing \in [Controller -> Permission \cup {"none"}]
    /\ role = [a \in Addr |-> None]
    /\ claim = [a \in Addr |-> None]

Next ==
    \/ \E a \in Addr : Admit(a) \/ Enter(a) \/ Leave(a)
    \/ \E a \in Addr, c \in Controller : Claim(a, c) \/ Remove(a, c)
    \/ \E a \in Addr, c \in Controller, p \in Permission \cup {"torn"} :
          Write(a, c, p) \/ Pair(a, c, p)
    \/ Restart

Spec == Init /\ [][Next]_vars

=============================================================================
