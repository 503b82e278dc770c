----------------------------- MODULE MCAccounts -----------------------------
(***************************************************************************)
(* Small instances of Accounts: three accounts, of which u1 and u3 have    *)
(* one mailbox, and claims that meet in an install, a name, an inviter or  *)
(* each other.                                                             *)
(***************************************************************************)
EXTENDS Accounts

CONSTANTS u1, u2, u3

MCUsers == {u1, u2, u3}
MCEmailOf == [u \in Users |-> IF u = u2 THEN "e2" ELSE "e1"]

ClaimBy(u, i, n, inviter) == [user |-> u, install |-> i, name |-> n, inviter |-> inviter]

\* Two invitees of one inviter, by two installs or by one; and the inviter's own
\* claim, which has the email of the first and names it as inviter.
MCClaims == {ClaimBy(u1, "i1", "a", u3), ClaimBy(u2, "i2", "b", u3), ClaimBy(u2, "i1", "a", None),
             ClaimBy(u3, "i3", "b", u1)}
NoClaims == {}
MCRenames == {[user |-> u2, name |-> "a"]}
ManagedRenames == {[user |-> u3, name |-> "a"]}

OtherKey(u) == <<"admin_adjustment", u>>
MCGrants == {[user |-> u3, key |-> OtherKey(u3), amount |-> 2]}

MCKeys == { SignupKey(u) : u \in Users } \union { InviteeKey(u) : u \in Users }
            \union { InviterKey(u) : u \in Users } \union { DeletedKey(u) : u \in Users }
            \union { OtherKey(u) : u \in Users }
MCAmounts == (-9..9) \ {0}
=============================================================================
