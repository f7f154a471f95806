--------------------------- MODULE GroupDirectory ---------------------------
(***************************************************************************)
(* What the server promises about groups, without saying how: each group   *)
(* gets a multicast address nobody had before and keeps it, and only       *)
(* joining, leaving and logging out change who is in it.  An address may   *)
(* be used up without a group to show for it.                              *)
(***************************************************************************)
CONSTANTS UserName, GroupName, Address, NoAddress

VARIABLES
  address,   \* the address of each group, NoAddress if there is no such group
  members,   \* the users in each group
  spent      \* the addresses that will not be given to a group again

directoryVars == <<address, members, spent>>

DirectoryInit ==
  /\ address = [g \in GroupName |-> NoAddress]
  /\ members = [g \in GroupName |-> {}]
  /\ spent = {}

Create(g, a) ==
  /\ address[g] = NoAddress
  /\ a \notin spent
  /\ address' = [address EXCEPT ![g] = a]
  /\ spent' = spent \cup {a}
  /\ UNCHANGED members

Waste(a) ==
  /\ a \notin spent
  /\ spent' = spent \cup {a}
  /\ UNCHANGED <<address, members>>

Join(u, g) ==
  /\ address[g] # NoAddress
  /\ members' = [members EXCEPT ![g] = @ \cup {u}]
  /\ UNCHANGED <<address, spent>>

Leave(u, g) ==
  /\ members' = [members EXCEPT ![g] = @ \ {u}]
  /\ UNCHANGED <<address, spent>>

LeaveAll(u) ==
  /\ members' = [g \in GroupName |-> members[g] \ {u}]
  /\ UNCHANGED <<address, spent>>

DirectoryNext ==
  \/ \E g \in GroupName, a \in Address : Create(g, a)
  \/ \E a \in Address : Waste(a)
  \/ \E u \in UserName, g \in GroupName : Join(u, g) \/ Leave(u, g)
  \/ \E u \in UserName : LeaveAll(u)

DirectorySpec == DirectoryInit /\ [][DirectoryNext]_directoryVars

=============================================================================
