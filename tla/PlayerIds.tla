----------------------------- MODULE PlayerIds -----------------------------
(***************************************************************************)
(* What the server promises about player ids, and no more: they are issued *)
(* in increasing order, each names one connection from its issue to its    *)
(* end, and none is issued twice ("Never reuses one", RoleAllocator).      *)
(***************************************************************************)
EXTENDS Integers

CONSTANTS Connections, MaximumRole

VARIABLES
  issued,    \* the ids issued so far are 1 .. issued
  holder     \* the connection each present id names

Init == issued = 0 /\ holder = << >>

\* A connection that holds no id is given the next one.
Issue(c) ==
  /\ issued < MaximumRole
  /\ \A r \in DOMAIN holder : holder[r] # c
  /\ issued' = issued + 1
  /\ holder' = [r \in DOMAIN holder \cup {issued + 1} |->
                  IF r = issued + 1 THEN c ELSE holder[r]]

\* Any ids may end, for good.
End ==
  /\ \E gone \in SUBSET DOMAIN holder :
       holder' = [r \in DOMAIN holder \ gone |-> holder[r]]
  /\ issued' = issued

Next == (\E c \in Connections : Issue(c)) \/ End

Spec == Init /\ [][Next]_<<issued, holder>>
=============================================================================
