------------------------------ MODULE Accounts ------------------------------
(***************************************************************************)
(* What src/web promises to the owner of an address, without ids, rows,    *)
(* requests or transactions: an account is made at once and only where     *)
(* there is none, a browser enters it only after giving its password, and  *)
(* its password is changed only from within.  Whatever is made on the      *)
(* website has a password the policy accepts.                              *)
(***************************************************************************)
CONSTANTS Browsers, Addresses, Secrets, Acceptable, Nobody

VARIABLES
  password,  \* of the account of each address, Nobody where there is none
  proof,     \* the account a browser has made or opened and not yet entered
  visitor    \* the account a browser is logged in to

vars == <<password, proof, visitor>>

Init ==
  /\ password = [a \in Addresses |-> Nobody]
  /\ proof = [b \in Browsers |-> Nobody]
  /\ visitor = [b \in Browsers |-> Nobody]

(* A browser makes an account, which proves that it knows the password.    *)
Create(b, a, p) ==
  /\ password[a] = Nobody
  /\ p \in Acceptable
  /\ password' = [password EXCEPT ![a] = p]
  /\ proof' = [proof EXCEPT ![b] = a]
  /\ UNCHANGED visitor

(* The administrator makes one, with any password.                         *)
Appoint(a, p) ==
  /\ password[a] = Nobody
  /\ p \in Secrets
  /\ password' = [password EXCEPT ![a] = p]
  /\ UNCHANGED <<proof, visitor>>

Prove(b, a, p) ==
  /\ p \in Secrets /\ password[a] = p
  /\ proof' = [proof EXCEPT ![b] = a]
  /\ UNCHANGED <<password, visitor>>

(* A proof is good for one entry, or none if it gets lost.                 *)
Enter(b) ==
  /\ proof[b] # Nobody
  /\ visitor' = [visitor EXCEPT ![b] = proof[b]]
  /\ proof' = [proof EXCEPT ![b] = Nobody]
  /\ UNCHANGED password

Forget(B) ==
  /\ proof' = [b \in Browsers |-> IF b \in B THEN Nobody ELSE proof[b]]
  /\ UNCHANGED <<password, visitor>>

Leave(b) ==
  /\ visitor' = [visitor EXCEPT ![b] = Nobody]
  /\ UNCHANGED <<password, proof>>

Change(b, old, new) ==
  /\ visitor[b] # Nobody
  /\ old \in Secrets /\ password[visitor[b]] = old
  /\ new \in Acceptable
  /\ password' = [password EXCEPT ![visitor[b]] = new]
  /\ UNCHANGED <<proof, visitor>>

Next ==
  \/ \E b \in Browsers, a \in Addresses, p \in Secrets : Create(b, a, p) \/ Prove(b, a, p)
  \/ \E a \in Addresses, p \in Secrets : Appoint(a, p)
  \/ \E b \in Browsers : Enter(b) \/ Leave(b)
  \/ \E B \in SUBSET Browsers : Forget(B)
  \/ \E b \in Browsers, old \in Secrets, new \in Secrets : Change(b, old, new)

Spec == Init /\ [][Next]_vars
=============================================================================
