------------------------- MODULE MembersRefinement --------------------------
(***************************************************************************)
(* Members implements Accounts: to the owner of an address a registration, *)
(* a login and a change of the password are one step each.                 *)
(***************************************************************************)
EXTENDS MembersProofs

-----------------------------------------------------------------------------
(* What a request carries.                                                 *)

(* Rows have addresses and passwords, and so has what is to become a row:  *)
(* of a browser, a password the policy accepts.                            *)
Filled ==
  /\ \A i \in members : email[i] \in Emails /\ hash[i] \in Passwords
  /\ \A a \in Actors : request[a].at \in {"again", "insert", "commit"} =>
       /\ request[a].email \in Emails
       /\ request[a].hash \in Passwords
       /\ a \in Clients => request[a].hash \in Good

(* A step that changes no row, and no request but to end it or to bring it *)
(* forward, keeps it.                                                      *)
LEMMA FilledKept ==
  ASSUME Filled, UNCHANGED <<members, email, hash>>,
         \A a \in Actors :
           \/ request'[a].at \notin {"again", "insert", "commit"}
           \/ /\ request[a].at \in {"again", "insert", "commit"}
              /\ request'[a].email = request[a].email /\ request'[a].hash = request[a].hash
  PROVE  Filled'
BY DEF Filled

(* Beginning a request leaves those of the others alone.                   *)
LEMMA Beginning ==
  ASSUME TypeOK, NEW a \in Actors, NEW at, NEW e, NEW p, NEW i, Begin(a, at, e, p, i)
  PROVE  /\ request[a] = Idle
         /\ request'[a] = [at |-> at, email |-> e, hash |-> p, id |-> i]
         /\ \A b \in Actors \ {a} : request'[b] = request[b]
         /\ UNCHANGED <<members, email, hash, session>>
BY DEF Begin, TypeOK, db

(* An account is made by a request that is filled in.                      *)
LEMMA FilledBegun ==
  ASSUME TypeOK, Filled, NEW a \in Actors, NEW e \in Emails, NEW p \in Passwords,
         a \in Clients => p \in Good, Begin(a, "again", e, p, 0)
  PROVE  Filled'
<1>1. /\ request'[a] = [at |-> "again", email |-> e, hash |-> p, id |-> 0]
      /\ \A b \in Actors \ {a} : request'[b] = request[b]
      /\ UNCHANGED <<members, email, hash>>
  BY Beginning
<1>2. request'[a].email = e /\ request'[a].hash = p
  BY <1>1
<1> QED BY <1>1, <1>2 DEF Filled

(* The steps of a creation keep the hash they carry up to the commit.      *)
LEMMA HashCarried ==
  ASSUME TypeOK, NEW a \in Actors
  PROVE  /\ Goto(a, "insert") => request'[a].hash = request[a].hash
         /\ Insert(a) /\ ~Refuse(a) => request'[a].hash = request[a].hash
BY DEF TypeOK, Requests, Goto, Insert

(* Every step keeps rows and requests filled in.                           *)
LEMMA NextFilled == TypeOK /\ StagedIds /\ Filled /\ [Next]_vars => Filled'
<1> SUFFICES ASSUME TypeOK, StagedIds, Filled, [Next]_vars PROVE Filled'
  OBVIOUS
<1>0. /\ Idle.at = "idle" /\ Seed \notin Clients /\ Seed \in Actors /\ Clients \subseteq Actors
      /\ \A s \in Spellings : Norm[s] \in Emails
      /\ Good \subseteq Passwords
  BY ConstantsAssumption DEF Idle, Actors
<1>1. ASSUME NEW a \in Actors, LookAgain(a) PROVE Filled'
  <2>1. UNCHANGED <<members, email, hash>> /\ request[a].at = "again"
    BY <1>1 DEF LookAgain, db
  <2>2. CASE Refuse(a)
    BY <1>0, <2>1, <2>2, CreationEffects, FilledKept
  <2>3. CASE Goto(a, "insert")
    BY <2>1, <2>3, CreationEffects, HashCarried, FilledKept
  <2> QED BY <1>1, <2>2, <2>3 DEF LookAgain
<1>2. ASSUME NEW a \in Actors, Insert(a) PROVE Filled'
  <2>1. UNCHANGED <<members, email, hash>> /\ request[a].at = "insert"
    BY <1>2 DEF Insert
  <2>2. CASE Refuse(a)
    BY <1>0, <2>1, <2>2, CreationEffects, FilledKept
  <2>3. CASE ~Refuse(a)
    BY <1>2, <2>1, <2>3, CreationEffects, HashCarried, FilledKept
  <2> QED BY <2>2, <2>3
<1>3. ASSUME NEW a \in Actors, Commit(a) PROVE Filled'
  <2> DEFINE i == request[a].id
  <2>1. /\ members' = members \cup {i} /\ request[a].at = "commit"
        /\ email' = [email EXCEPT ![i] = request[a].email]
        /\ hash' = [hash EXCEPT ![i] = request[a].hash]
    BY <1>3 DEF Commit
  <2>2. i \in Ids /\ i \notin members
    BY <2>1, StagedRow
  <2>3. /\ email'[i] = request[a].email /\ hash'[i] = request[a].hash
        /\ \A j \in members : email'[j] = email[j] /\ hash'[j] = hash[j]
    BY <2>1, <2>2 DEF TypeOK
  <2>4. /\ request'[a].at \notin {"again", "insert", "commit"}
        /\ \A b \in Actors \ {a} : request'[b] = request[b]
    BY <1>3, CreationEffects
  <2> QED BY <2>1, <2>3, <2>4 DEF Filled
<1>4. CASE \E s \in Spellings, p \in Passwords : RunSeed(s, p)
  <2>1. PICK s \in Spellings, p \in Passwords : RunSeed(s, p)
    BY <1>4
  <2>2. CASE Begin(Seed, "again", Norm[s], p, 0)
    BY <1>0, <2>2, FilledBegun
  <2>3. ASSUME NEW i \in members, Begin(Seed, "update", email[i], None, i) PROVE Filled'
    <3>1. /\ request'[Seed] = [at |-> "update", email |-> email[i], hash |-> None, id |-> i]
          /\ \A b \in Actors \ {Seed} : request'[b] = request[b]
          /\ UNCHANGED <<members, email, hash>>
      BY <1>0, <2>3, Beginning
    <3>2. request'[Seed].at = "update"
      BY <3>1
    <3> QED BY <3>1, <3>2, FilledKept
  <2> QED BY <2>1, <2>2, <2>3 DEF RunSeed
<1>5. CASE SeedUpdate \/ SeedDies
  BY <1>0, <1>5, FilledKept DEF SeedUpdate, SeedDies, Done, TypeOK, db
<1>6. CASE ServerDies
  BY <1>0, <1>6, FilledKept DEF ServerDies, db
<1>7. CASE UNCHANGED vars
  BY <1>7, FilledKept DEF vars, db
<1>8. ASSUME NEW c \in Clients, Visit(c) PROVE Filled'
  <2>1. ASSUME NEW s \in Spellings, NEW p \in Passwords, Register(c, s, p) PROVE Filled'
    BY <1>0, <2>1, FilledBegun DEF Register
  <2>2. ASSUME NEW s \in Spellings, NEW p \in Passwords, Login(c, s, p) PROVE Filled'
    BY <1>0, <2>2, FilledKept DEF Login, TypeOK, db
  <2>3. CASE Answer(c)
    BY <1>0, <2>3, FilledKept DEF Answer, Done, TypeOK, db
  <2>4. CASE AnswerLost(c)
    BY <1>0, <2>4, FilledKept DEF AnswerLost, Done, TypeOK, db
  <2>5. CASE Logout(c)
    BY <2>5, FilledKept DEF Logout, db
  <2>6. CASE SubmitForm(c)
    <3>1. ASSUME NEW i \in Ids, NEW current \in Passwords, NEW new \in Passwords,
                 ChangePassword(c, i, current, new)
          PROVE Filled'
      <4>1. /\ UNCHANGED <<members, email, request>> /\ hash' = [hash EXCEPT ![i] = new]
        BY <3>1 DEF ChangePassword
      <4>2. \A j \in members : hash'[j] \in {hash[j], new}
        BY <4>1 DEF TypeOK
      <4> QED BY <4>1, <4>2 DEF Filled
    <3>2. UNCHANGED <<members, email, hash, request>> => Filled'
      BY FilledKept
    <3> QED BY <2>6, <3>1, <3>2 DEF SubmitForm, OnboardScalars, OnboardRegions, SaveProfile
  <2> QED BY <1>8, <2>1, <2>2, <2>3, <2>4, <2>5, <2>6 DEF Visit
<1> QED BY <1>1, <1>2, <1>3, <1>4, <1>5, <1>6, <1>7, <1>8 DEF Next, Account

(* It holds in every reachable state, with the invariant of the accounts.  *)
LEMMA AlwaysFilled == Spec => [](AccountInv /\ Filled)
<1>1. Init => Filled
  BY DEF Init, Filled, Idle
<1>2. AccountInv => TypeOK /\ StagedIds
  BY DEF AccountInv
<1> QED BY <1>1, <1>2, NextFilled, AccountsCorrect, PTL DEF Spec

-----------------------------------------------------------------------------
(* What the owner of an address sees.                                      *)

Password == [e \in Emails |-> IF Taken(e) THEN hash[AccountOf(e)] ELSE None]
Proof == [c \in Clients |-> IF request[c].at = "answer" THEN request[c].email ELSE None]
Visitor == [c \in Clients |-> IF session[c] = 0 THEN None ELSE email[session[c]]]

(* An account is found by its address.                                     *)
LEMMA AccountFound ==
  ASSUME OneAccountPerAddress, NEW i \in members
  PROVE  Taken(email[i]) /\ AccountOf(email[i]) = i
<1>1. AccountOf(email[i]) \in members /\ email[AccountOf(email[i])] = email[i]
  BY DEF AccountOf
<1> QED BY <1>1 DEF OneAccountPerAddress, Taken

(* The passwords are those of the rows.                                    *)
LEMMA SamePasswords == UNCHANGED <<members, email, hash>> => Password' = Password
BY DEF Password, Taken, AccountOf

(* The visitors change with cookies only, for addresses of rows never do.  *)
LEMMA SameVisitors == UNCHANGED <<email, session>> => Visitor' = Visitor
BY DEF Visitor

(* What is proved changes with the answers only.                           *)
LEMMA SameProof ==
  (\A c \in Clients : \/ request'[c] = request[c]
                      \/ request'[c].at # "answer" /\ request[c].at # "answer")
    => Proof' = Proof
BY DEF Proof

(* A step after which nobody sees anything new.                            *)
Unseen == Password' = Password /\ Proof' = Proof /\ Visitor' = Visitor

(* Making an account: a row of a free address appears at the commit.       *)
LEMMA CommitSeen ==
  ASSUME AccountInv, Filled, NEW a \in Actors, Commit(a)
  PROVE  LET e == request[a].email
             p == request[a].hash
         IN  /\ e \in Emails /\ p \in Passwords /\ (a \in Clients => p \in Good)
             /\ Password[e] = None
             /\ Password' = [Password EXCEPT ![e] = p]
             /\ Proof' = IF a \in Clients THEN [Proof EXCEPT ![a] = e] ELSE Proof
             /\ Visitor' = Visitor
<1> DEFINE e == request[a].email
           p == request[a].hash
           i == request[a].id
<1>1. TypeOK /\ StagedIds /\ OneAccountPerAddress /\ StagedAddresses /\ CookieLeadsHome
  BY DEF AccountInv, UniqueInv, CookieInv
<1>2. OneAccountPerAddress'
  BY <1>1, NextUnique DEF AccountInv, UniqueInv, Next, Account
<1>3. /\ members' = members \cup {i} /\ request[a].at = "commit"
      /\ email' = [email EXCEPT ![i] = e]
      /\ hash' = [hash EXCEPT ![i] = p]
      /\ UNCHANGED session
      /\ request' = [request EXCEPT ![a].at = IF a = Seed THEN "update" ELSE "answer",
                                    ![a].hash = None]
  BY DEF Commit
<1>4. i \in Ids /\ i \notin members
  BY <1>1, <1>3, StagedRow
<1>5. /\ email'[i] = e /\ hash'[i] = p
      /\ \A j \in members : email'[j] = email[j] /\ hash'[j] = hash[j]
  BY <1>1, <1>3, <1>4 DEF TypeOK
<1>6. e \in Emails /\ p \in Passwords /\ (a \in Clients => p \in Good) /\ ~Taken(e)
  BY <1>1, <1>3 DEF Filled, StagedAddresses
<1>7. Password[e] = None
  BY <1>6 DEF Password
<1>8. ASSUME NEW x \in Emails PROVE Password'[x] = [Password EXCEPT ![e] = p][x]
  <2>1. Password'[x] = IF Taken(x)' THEN hash'[AccountOf(x)'] ELSE None
    BY DEF Password
  <2>2. Password[x] = IF Taken(x) THEN hash[AccountOf(x)] ELSE None
    BY DEF Password
  <2>3. CASE x = e
    <3>1. Taken(x)' /\ AccountOf(x)' = i
      <4>1. i \in members' /\ email'[i] = x
        BY <1>3, <1>5, <2>3
      <4>2. AccountOf(x)' \in members' /\ email'[AccountOf(x)'] = x
        BY <4>1 DEF AccountOf
      <4>3. \A j, k \in members' : email'[j] = email'[k] => j = k
        BY <1>2 DEF OneAccountPerAddress
      <4> QED BY <4>1, <4>2, <4>3 DEF Taken
    <3>2. Password'[x] = p
      BY <1>5, <2>1, <2>3, <3>1
    <3> QED BY <1>6, <2>3, <3>2 DEF Password
  <2>4. CASE x # e /\ Taken(x)
    <3>1. PICK j \in members : email[j] = x
      BY <2>4 DEF Taken
    <3>2. AccountOf(x) = j
      BY <1>1, <3>1, AccountFound
    <3>3. j \in members' /\ email'[j] = x
      BY <1>3, <1>5, <3>1
    <3>4. Taken(x)' /\ AccountOf(x)' = j
      <4>1. AccountOf(x)' \in members' /\ email'[AccountOf(x)'] = x
        BY <3>3 DEF AccountOf
      <4> QED BY <1>2, <3>3, <4>1 DEF OneAccountPerAddress, Taken
    <3>5. Password'[x] = Password[x]
      BY <1>5, <2>1, <2>2, <2>4, <3>1, <3>2, <3>4
    <3> QED BY <1>6, <2>4, <3>5 DEF Password
  <2>5. CASE x # e /\ ~Taken(x)
    <3>1. ~Taken(x)'
      BY <1>3, <1>5, <2>5 DEF Taken
    <3>2. Password'[x] = Password[x]
      BY <2>1, <2>2, <2>5, <3>1
    <3> QED BY <1>6, <2>5, <3>2 DEF Password
  <2> QED BY <2>3, <2>4, <2>5
<1>9. Password' = [Password EXCEPT ![e] = p]
  BY <1>8 DEF Password
<1>10. Visitor' = Visitor
  <2>1. \A c \in Clients : session[c] # 0 => email'[session[c]] = email[session[c]]
    BY <1>1, <1>5 DEF CookieLeadsHome
  <2> QED BY <1>3, <2>1 DEF Visitor
<1>11. Proof' = IF a \in Clients THEN [Proof EXCEPT ![a] = e] ELSE Proof
  <2>1. /\ request'[a].at = IF a = Seed THEN "update" ELSE "answer"
        /\ request'[a].email = e
        /\ \A b \in Actors \ {a} : request'[b] = request[b]
    BY <1>1, <1>3 DEF TypeOK, Requests
  <2>2. CASE a \in Clients
    <3>1. a # Seed
      BY <2>2, ConstantsAssumption
    <3>2. \A c \in Clients : Proof'[c] = [Proof EXCEPT ![a] = e][c]
      BY <2>1, <2>2, <3>1 DEF Proof, Actors
    <3> QED BY <2>2, <3>2 DEF Proof
  <2>3. CASE a \notin Clients
    <3>1. \A c \in Clients : request'[c] = request[c]
      BY <2>1, <2>3 DEF Actors
    <3> QED BY <2>3, <3>1, SameProof
  <2> QED BY <2>2, <2>3
<1> QED BY <1>6, <1>7, <1>9, <1>10, <1>11

(* Changing a password.                                                    *)
LEMMA ChangeSeen ==
  ASSUME AccountInv, Filled, NEW c \in Clients, NEW i \in Ids,
         NEW current \in Passwords, NEW new \in Passwords, ChangePassword(c, i, current, new)
  PROVE  LET e == Visitor[c]
         IN  /\ e # None /\ Password[e] = current /\ new \in Good
             /\ Password' = [Password EXCEPT ![e] = new]
             /\ Proof' = Proof /\ Visitor' = Visitor
<1> DEFINE e == Visitor[c]
<1>1. TypeOK /\ OneAccountPerAddress
  BY DEF AccountInv, UniqueInv
<1>2. /\ i = session[c] /\ i \in members /\ hash[i] = current /\ new \in Good
      /\ hash' = [hash EXCEPT ![i] = new]
      /\ UNCHANGED <<members, email, request, session>>
  BY DEF ChangePassword, Edit
<1>3. i # 0 /\ email[i] \in Emails
  BY <1>2 DEF Ids, Filled
<1>4. e = email[i] /\ e # None /\ e \in Emails
  BY <1>2, <1>3, ConstantsAssumption DEF Visitor
<1>5. Taken(e) /\ AccountOf(e) = i
  BY <1>1, <1>2, <1>4, AccountFound
<1>6. Password[e] = current
  BY <1>2, <1>4, <1>5 DEF Password
<1>7. \A x \in Emails : Taken(x)' = Taken(x) /\ AccountOf(x)' = AccountOf(x)
  BY <1>2 DEF Taken, AccountOf
<1>8. ASSUME NEW x \in Emails PROVE Password'[x] = [Password EXCEPT ![e] = new][x]
  <2>1. /\ Password'[x] = IF Taken(x) THEN hash'[AccountOf(x)] ELSE None
        /\ Password[x] = IF Taken(x) THEN hash[AccountOf(x)] ELSE None
    BY <1>7 DEF Password
  <2>2. CASE x = e
    BY <1>1, <1>2, <1>4, <1>5, <2>1, <2>2 DEF Password, TypeOK
  <2>3. CASE x # e /\ Taken(x)
    <3>1. AccountOf(x) \in members /\ email[AccountOf(x)] = x
      BY <2>3 DEF Taken, AccountOf
    <3>2. AccountOf(x) # i /\ AccountOf(x) \in Ids
      BY <1>1, <1>4, <2>3, <3>1 DEF TypeOK
    <3>3. hash'[AccountOf(x)] = hash[AccountOf(x)]
      BY <1>1, <1>2, <3>2 DEF TypeOK
    <3> QED BY <2>1, <2>3, <3>3 DEF Password
  <2>4. CASE x # e /\ ~Taken(x)
    BY <2>1, <2>4 DEF Password
  <2> QED BY <2>2, <2>3, <2>4
<1>9. Password' = [Password EXCEPT ![e] = new]
  BY <1>8 DEF Password
<1>10. Proof' = Proof /\ Visitor' = Visitor
  BY <1>2, SameVisitors DEF Proof
<1> QED BY <1>2, <1>4, <1>6, <1>9, <1>10

-----------------------------------------------------------------------------
(* The refinement.                                                         *)

(* Steps that leave accounts, cookies and answers alone are unseen.        *)
LEMMA NothingSeen ==
  ASSUME UNCHANGED <<members, email, hash, session>>,
         \A c \in Clients : \/ request'[c] = request[c]
                            \/ request'[c].at # "answer" /\ request[c].at # "answer"
  PROVE  Unseen
BY SamePasswords, SameVisitors, SameProof DEF Unseen

(* The steps of browsers and the script, as an owner sees them.            *)
LEMMA StepSeen ==
  ASSUME AccountInv, Filled, [Next]_vars
  PROVE  \/ Unseen
         \/ \E c \in Clients, e \in Emails, p \in Passwords :
              Promise!Create(c, e, p) \/ Promise!Prove(c, e, p)
         \/ \E e \in Emails, p \in Passwords : Promise!Appoint(e, p)
         \/ \E c \in Clients : Promise!Enter(c) \/ Promise!Leave(c)
         \/ \E C \in SUBSET Clients : Promise!Forget(C)
         \/ \E c \in Clients, old \in Passwords, new \in Passwords : Promise!Change(c, old, new)
<1>0. /\ TypeOK /\ OneAccountPerAddress /\ CookieLeadsHome /\ FoundAccounts
      /\ Idle.at = "idle" /\ Seed \notin Clients /\ Clients \subseteq Actors
      /\ None \notin Emails
      /\ \A s \in Spellings : Norm[s] \in Emails
  BY ConstantsAssumption DEF AccountInv, UniqueInv, CookieInv, Idle, Actors
<1>1. ASSUME NEW a \in Actors, LookAgain(a) \/ Insert(a) PROVE Unseen
  <2>1. UNCHANGED <<members, email, hash, session>> /\ request[a].at \in {"again", "insert"}
    BY <1>1 DEF LookAgain, Insert, db
  <2>2. /\ request'[a].at # "answer"
        /\ \A b \in Actors \ {a} : request'[b] = request[b]
    BY <1>0, <1>1, CreationEffects DEF LookAgain
  <2> QED BY <1>0, <2>1, <2>2, NothingSeen
<1>2. ASSUME NEW a \in Actors, Commit(a)
      PROVE \E e \in Emails, p \in Passwords :
              \/ Promise!Appoint(e, p)
              \/ \E c \in Clients : Promise!Create(c, e, p)
  BY <1>2, CommitSeen DEF Promise!Appoint, Promise!Create, Password, Proof, Visitor
<1>3. CASE \E s \in Spellings, p \in Passwords : RunSeed(s, p)
  <2>1. PICK e, p, at, i : Begin(Seed, at, e, p, i)
    BY <1>3 DEF RunSeed
  <2>2. UNCHANGED <<members, email, hash, session>> /\ \A c \in Clients : request'[c] = request[c]
    BY <1>0, <2>1 DEF Begin, TypeOK, db
  <2> QED BY <2>2, NothingSeen
<1>4. CASE SeedUpdate \/ SeedDies
  <2>1. UNCHANGED <<members, email, hash, session>> /\ \A c \in Clients : request'[c] = request[c]
    BY <1>0, <1>4 DEF SeedUpdate, SeedDies, Done, TypeOK, db
  <2> QED BY <2>1, NothingSeen
<1>5. CASE ServerDies
  <2>1. UNCHANGED <<members, email, hash, session>> /\ \A c \in Clients : request'[c] = Idle
    BY <1>0, <1>5 DEF ServerDies, db
  <2>2. Proof' = [c \in Clients |-> IF c \in Clients THEN None ELSE Proof[c]]
    BY <1>0, <2>1 DEF Proof
  <2>3. Promise!Forget(Clients)
    BY <2>1, <2>2, SamePasswords, SameVisitors DEF Promise!Forget, Password, Proof, Visitor
  <2> QED BY <2>3
<1>6. CASE UNCHANGED vars
  BY <1>6, NothingSeen DEF vars, db
<1>7. ASSUME NEW c \in Clients, NEW s \in Spellings, NEW p \in Passwords, Register(c, s, p)
      PROVE Unseen
  <2>1. /\ request[c] = Idle
        /\ request'[c] = [at |-> "again", email |-> Norm[s], hash |-> p, id |-> 0]
        /\ \A b \in Actors \ {c} : request'[b] = request[b]
        /\ UNCHANGED <<members, email, hash, session>>
    BY <1>0, <1>7, Beginning DEF Register
  <2>2. request'[c].at # "answer" /\ request[c].at # "answer"
    BY <1>0, <2>1
  <2> QED BY <1>0, <2>1, <2>2, NothingSeen
<1>8. ASSUME NEW c \in Clients, NEW s \in Spellings, NEW p \in Passwords, Login(c, s, p)
      PROVE \E e \in Emails : Promise!Prove(c, e, p)
  <2>1. PICK i \in members :
          /\ email[i] = Norm[s] /\ hash[i] = p
          /\ request' = [request EXCEPT ![c] =
               [at |-> "answer", email |-> email[i], hash |-> None, id |-> i]]
    BY <1>8 DEF Login
  <2>2. email[i] \in Emails /\ UNCHANGED <<members, email, hash, session>>
    BY <1>0, <1>8, <2>1 DEF Login, db
  <2>3. Password[email[i]] = p
    BY <1>0, <2>1, <2>2, AccountFound DEF Password
  <2>4. Proof' = [Proof EXCEPT ![c] = email[i]]
    BY <1>0, <2>1 DEF Proof, TypeOK
  <2>5. Promise!Prove(c, email[i], p)
    BY <2>2, <2>3, <2>4, SamePasswords, SameVisitors DEF Promise!Prove, Password, Proof, Visitor
  <2> QED BY <2>2, <2>5
<1>9. ASSUME NEW c \in Clients, Answer(c) PROVE Promise!Enter(c)
  <2>1. /\ request[c].at = "answer" /\ session' = [session EXCEPT ![c] = request[c].id]
        /\ request' = [request EXCEPT ![c] = Idle]
        /\ UNCHANGED <<members, email, hash>>
    BY <1>9 DEF Answer, Done, db
  <2>2. request[c].id \in members /\ email[request[c].id] = request[c].email
    BY <1>0, <2>1 DEF FoundAccounts
  <2>3. request[c].id # 0 /\ request[c].email \in Emails
    <3>1. request[c].id \in 1..MaxForms /\ MaxForms \in Nat
      BY <1>0, <2>2, ConstantsAssumption DEF TypeOK, Ids
    <3>2. request[c].email \in Emails
      BY <2>2 DEF Filled
    <3> QED BY <3>1, <3>2
  <2>4. Proof[c] = request[c].email
    BY <2>1 DEF Proof
  <2>5. Visitor' = [Visitor EXCEPT ![c] = Proof[c]]
    BY <1>0, <2>1, <2>2, <2>3, <2>4 DEF Visitor, TypeOK
  <2>6. Proof' = [Proof EXCEPT ![c] = None]
    BY <1>0, <2>1 DEF Proof, TypeOK
  <2>7. Proof[c] # None
    BY <1>0, <2>3, <2>4
  <2> QED BY <2>1, <2>5, <2>6, <2>7, SamePasswords DEF Promise!Enter, Password, Proof, Visitor
<1>10. ASSUME NEW c \in Clients, AnswerLost(c) PROVE Promise!Forget({c})
  <2>1. /\ request' = [request EXCEPT ![c] = Idle]
        /\ UNCHANGED <<members, email, hash, session>>
    BY <1>10 DEF AnswerLost, Done, db
  <2>2. Proof' = [d \in Clients |-> IF d \in {c} THEN None ELSE Proof[d]]
    BY <1>0, <2>1 DEF Proof, TypeOK
  <2> QED BY <2>1, <2>2, SamePasswords, SameVisitors
          DEF Promise!Forget, Password, Proof, Visitor
<1>11. ASSUME NEW c \in Clients, Logout(c) PROVE Promise!Leave(c)
  <2>1. session' = [session EXCEPT ![c] = 0] /\ UNCHANGED <<members, email, hash, request>>
    BY <1>11 DEF Logout, db
  <2>2. Visitor' = [Visitor EXCEPT ![c] = None]
    BY <1>0, <2>1 DEF Visitor, TypeOK
  <2>3. Proof' = Proof
    BY <2>1, SameProof
  <2> QED BY <2>1, <2>2, <2>3, SamePasswords DEF Promise!Leave, Password, Proof, Visitor
<1>12. ASSUME NEW c \in Clients, SubmitForm(c)
       PROVE Unseen \/ \E old \in Passwords, new \in Passwords : Promise!Change(c, old, new)
  <2>1. ASSUME NEW i \in Ids, NEW current \in Passwords, NEW new \in Passwords,
               ChangePassword(c, i, current, new)
        PROVE Promise!Change(c, current, new)
    BY <2>1, ChangeSeen DEF Promise!Change, Password, Proof, Visitor
  <2>2. UNCHANGED <<members, email, hash, session, request>> => Unseen
    BY NothingSeen
  <2> QED BY <1>12, <2>1, <2>2 DEF SubmitForm, OnboardScalars, OnboardRegions, SaveProfile
<1>13. ASSUME NEW c \in Clients, Visit(c)
       PROVE \/ Unseen
             \/ \E e \in Emails, p \in Passwords : Promise!Prove(c, e, p)
             \/ Promise!Enter(c) \/ Promise!Leave(c) \/ Promise!Forget({c})
             \/ \E old \in Passwords, new \in Passwords : Promise!Change(c, old, new)
  BY <1>7, <1>8, <1>9, <1>10, <1>11, <1>12, <1>13 DEF Visit
<1>14. CASE \E c \in Clients : Visit(c)
  <2>1. \A c \in Clients : {c} \in SUBSET Clients
    OBVIOUS
  <2> QED BY <1>13, <1>14, <2>1
<1>15. CASE \E a \in Actors : Account(a)
  BY <1>1, <1>2, <1>15 DEF Account
<1> QED BY <1>3, <1>4, <1>5, <1>6, <1>14, <1>15 DEF Next

(* At first nobody has an account.                                         *)
LEMMA InitSeen == Init => Promise!Init
<1> SUFFICES ASSUME Init PROVE Promise!Init
  OBVIOUS
<1>1. Idle.at = "idle"
  BY DEF Idle
<1>2. Password = [e \in Emails |-> None]
  BY DEF Init, Password, Taken
<1>3. Proof = [c \in Clients |-> None]
  BY <1>1 DEF Init, Proof, Actors
<1>4. Visitor = [c \in Clients |-> None]
  BY DEF Init, Visitor
<1> QED BY <1>2, <1>3, <1>4 DEF Promise!Init, Password, Proof, Visitor

(* Whatever overlaps, dies or gets lost, an owner of an address sees the   *)
(* accounts of Accounts: each creation, login and change is one step, with *)
(* the guards that it has there.                                           *)
THEOREM ImplementsAccounts == Spec => KeepsAccounts
<1>1. AccountInv /\ Filled /\ [Next]_vars => [Promise!Next]_Promise!vars
  BY StepSeen DEF Unseen, Password, Proof, Visitor, Promise!Next, Promise!vars
<1> QED BY <1>1, InitSeen, AlwaysFilled, PTL DEF Spec, KeepsAccounts, Promise!Spec
=============================================================================
