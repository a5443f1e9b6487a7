--------------------------- MODULE MembersProofs ---------------------------
(***************************************************************************)
(* Theorems about Members for every set of browsers, addresses, passwords  *)
(* and regions, and every bound, checked by TLAPS.                         *)
(***************************************************************************)
EXTENDS Members, TLAPS

-----------------------------------------------------------------------------
(* Types.                                                                  *)

(* The records a request and a profile start from are of their types.      *)
LEMMA InitialRecords == Idle \in Requests /\ Fresh \in Profile
BY ConstantsAssumption DEF Idle, Requests, Fresh, Profile

(* What step 3 stores is a profile: blank rows are gone, and the partners  *)
(* of a pre-newlywed member have regions.                                  *)
LEMMA Step3Types ==
  ASSUME TypeOK, NEW i \in Ids, NEW rows \in Rows, NEW types \in SUBSET Types,
         NEW partners \in [Both -> Regions \cup {Blank}],
         "pre_newlywed" \in types => \A b \in Both : partners[b] # Blank
  PROVE  Step3(i, rows, types, partners) \in Profile
<1>1. Progress(i, 3) \in 0..3
  BY DEF TypeOK, Profile, Progress
<1>2. Past(rows) \subseteq Regions
  BY DEF Past, Kept, Rows
<1>3. Partners(types, partners) \in {<<>>} \cup [Both -> Regions]
  <2>1. CASE "pre_newlywed" \in types
    BY <2>1 DEF Partners
  <2>2. CASE "pre_newlywed" \notin types
    BY <2>2 DEF Partners
  <2> QED BY <2>1, <2>2
<1> QED BY <1>1, <1>2, <1>3 DEF Step3, Profile

(* Uncommitted rows have ids the sequence has handed out to nobody else.   *)
StagedIds ==
  /\ members \subseteq 1..seq
  /\ \A a \in Actors : request[a].at = "commit" => request[a].id \in (1..seq) \ members
  /\ \A a, b \in Actors :
       request[a].at = "commit" /\ request[b].at = "commit" /\ request[a].id = request[b].id
         => a = b

(* So an uncommitted row is a row of its own.                              *)
LEMMA StagedRow ==
  ASSUME TypeOK, StagedIds, NEW a \in Actors, request[a].at = "commit"
  PROVE  request[a].id \in Ids \ members
BY ConstantsAssumption DEF StagedIds, TypeOK, Ids

(* Types and ids hold at first.                                            *)
LEMMA InitTypes == Init => TypeOK /\ StagedIds
BY ConstantsAssumption, InitialRecords DEF Init, TypeOK, StagedIds, Idle

(* Counting one more exception.                                            *)
LEMMA Counting ==
  ASSUME NEW f \in [Emails -> Nat], NEW e
  PROVE  [f EXCEPT ![e] = @ + 1] \in [Emails -> Nat]
<1> DEFINE g == [f EXCEPT ![e] = @ + 1]
<1>1. ASSUME NEW x \in Emails PROVE g[x] \in Nat
  OBVIOUS
<1>2. g = [x \in Emails |-> g[x]]
  OBVIOUS
<1> HIDE DEF g
<1>3. g \in [Emails -> Nat]
  BY <1>1, <1>2
<1> QED BY <1>3 DEF g

(* The changes an actor's request goes through keep it a request.          *)
LEMMA RequestChanges ==
  ASSUME NEW r \in Requests,
         NEW at \in {"again", "insert", "commit", "answer", "update"}, NEW i \in 0..MaxForms
  PROVE  /\ [r EXCEPT !.at = at] \in Requests
         /\ [r EXCEPT !.at = at, !.id = i] \in Requests
         /\ [r EXCEPT !.at = at, !.hash = None] \in Requests
<1>1. [r EXCEPT !.at = at] \in Requests
  BY DEF Requests
<1>2. [r EXCEPT !.at = at, !.id = i] \in Requests
  BY DEF Requests
<1>3. [r EXCEPT !.at = at, !.hash = None] \in Requests
  BY DEF Requests
<1> QED BY <1>1, <1>2, <1>3

(* Every step keeps the types.                                             *)
LEMMA NextTypes == TypeOK /\ StagedIds /\ [Next]_vars => TypeOK'
<1> SUFFICES ASSUME TypeOK, StagedIds, [Next]_vars PROVE TypeOK'
  OBVIOUS
<1> USE ConstantsAssumption, InitialRecords DEF TypeOK
<1>1. ASSUME NEW a \in Actors, NEW at \in {"again", "update"}, NEW e \in Emails,
             NEW p \in Passwords \cup {None}, NEW i \in 0..MaxForms, Begin(a, at, e, p, i)
      PROVE TypeOK'
  BY <1>1 DEF Begin, Form, db, history, Requests
<1>2. ASSUME NEW a \in Actors, Refuse(a)
      PROVE /\ request' \in [Actors -> Requests]
            /\ refused' \in [Actors -> [Emails -> Nat]]
            /\ UNCHANGED <<shown, writer>>
  <2>1. [refused[a] EXCEPT ![request[a].email] = @ + 1] \in [Emails -> Nat]
    BY Counting
  <2> QED BY <1>2, <2>1 DEF Refuse, Done
<1>3. ASSUME NEW a \in Actors, LookAgain(a) PROVE TypeOK'
  <2>1. [request[a] EXCEPT !.at = "insert"] \in Requests
    BY RequestChanges
  <2>2. CASE Refuse(a)
    BY <1>2, <1>3, <2>2 DEF LookAgain, db, bounds
  <2>3. CASE Goto(a, "insert") /\ UNCHANGED history
    BY <1>3, <2>1, <2>3 DEF LookAgain, Goto, db, bounds, history
  <2> QED BY <1>3, <2>2, <2>3 DEF LookAgain
<1>4. ASSUME NEW a \in Actors, Insert(a) PROVE TypeOK'
  <2>1. seq' \in 0..MaxForms /\ seq + 1 \in 0..MaxForms
    BY <1>4 DEF Insert
  <2>2. [request[a] EXCEPT !.at = "commit", !.id = seq + 1] \in Requests
    BY <2>1, RequestChanges
  <2>3. CASE Refuse(a)
    BY <1>2, <1>4, <2>1, <2>3 DEF Insert, bounds
  <2>4. CASE /\ request' = [request EXCEPT ![a].at = "commit", ![a].id = seq + 1]
             /\ UNCHANGED history
    BY <1>4, <2>1, <2>2, <2>4 DEF Insert, bounds, history
  <2> QED BY <1>4, <2>3, <2>4 DEF Insert
<1>5. ASSUME NEW a \in Actors, Commit(a) PROVE TypeOK'
  <2>1. [request[a] EXCEPT !.at = IF a = Seed THEN "update" ELSE "answer", !.hash = None]
          \in Requests
    BY RequestChanges
  <2>2. /\ request[a].email \in Emails \cup {None}
        /\ request[a].hash \in Passwords \cup {None}
    BY DEF Requests
  <2>3. request[a].id \in Ids
    BY <1>5, StagedRow DEF Commit
  <2> QED BY <1>5, <2>1, <2>2, <2>3 DEF Commit, bounds, history
<1>6. CASE \E s \in Spellings, p \in Passwords : RunSeed(s, p)
  <2>1. PICK s \in Spellings, p \in Passwords : RunSeed(s, p)
    BY <1>6
  <2>2. Norm[s] \in Emails
    OBVIOUS
  <2>3. CASE Begin(Seed, "again", Norm[s], p, 0)
    BY <1>1, <2>2, <2>3 DEF Actors
  <2>4. ASSUME NEW i \in members, email[i] = Norm[s], Begin(Seed, "update", email[i], None, i)
        PROVE TypeOK'
    <3>1. i \in 0..MaxForms /\ email[i] \in Emails
      BY <2>2, <2>4 DEF Ids
    <3> QED BY <1>1, <2>4, <3>1 DEF Actors
  <2> QED BY <2>1, <2>3, <2>4 DEF RunSeed
<1>7. CASE SeedUpdate
  BY <1>7 DEF SeedUpdate, Done, db, bounds, history
<1>8. CASE ServerDies
  BY <1>8 DEF ServerDies, Fault, db, history
<1>9. CASE SeedDies
  <2>1. faults' \in 0..MaxFaults
    BY <1>9 DEF SeedDies, Fault
  <2> QED BY <1>9, <2>1 DEF SeedDies, Done, db, history
<1>10. ASSUME NEW c \in Clients, Visit(c) PROVE TypeOK'
  <2>1. ASSUME NEW s \in Spellings, NEW p \in Passwords, Register(c, s, p) PROVE TypeOK'
    BY <1>1, <2>1 DEF Register, Actors
  <2>2. ASSUME NEW s \in Spellings, NEW p \in Passwords, Login(c, s, p) PROVE TypeOK'
    <3>1. PICK i \in members :
            /\ email[i] = Norm[s]
            /\ request' = [request EXCEPT ![c] =
                 [at |-> "answer", email |-> email[i], hash |-> None, id |-> i]]
      BY <2>2 DEF Login
    <3>2. [at |-> "answer", email |-> email[i], hash |-> None, id |-> i] \in Requests
      BY <3>1 DEF Requests, Ids
    <3> QED BY <2>2, <3>1, <3>2 DEF Login, db, bounds, history
  <2>3. CASE Answer(c)
    BY <2>3 DEF Answer, Done, Requests, Actors, db, bounds
  <2>4. CASE AnswerLost(c)
    <3>1. faults' \in 0..MaxFaults
      BY <2>4 DEF AnswerLost, Fault
    <3> QED BY <2>4, <3>1 DEF AnswerLost, Done, db, history
  <2>5. CASE Logout(c)
    BY <2>5 DEF Logout, db, bounds, history
  <2>6. ASSUME NEW i \in Ids, NEW step \in {1, 2}, OnboardScalars(c, i, step) PROVE TypeOK'
    <3>1. profile[i].step \in 0..3 /\ profile[i] \in Profile /\ step \in 0..3
      BY DEF Profile
    <3>2. Progress(i, step) \in 0..3
      BY <3>1 DEF Progress
    <3>3. [profile[i] EXCEPT !.step = Progress(i, step)] \in Profile
      BY <3>1, <3>2 DEF Profile
    <3> QED BY <2>6, <3>3 DEF OnboardScalars, Edit, Form, history
  <2>7. ASSUME NEW i \in Ids, NEW rows \in Rows, NEW types \in SUBSET Types,
               NEW partners \in [Both -> Regions \cup {Blank}],
               OnboardRegions(c, i, rows, types, partners)
        PROVE TypeOK'
    <3>1. Step3(i, rows, types, partners) \in Profile
      BY <2>7, Step3Types DEF OnboardRegions
    <3> QED BY <2>7, <3>1 DEF OnboardRegions, Edit, Form
  <2>8. ASSUME NEW i \in Ids, NEW regions \in SUBSET Regions, SaveProfile(c, i, regions)
        PROVE TypeOK'
    <3>1. [profile[i] EXCEPT !.residence = regions] \in Profile
      BY DEF Profile
    <3> QED BY <2>8, <3>1 DEF SaveProfile, Edit, Form
  <2>9. ASSUME NEW i \in Ids, NEW current \in Passwords, NEW new \in Passwords,
               ChangePassword(c, i, current, new)
        PROVE TypeOK'
    BY <2>9 DEF ChangePassword, Edit, Form, history
  <2> QED BY <1>10, <2>1, <2>2, <2>3, <2>4, <2>5, <2>6, <2>7, <2>8, <2>9 DEF Visit, SubmitForm
<1>11. CASE UNCHANGED vars
  BY <1>11 DEF vars, db, bounds, history
<1> QED BY <1>3, <1>4, <1>5, <1>6, <1>7, <1>8, <1>9, <1>10, <1>11 DEF Next, Account

-----------------------------------------------------------------------------
(* Steps by what they do to the accounts and the requests.                 *)

(* No account changes, and no request does more than end.                  *)
Quiet ==
  /\ UNCHANGED <<members, email, profiles, seq, refused>>
  /\ \A a \in Actors : request'[a] \in {request[a], Idle}

(* No account changes, and actor a begins a request.                       *)
Begins(a, r) ==
  /\ UNCHANGED <<members, email, profiles, seq, refused, session, shown>>
  /\ request[a] = Idle
  /\ request' = [request EXCEPT ![a] = r]

NewAccount(e, p) == [at |-> "again", email |-> e, hash |-> p, id |-> 0]
Existing(at, i) == [at |-> at, email |-> email[i], hash |-> None, id |-> i]

(* What a step may do to requests, cookies and accounts.                   *)
LEMMA StepKinds ==
  ASSUME TypeOK, [Next]_vars
  PROVE  \/ \E a \in Actors : LookAgain(a) \/ Insert(a) \/ Commit(a)
         \/ \E a \in Actors, e \in Emails, p \in Passwords :
              ~Taken(e) /\ Begins(a, NewAccount(e, p))
         \/ \E a \in Actors, i \in members, at \in {"answer", "update"} :
              Begins(a, Existing(at, i))
         \/ \E c \in Clients : Answer(c)
         \/ \E c \in Clients : Logout(c)
         \/ Quiet /\ UNCHANGED <<session, shown>>
<1> DEFINE Rest == Quiet /\ UNCHANGED <<session, shown>>
<1>1. CASE \E a \in Actors : Account(a)
  BY <1>1 DEF Account
<1>2. CASE \E s \in Spellings, p \in Passwords : RunSeed(s, p)
  <2>1. PICK s \in Spellings, p \in Passwords : RunSeed(s, p)
    BY <1>2
  <2>2. Norm[s] \in Emails /\ Seed \in Actors
    BY ConstantsAssumption DEF Actors
  <2>3. CASE ~Taken(Norm[s]) /\ Begin(Seed, "again", Norm[s], p, 0)
    BY <2>2, <2>3 DEF Begin, Begins, NewAccount, db, history
  <2>4. CASE \E i \in members :
               email[i] = Norm[s] /\ Begin(Seed, "update", email[i], None, i)
    BY <2>2, <2>4 DEF Begin, Begins, Existing, db, history
  <2> QED BY <2>1, <2>3, <2>4 DEF RunSeed
<1>3. CASE SeedUpdate
  BY <1>3 DEF SeedUpdate, Done, Quiet, TypeOK, db, history
<1>4. CASE ServerDies
  BY <1>4 DEF ServerDies, Quiet, db, history
<1>5. CASE SeedDies
  BY <1>5 DEF SeedDies, Done, Quiet, TypeOK, db, history
<1>6. CASE UNCHANGED vars
  BY <1>6 DEF vars, db, history, Quiet
<1>7. ASSUME NEW c \in Clients, Visit(c)
      PROVE \/ \E a \in Actors, e \in Emails, p \in Passwords :
                 ~Taken(e) /\ Begins(a, NewAccount(e, p))
            \/ \E a \in Actors, i \in members, at \in {"answer", "update"} :
                 Begins(a, Existing(at, i))
            \/ Answer(c) \/ Logout(c) \/ Rest
  <2>1. ASSUME NEW s \in Spellings, NEW p \in Passwords, Register(c, s, p)
        PROVE \E a \in Actors, e \in Emails, q \in Passwords :
                ~Taken(e) /\ Begins(a, NewAccount(e, q))
    <3>1. Norm[s] \in Emails /\ c \in Actors
      BY ConstantsAssumption DEF Actors
    <3> QED BY <2>1, <3>1 DEF Register, Begin, Begins, NewAccount, db, history
  <2>2. ASSUME NEW s \in Spellings, NEW p \in Passwords, Login(c, s, p)
        PROVE \E a \in Actors, i \in members, at \in {"answer", "update"} :
                Begins(a, Existing(at, i))
    BY <2>2 DEF Login, Begins, Existing, Actors, db, history
  <2>3. CASE AnswerLost(c)
    BY <2>3 DEF AnswerLost, Done, Quiet, TypeOK, db, history
  <2>4. CASE SubmitForm(c)
    BY <2>4 DEF SubmitForm, OnboardScalars, OnboardRegions, SaveProfile, ChangePassword,
                Quiet, history
  <2> QED BY <1>7, <2>1, <2>2, <2>3, <2>4 DEF Visit
<1> QED BY <1>1, <1>2, <1>3, <1>4, <1>5, <1>6, <1>7 DEF Next

(* What the steps of a creation do to the request that takes them.         *)
LEMMA CreationEffects ==
  ASSUME TypeOK, NEW a \in Actors
  PROVE  /\ Goto(a, "insert") =>
              /\ request'[a].at = "insert" /\ request'[a].email = request[a].email
              /\ \A b \in Actors \ {a} : request'[b] = request[b]
         /\ Insert(a) /\ ~Refuse(a) =>
              /\ request'[a].at = "commit" /\ request'[a].email = request[a].email
              /\ request'[a].id = seq + 1
              /\ \A b \in Actors \ {a} : request'[b] = request[b]
              /\ Unique(request[a].email)
              /\ UNCHANGED history
         /\ Commit(a) =>
              /\ request'[a].at \in {"answer", "update"}
              /\ request'[a].email = request[a].email
              /\ request'[a].id = request[a].id
              /\ \A b \in Actors \ {a} : request'[b] = request[b]
         /\ Refuse(a) =>
              /\ request'[a] = Idle
              /\ \A b \in Actors \ {a} : request'[b] = request[b]
<1> USE DEF TypeOK, Requests
<1>1. Goto(a, "insert") =>
        /\ request'[a].at = "insert" /\ request'[a].email = request[a].email
        /\ \A b \in Actors \ {a} : request'[b] = request[b]
  BY DEF Goto
<1>2. Insert(a) /\ ~Refuse(a) =>
        /\ request'[a].at = "commit" /\ request'[a].email = request[a].email
        /\ request'[a].id = seq + 1
        /\ \A b \in Actors \ {a} : request'[b] = request[b]
        /\ Unique(request[a].email)
        /\ UNCHANGED history
  BY DEF Insert
<1>3. Commit(a) =>
        /\ request'[a].at \in {"answer", "update"}
        /\ request'[a].email = request[a].email
        /\ request'[a].id = request[a].id
        /\ \A b \in Actors \ {a} : request'[b] = request[b]
  BY DEF Commit
<1>4. Refuse(a) =>
        /\ request'[a] = Idle
        /\ \A b \in Actors \ {a} : request'[b] = request[b]
  BY DEF Refuse, Done
<1> QED BY <1>1, <1>2, <1>3, <1>4

-----------------------------------------------------------------------------
(* Uncommitted rows.                                                       *)

LEMMA NextStagedIds == TypeOK /\ StagedIds /\ [Next]_vars => StagedIds'
<1> SUFFICES ASSUME TypeOK, StagedIds, [Next]_vars PROVE StagedIds'
  OBVIOUS
<1> USE DEF StagedIds
<1>0. seq \in Nat /\ Idle.at = "idle"
  BY ConstantsAssumption DEF TypeOK, Idle
<1>1. ASSUME NEW a \in Actors, LookAgain(a) PROVE StagedIds'
  <2>1. UNCHANGED <<members, seq>>
    BY <1>1 DEF LookAgain, db
  <2>2. /\ request'[a].at # "commit"
        /\ \A b \in Actors \ {a} : request'[b] = request[b]
    BY <1>0, <1>1, CreationEffects DEF LookAgain
  <2> QED BY <2>1, <2>2
<1>2. ASSUME NEW a \in Actors, Insert(a) PROVE StagedIds'
  <2>1. UNCHANGED members /\ seq' = seq + 1
    BY <1>2 DEF Insert
  <2>2. CASE Refuse(a)
    <3>1. /\ request'[a].at # "commit"
          /\ \A b \in Actors \ {a} : request'[b] = request[b]
      BY <1>0, <2>2, CreationEffects
    <3>2. 1..seq \subseteq 1..seq'
      BY <1>0, <2>1
    <3> QED BY <2>1, <3>1, <3>2
  <2>3. CASE ~Refuse(a)
    <3>1. /\ request'[a].at = "commit" /\ request'[a].id = seq'
          /\ \A b \in Actors \ {a} : request'[b] = request[b]
      BY <1>2, <2>1, <2>3, CreationEffects
    <3>2. 1..seq \subseteq 1..seq' /\ seq' \in (1..seq') \ (1..seq)
      BY <1>0, <2>1
    <3> QED BY <2>1, <3>1, <3>2
  <2> QED BY <2>2, <2>3
<1>3. ASSUME NEW a \in Actors, Commit(a) PROVE StagedIds'
  <2>1. members' = members \cup {request[a].id} /\ UNCHANGED seq /\ request[a].at = "commit"
    BY <1>3 DEF Commit
  <2>2. /\ request'[a].at # "commit"
        /\ \A b \in Actors \ {a} : request'[b] = request[b]
    BY <1>3, CreationEffects
  <2> QED BY <2>1, <2>2
<1>4. ASSUME NEW a \in Actors, NEW r, r.at # "commit", Begins(a, r) PROVE StagedIds'
  BY <1>4 DEF Begins, TypeOK
<1>5. ASSUME NEW c \in Clients, Answer(c) PROVE StagedIds'
  BY <1>0, <1>5 DEF Answer, Done, Actors, db, TypeOK
<1>6. ASSUME NEW c \in Clients, Logout(c) PROVE StagedIds'
  BY <1>6 DEF Logout, db
<1>7. CASE Quiet
  BY <1>0, <1>7 DEF Quiet
<1> QED BY <1>1, <1>2, <1>3, <1>4, <1>5, <1>6, <1>7, StepKinds DEF NewAccount, Existing

-----------------------------------------------------------------------------
(* One account per address.                                                *)

(* An uncommitted row's address is nobody else's: no committed row has it, *)
(* and a second insertion of it waits.                                     *)
StagedAddresses ==
  /\ \A a \in Actors : request[a].at = "commit" => ~Taken(request[a].email)
  /\ \A a, b \in Actors :
       request[a].at = "commit" /\ request[b].at = "commit"
         /\ request[a].email = request[b].email => a = b

UniqueInv == OneAccountPerAddress /\ StagedAddresses

(* A step that leaves the accounts alone and starts no uncommitted row     *)
(* keeps the invariant.                                                    *)
LEMMA UniqueKept ==
  ASSUME UniqueInv, UNCHANGED <<members, email, profiles>>,
         \A a \in Actors : request'[a] = request[a] \/ request'[a].at # "commit"
  PROVE  UniqueInv'
BY DEF UniqueInv, OneAccountPerAddress, StagedAddresses, Taken

(* Every step keeps one account per address, the uncommitted ones included. *)
LEMMA NextUnique == TypeOK /\ StagedIds /\ UniqueInv /\ [Next]_vars => UniqueInv'
<1> SUFFICES ASSUME TypeOK, StagedIds, UniqueInv, [Next]_vars PROVE UniqueInv'
  OBVIOUS
<1>0. Idle.at = "idle"
  BY DEF Idle
<1>1. ASSUME NEW a \in Actors, LookAgain(a) PROVE UniqueInv'
  <2>1. /\ request'[a].at # "commit"
        /\ \A b \in Actors \ {a} : request'[b] = request[b]
    BY <1>0, <1>1, CreationEffects DEF LookAgain
  <2> QED BY <1>1, <2>1, UniqueKept DEF LookAgain, db
<1>2. ASSUME NEW a \in Actors, Insert(a) PROVE UniqueInv'
  <2>1. UNCHANGED <<members, email, profiles>>
    BY <1>2 DEF Insert
  <2>2. CASE Refuse(a)
    <3>1. /\ request'[a].at # "commit"
          /\ \A b \in Actors \ {a} : request'[b] = request[b]
      BY <1>0, <2>2, CreationEffects
    <3> QED BY <2>1, <3>1, UniqueKept
  <2>3. CASE ~Refuse(a)
    <3>1. /\ request'[a].email = request[a].email
          /\ \A b \in Actors \ {a} : request'[b] = request[b]
          /\ ~Taken(request[a].email)
      BY <1>2, <2>3, CreationEffects DEF Unique
    <3>2. \A b \in Actors : request[b].at = "commit" => request[b].email # request[a].email
      BY <1>2 DEF Insert
    <3> QED BY <2>1, <3>1, <3>2 DEF UniqueInv, OneAccountPerAddress, StagedAddresses, Taken
  <2> QED BY <2>2, <2>3
<1>3. ASSUME NEW a \in Actors, Commit(a) PROVE UniqueInv'
  <2> DEFINE i == request[a].id  e == request[a].email
  <2>1. /\ members' = members \cup {i} /\ profiles' = profiles \cup {i}
        /\ email' = [email EXCEPT ![i] = e] /\ request[a].at = "commit"
    BY <1>3 DEF Commit
  <2>2. /\ request'[a].at # "commit"
        /\ \A b \in Actors \ {a} : request'[b] = request[b]
    BY <1>3, CreationEffects
  <2>3. i \in Ids /\ i \notin members /\ ~Taken(e)
    BY <2>1, StagedRow DEF UniqueInv, StagedAddresses
  <2>4. email'[i] = e /\ \A j \in members : email'[j] = email[j]
    BY <2>1, <2>3 DEF TypeOK
  <2>5. OneAccountPerAddress'
    BY <2>1, <2>3, <2>4 DEF UniqueInv, OneAccountPerAddress, Taken
  <2>6. \A b \in Actors \ {a} : request[b].at = "commit" =>
          request[b].email # e /\ ~Taken(request[b].email)
    BY <2>1 DEF UniqueInv, StagedAddresses
  <2>7. StagedAddresses'
    BY <2>1, <2>2, <2>4, <2>6 DEF UniqueInv, StagedAddresses, Taken
  <2> QED BY <2>5, <2>7 DEF UniqueInv
<1>4. ASSUME NEW a \in Actors, NEW r, r.at # "commit", Begins(a, r) PROVE UniqueInv'
  BY <1>4, UniqueKept DEF Begins, TypeOK
<1>5. ASSUME NEW c \in Clients, Answer(c) PROVE UniqueInv'
  BY <1>0, <1>5, UniqueKept DEF Answer, Done, Actors, db, TypeOK
<1>6. ASSUME NEW c \in Clients, Logout(c) PROVE UniqueInv'
  BY <1>6, UniqueKept DEF Logout, db
<1>7. CASE Quiet
  BY <1>0, <1>7, UniqueKept DEF Quiet
<1> QED BY <1>1, <1>2, <1>3, <1>4, <1>5, <1>6, <1>7, StepKinds DEF NewAccount, Existing

-----------------------------------------------------------------------------
(* Cookies.                                                                *)

(* A request that has found or made an account knows the account of its    *)
(* address.                                                                *)
FoundAccounts ==
  \A a \in Actors : request[a].at \in {"answer", "update"} =>
    request[a].id \in members /\ email[request[a].id] = request[a].email

CookieInv == CookieLeadsHome /\ FoundAccounts

(* Every step keeps cookies and answers at their accounts.                 *)
LEMMA NextCookies == TypeOK /\ StagedIds /\ CookieInv /\ [Next]_vars => CookieInv'
<1> SUFFICES ASSUME TypeOK, StagedIds, CookieInv, [Next]_vars PROVE CookieInv'
  OBVIOUS
<1>0. Idle.at = "idle"
  BY DEF Idle
<1>1. ASSUME UNCHANGED <<members, email, session, shown>>,
             \A a \in Actors : \/ request'[a] = request[a]
                               \/ request'[a].at \notin {"answer", "update"}
      PROVE CookieInv'
  BY <1>1 DEF CookieInv, CookieLeadsHome, FoundAccounts
<1>2. ASSUME NEW a \in Actors, LookAgain(a) PROVE CookieInv'
  <2>1. /\ request'[a].at \notin {"answer", "update"}
        /\ \A b \in Actors \ {a} : request'[b] = request[b]
    BY <1>0, <1>2, CreationEffects DEF LookAgain
  <2> QED BY <1>1, <1>2, <2>1 DEF LookAgain, Refuse, Goto, db, history
<1>3. ASSUME NEW a \in Actors, Insert(a) PROVE CookieInv'
  <2>1. /\ request'[a].at \notin {"answer", "update"}
        /\ \A b \in Actors \ {a} : request'[b] = request[b]
    BY <1>0, <1>3, CreationEffects
  <2> QED BY <1>1, <1>3, <2>1 DEF Insert, Refuse, history
<1>4. ASSUME NEW a \in Actors, Commit(a) PROVE CookieInv'
  <2> DEFINE i == request[a].id
  <2>1. /\ members' = members \cup {i} /\ request[a].at = "commit"
        /\ email' = [email EXCEPT ![i] = request[a].email]
        /\ UNCHANGED <<session, shown>>
    BY <1>4 DEF Commit, history
  <2>2. i \in Ids /\ i \notin members
    BY <2>1, StagedRow
  <2>3. email'[i] = request[a].email /\ \A j \in members : email'[j] = email[j]
    BY <2>1, <2>2 DEF TypeOK
  <2>4. /\ request'[a].id = i /\ request'[a].email = request[a].email
        /\ \A b \in Actors \ {a} : request'[b] = request[b]
    BY <1>4, CreationEffects
  <2> QED BY <2>1, <2>3, <2>4 DEF CookieInv, CookieLeadsHome, FoundAccounts
<1>5. ASSUME NEW a \in Actors, NEW e \in Emails, NEW p \in Passwords, Begins(a, NewAccount(e, p))
      PROVE CookieInv'
  BY <1>1, <1>5 DEF Begins, NewAccount, TypeOK
<1>6. ASSUME NEW a \in Actors, NEW i \in members, NEW at \in {"answer", "update"},
             Begins(a, Existing(at, i))
      PROVE CookieInv'
  <2>1. /\ request'[a].id = i /\ request'[a].email = email[i]
        /\ \A b \in Actors \ {a} : request'[b] = request[b]
    BY <1>6 DEF Begins, Existing, TypeOK
  <2> QED BY <1>6, <2>1 DEF Begins, CookieInv, CookieLeadsHome, FoundAccounts
<1>7. ASSUME NEW c \in Clients, Answer(c) PROVE CookieInv'
  <2>1. /\ request'[c].at \notin {"answer", "update"}
        /\ \A b \in Actors \ {c} : request'[b] = request[b]
    BY <1>0, <1>7 DEF Answer, Done, Actors, TypeOK
  <2>2. /\ UNCHANGED <<members, email>>
        /\ session' = [session EXCEPT ![c] = request[c].id]
        /\ shown' = [shown EXCEPT ![c] = request[c].email]
        /\ request[c].at = "answer" /\ c \in Actors
    BY <1>7 DEF Answer, db, Actors
  <2> QED BY <2>1, <2>2 DEF CookieInv, CookieLeadsHome, FoundAccounts, TypeOK
<1>8. ASSUME NEW c \in Clients, Logout(c) PROVE CookieInv'
  BY <1>8 DEF Logout, db, history, CookieInv, CookieLeadsHome, FoundAccounts, TypeOK
<1>9. CASE Quiet /\ UNCHANGED <<session, shown>>
  BY <1>0, <1>1, <1>9 DEF Quiet
<1> QED BY <1>2, <1>3, <1>4, <1>5, <1>6, <1>7, <1>8, <1>9, StepKinds

-----------------------------------------------------------------------------
(* Exceptions.                                                             *)

(* Who has met an exception on an address finds it taken from then on, and *)
(* who is still creating an account has met none on its address.           *)
RaceInv ==
  /\ RaceLostOnce
  /\ \A a \in Actors, e \in Emails : refused[a][e] = 1 => Taken(e)
  /\ \A a \in Actors : request[a].at \in {"again", "insert"} =>
       request[a].email \in Emails /\ refused[a][request[a].email] = 0

(* An address stays taken.                                                 *)
LEMMA TakenStays ==
  ASSUME TypeOK, StagedIds, NEW a \in Actors, Commit(a), NEW e, Taken(e)
  PROVE  Taken(e)'
<1>1. /\ members' = members \cup {request[a].id} /\ request[a].at = "commit"
      /\ email' = [email EXCEPT ![request[a].id] = request[a].email]
  BY DEF Commit
<1>2. \A j \in members : email'[j] = email[j]
  BY <1>1, StagedRow DEF TypeOK
<1> QED BY <1>1, <1>2 DEF Taken

(* A step that refuses nobody and begins or commits nothing keeps it.      *)
LEMMA RaceKept ==
  ASSUME RaceInv, UNCHANGED <<members, email, refused>>,
         \A a \in Actors : \/ request'[a].at \notin {"again", "insert"}
                           \/ /\ request[a].at \in {"again", "insert"}
                              /\ request'[a].email = request[a].email
  PROVE  RaceInv'
BY DEF RaceInv, RaceLostOnce, Taken

(* Nor is it broken by refusing an address that is taken.                  *)
LEMMA RaceRefused ==
  ASSUME TypeOK, RaceInv, NEW a \in Actors, request[a].at \in {"again", "insert"},
         Taken(request[a].email), Refuse(a), UNCHANGED <<members, email>>
  PROVE  RaceInv'
<1> DEFINE e == request[a].email
<1>1. e \in Emails /\ refused[a][e] = 0
  BY DEF RaceInv
<1>2. /\ refused'[a][e] = 1
      /\ \A x \in Emails \ {e} : refused'[a][x] = refused[a][x]
      /\ \A b \in Actors \ {a} : refused'[b] = refused[b]
  BY <1>1 DEF Refuse, TypeOK
<1>3. /\ request'[a].at \notin {"again", "insert"}
      /\ \A b \in Actors \ {a} : request'[b] = request[b]
  BY CreationEffects DEF Idle
<1>4. RaceLostOnce'
  BY <1>1, <1>2 DEF RaceInv, RaceLostOnce
<1>5. \A b \in Actors, x \in Emails : refused'[b][x] = 1 => Taken(x)'
  BY <1>1, <1>2 DEF RaceInv, Taken
<1> QED BY <1>2, <1>3, <1>4, <1>5 DEF RaceInv

(* Every step keeps an exception on an address the last one.               *)
LEMMA NextRace == TypeOK /\ StagedIds /\ RaceInv /\ [Next]_vars => RaceInv'
<1> SUFFICES ASSUME TypeOK, StagedIds, RaceInv, [Next]_vars PROVE RaceInv'
  OBVIOUS
<1>0. Idle.at = "idle"
  BY DEF Idle
<1>1. ASSUME NEW a \in Actors, LookAgain(a) PROVE RaceInv'
  <2>1. request[a].at = "again" /\ UNCHANGED <<members, email>>
    BY <1>1 DEF LookAgain, db
  <2>2. CASE Taken(request[a].email) /\ Refuse(a)
    BY <2>1, <2>2, RaceRefused
  <2>3. CASE Goto(a, "insert") /\ UNCHANGED history
    <3>1. /\ request'[a].email = request[a].email
          /\ \A b \in Actors \ {a} : request'[b] = request[b]
      BY <2>3, CreationEffects
    <3> QED BY <2>1, <2>3, <3>1, RaceKept DEF history
  <2> QED BY <1>1, <2>2, <2>3 DEF LookAgain
<1>2. ASSUME NEW a \in Actors, Insert(a) PROVE RaceInv'
  <2>1. request[a].at = "insert" /\ UNCHANGED <<members, email>>
    BY <1>2 DEF Insert
  <2>2. CASE ~Unique(request[a].email) /\ Refuse(a)
    BY <2>1, <2>2, RaceRefused DEF Unique
  <2>3. CASE ~Refuse(a)
    <3>1. /\ request'[a].at = "commit"
          /\ \A b \in Actors \ {a} : request'[b] = request[b]
          /\ UNCHANGED refused
      BY <1>2, <2>3, CreationEffects DEF history
    <3> QED BY <2>1, <3>1, RaceKept
  <2>4. CASE Unique(request[a].email) /\ Refuse(a)
    <3>1. request'[a].at = "commit"
      BY <1>2, <2>4 DEF Insert, TypeOK, Requests
    <3>2. request'[a].at = "idle"
      BY <1>0, <2>4, CreationEffects
    <3> QED BY <3>1, <3>2
  <2> QED BY <1>2, <2>2, <2>3, <2>4
<1>3. ASSUME NEW a \in Actors, Commit(a) PROVE RaceInv'
  <2>1. /\ request'[a].at \notin {"again", "insert"}
        /\ \A b \in Actors \ {a} : request'[b] = request[b]
    BY <1>3, CreationEffects
  <2>2. UNCHANGED refused
    BY <1>3 DEF Commit, history
  <2>3. \A b \in Actors, e \in Emails : refused[b][e] = 1 => Taken(e)'
    BY <1>3, TakenStays DEF RaceInv
  <2> QED BY <2>1, <2>2, <2>3 DEF RaceInv, RaceLostOnce
<1>4. ASSUME NEW a \in Actors, NEW e \in Emails, NEW p \in Passwords,
             ~Taken(e), Begins(a, NewAccount(e, p))
      PROVE RaceInv'
  <2>0. refused[a][e] \in Nat
    BY DEF TypeOK
  <2>1. refused[a][e] = 0
    BY <1>4, <2>0 DEF RaceInv, RaceLostOnce
  <2>2. /\ request'[a].email = e
        /\ \A b \in Actors \ {a} : request'[b] = request[b]
    BY <1>4 DEF Begins, NewAccount, TypeOK
  <2> QED BY <1>4, <2>1, <2>2 DEF Begins, RaceInv, RaceLostOnce, Taken
<1>5. ASSUME NEW a \in Actors, NEW i \in members, NEW at \in {"answer", "update"},
             Begins(a, Existing(at, i))
      PROVE RaceInv'
  <2>1. /\ request'[a].at \notin {"again", "insert"}
        /\ \A b \in Actors \ {a} : request'[b] = request[b]
    BY <1>5 DEF Begins, Existing, TypeOK
  <2> QED BY <1>5, <2>1, RaceKept DEF Begins
<1>6. ASSUME NEW c \in Clients, Answer(c) PROVE RaceInv'
  <2>1. /\ request'[c].at \notin {"again", "insert"}
        /\ \A b \in Actors \ {c} : request'[b] = request[b]
    BY <1>0, <1>6 DEF Answer, Done, Actors, TypeOK
  <2> QED BY <1>6, <2>1, RaceKept DEF Answer, db
<1>7. ASSUME NEW c \in Clients, Logout(c) PROVE RaceInv'
  BY <1>7, RaceKept DEF Logout, db, history
<1>8. CASE Quiet
  BY <1>0, <1>8, RaceKept DEF Quiet
<1> QED BY <1>1, <1>2, <1>3, <1>4, <1>5, <1>6, <1>7, <1>8, StepKinds

-----------------------------------------------------------------------------
(* Profiles.                                                               *)

(* Partners and region list of a profile, over every id, so that the       *)
(* creation of an account does not disturb it.                             *)
ProfileInv ==
  \A i \in Ids :
    /\ IF "pre_newlywed" \in profile[i].preferred
         THEN profile[i].partners \in [Both -> Regions]
         ELSE profile[i].partners = <<>>
    /\ writer[i] = "onboarding" => profile[i].residence = profile[i].history

(* The steps that change a profile.                                        *)
LEMMA ProfileSteps ==
  ASSUME [Next]_vars
  PROVE  \/ UNCHANGED <<profile, writer>>
         \/ \E c \in Clients, i \in Ids, step \in {1, 2} : OnboardScalars(c, i, step)
         \/ \E c \in Clients, i \in Ids, rows \in Rows, types \in SUBSET Types,
               partners \in [Both -> Regions \cup {Blank}] :
              OnboardRegions(c, i, rows, types, partners)
         \/ \E c \in Clients, i \in Ids, regions \in SUBSET Regions : SaveProfile(c, i, regions)
<1> DEFINE Same == UNCHANGED <<profile, writer>>
<1>1. ASSUME NEW a \in Actors, Account(a) PROVE Same
  <2>1. CASE LookAgain(a)
    BY <2>1 DEF LookAgain, Refuse, db, history
  <2>2. CASE Insert(a)
    BY <2>2 DEF Insert, Refuse, history
  <2>3. CASE Commit(a)
    BY <2>3 DEF Commit, history
  <2> QED BY <1>1, <2>1, <2>2, <2>3 DEF Account
<1>2. CASE \E s \in Spellings, p \in Passwords : RunSeed(s, p)
  BY <1>2 DEF RunSeed, Begin, db, history
<1>3. CASE SeedUpdate \/ ServerDies \/ SeedDies \/ UNCHANGED vars
  BY <1>3 DEF SeedUpdate, ServerDies, SeedDies, vars, db, history
<1>4. ASSUME NEW c \in Clients,
             (\E s \in Spellings, p \in Passwords : Register(c, s, p) \/ Login(c, s, p))
               \/ Answer(c) \/ AnswerLost(c) \/ Logout(c)
      PROVE Same
  BY <1>4 DEF Register, Begin, Login, Answer, AnswerLost, Logout, db, history
<1>5. ASSUME NEW c \in Clients, NEW i \in Ids,
             \E current \in Passwords, new \in Passwords : ChangePassword(c, i, current, new)
      PROVE Same
  BY <1>5 DEF ChangePassword, history
<1> QED BY <1>1, <1>2, <1>3, <1>4, <1>5 DEF Next, Visit, SubmitForm

(* Every step keeps partners and regions in line with what they follow.    *)
LEMMA NextProfiles == TypeOK /\ ProfileInv /\ [Next]_vars => ProfileInv'
<1> SUFFICES ASSUME TypeOK, ProfileInv, [Next]_vars PROVE ProfileInv'
  OBVIOUS
<1>1. CASE UNCHANGED <<profile, writer>>
  BY <1>1 DEF ProfileInv
<1>2. ASSUME NEW c \in Clients, NEW i \in Ids, NEW step \in {1, 2}, OnboardScalars(c, i, step)
      PROVE ProfileInv'
  <2>1. /\ profile'[i].preferred = profile[i].preferred
        /\ profile'[i].partners = profile[i].partners
        /\ profile'[i].residence = profile[i].residence
        /\ profile'[i].history = profile[i].history
        /\ \A j \in Ids \ {i} : profile'[j] = profile[j]
        /\ UNCHANGED writer
    BY <1>2 DEF OnboardScalars, TypeOK, Profile, history
  <2> QED BY <2>1 DEF ProfileInv
<1>3. ASSUME NEW c \in Clients, NEW i \in Ids, NEW rows \in Rows, NEW types \in SUBSET Types,
             NEW partners \in [Both -> Regions \cup {Blank}],
             OnboardRegions(c, i, rows, types, partners)
      PROVE ProfileInv'
  <2> DEFINE new == Step3(i, rows, types, partners)
  <2>1. /\ profile'[i] = new /\ \A j \in Ids \ {i} : profile'[j] = profile[j]
        /\ \A j \in Ids \ {i} : writer'[j] = writer[j]
    BY <1>3 DEF OnboardRegions, TypeOK
  <2>2. new.residence = new.history
    <3>1. Blank \notin Past(rows)
      BY DEF Past, Kept
    <3> QED BY <3>1 DEF Step3
  <2>3. CASE "pre_newlywed" \in types
    <3>1. \A b \in Both : partners[b] \in Regions
      BY <1>3, <2>3 DEF OnboardRegions
    <3>2. partners \in [Both -> Regions]
      BY <3>1
    <3>3. new.preferred = types /\ new.partners = partners
      BY <2>3 DEF Step3, Partners
    <3> QED BY <2>1, <2>2, <2>3, <3>2, <3>3 DEF ProfileInv
  <2>4. CASE "pre_newlywed" \notin types
    <3>1. new.preferred = types /\ new.partners = <<>>
      BY <2>4 DEF Step3, Partners
    <3> QED BY <2>1, <2>2, <2>4, <3>1 DEF ProfileInv
  <2> QED BY <2>3, <2>4
<1>4. ASSUME NEW c \in Clients, NEW i \in Ids, NEW regions \in SUBSET Regions,
             SaveProfile(c, i, regions)
      PROVE ProfileInv'
  <2>1. /\ profile'[i].preferred = profile[i].preferred
        /\ profile'[i].partners = profile[i].partners
        /\ writer'[i] = "form"
        /\ \A j \in Ids \ {i} : profile'[j] = profile[j] /\ writer'[j] = writer[j]
    BY <1>4 DEF SaveProfile, TypeOK, Profile
  <2> QED BY <2>1 DEF ProfileInv
<1> QED BY <1>1, <1>2, <1>3, <1>4, ProfileSteps

(* No step lowers a progress.                                              *)
LEMMA NextProgress == TypeOK /\ [Next]_vars => ProgressKept
<1> SUFFICES ASSUME TypeOK, [Next]_vars, NEW j \in profiles
             PROVE profile'[j].step >= profile[j].step
  BY DEF ProgressKept
<1>0. j \in Ids /\ \A i \in Ids : profile[i].step \in 0..3
  BY DEF TypeOK, Profile
<1>1. CASE UNCHANGED <<profile, writer>>
  BY <1>0, <1>1
<1>2. ASSUME NEW i \in Ids, NEW step \in 1..3 PROVE Progress(i, step) >= profile[i].step
  BY <1>0 DEF Progress
<1>3. ASSUME NEW c \in Clients, NEW i \in Ids, NEW step \in {1, 2}, OnboardScalars(c, i, step)
      PROVE profile'[j].step >= profile[j].step
  <2>1. profile'[i].step = Progress(i, step) /\ \A k \in Ids \ {i} : profile'[k] = profile[k]
    BY <1>3 DEF OnboardScalars, TypeOK, Profile
  <2> QED BY <1>0, <1>2, <2>1
<1>4. ASSUME NEW c \in Clients, NEW i \in Ids, NEW rows \in Rows, NEW types \in SUBSET Types,
             NEW partners \in [Both -> Regions \cup {Blank}],
             OnboardRegions(c, i, rows, types, partners)
      PROVE profile'[j].step >= profile[j].step
  <2>1. profile'[i].step = Progress(i, 3) /\ \A k \in Ids \ {i} : profile'[k] = profile[k]
    BY <1>4 DEF OnboardRegions, Step3, TypeOK
  <2> QED BY <1>0, <1>2, <2>1
<1>5. ASSUME NEW c \in Clients, NEW i \in Ids, NEW regions \in SUBSET Regions,
             SaveProfile(c, i, regions)
      PROVE profile'[j].step >= profile[j].step
  <2>1. profile'[i].step = profile[i].step /\ \A k \in Ids \ {i} : profile'[k] = profile[k]
    BY <1>5 DEF SaveProfile, TypeOK, Profile
  <2> QED BY <1>0, <2>1
<1> QED BY <1>1, <1>3, <1>4, <1>5, ProfileSteps

-----------------------------------------------------------------------------
(* Passwords and addresses.                                                *)

(* The steps that change an account.                                       *)
LEMMA AccountSteps ==
  ASSUME [Next]_vars
  PROVE  \/ UNCHANGED <<members, email, hash>>
         \/ \E a \in Actors : Commit(a)
         \/ \E c \in Clients, i \in Ids, current \in Passwords, new \in Passwords :
              ChangePassword(c, i, current, new)
<1> DEFINE Same == UNCHANGED <<members, email, hash>>
<1>1. ASSUME NEW a \in Actors, LookAgain(a) \/ Insert(a) PROVE Same
  BY <1>1 DEF LookAgain, Insert, db
<1>2. CASE \E s \in Spellings, p \in Passwords : RunSeed(s, p)
  BY <1>2 DEF RunSeed, Begin, db
<1>3. CASE SeedUpdate \/ ServerDies \/ SeedDies \/ UNCHANGED vars
  BY <1>3 DEF SeedUpdate, ServerDies, SeedDies, vars, db
<1>4. ASSUME NEW c \in Clients,
             (\E s \in Spellings, p \in Passwords : Register(c, s, p) \/ Login(c, s, p))
               \/ Answer(c) \/ AnswerLost(c) \/ Logout(c)
      PROVE Same
  BY <1>4 DEF Register, Begin, Login, Answer, AnswerLost, Logout, db
<1>5. ASSUME NEW c \in Clients, SubmitForm(c)
      PROVE \/ Same
            \/ \E i \in Ids, current \in Passwords, new \in Passwords :
                 ChangePassword(c, i, current, new)
  BY <1>5 DEF SubmitForm, OnboardScalars, OnboardRegions, SaveProfile
<1> QED BY <1>1, <1>2, <1>3, <1>4, <1>5 DEF Next, Account, Visit

(* A cookie that leads home is what a password change needs.               *)
LEMMA NextKeepsAccounts ==
  TypeOK /\ StagedIds /\ CookieLeadsHome /\ [Next]_vars => TakesNoAccountOver
<1> SUFFICES ASSUME TypeOK, StagedIds, CookieLeadsHome, [Next]_vars, NEW j \in members
             PROVE  /\ j \in members' /\ email'[j] = email[j]
                    /\ hash'[j] # hash[j] => \E c \in Clients : session[c] = j /\ shown[c] = email[j]
  BY DEF TakesNoAccountOver
<1>0. j \in Ids
  BY DEF TypeOK
<1>1. CASE UNCHANGED <<members, email, hash>>
  BY <1>1
<1>2. ASSUME NEW a \in Actors, Commit(a)
      PROVE j \in members' /\ email'[j] = email[j] /\ hash'[j] = hash[j]
  <2>1. /\ members' = members \cup {request[a].id} /\ request[a].at = "commit"
        /\ email' = [email EXCEPT ![request[a].id] = request[a].email]
        /\ hash' = [hash EXCEPT ![request[a].id] = request[a].hash]
    BY <1>2 DEF Commit
  <2>2. j # request[a].id
    BY <2>1, StagedRow
  <2> QED BY <1>0, <2>1, <2>2 DEF TypeOK
<1>3. ASSUME NEW c \in Clients, NEW i \in Ids, NEW current \in Passwords, NEW new \in Passwords,
             ChangePassword(c, i, current, new)
      PROVE /\ j \in members' /\ email'[j] = email[j]
            /\ hash'[j] # hash[j] => \E d \in Clients : session[d] = j /\ shown[d] = email[j]
  <2>1. /\ UNCHANGED <<members, email>>
        /\ hash' = [hash EXCEPT ![i] = new] /\ i = session[c]
    BY <1>3 DEF ChangePassword, Edit
  <2>2. CASE i = j
    <3>1. j # 0
      BY <1>0 DEF Ids
    <3> QED BY <2>1, <2>2, <3>1 DEF CookieLeadsHome
  <2>3. CASE i # j
    BY <1>0, <2>1, <2>3 DEF TypeOK
  <2> QED BY <2>2, <2>3
<1> QED BY <1>1, <1>2, <1>3, AccountSteps

-----------------------------------------------------------------------------
(* Theorems.                                                               *)

(* The inductive invariant.                                                *)
AccountInv ==
  TypeOK /\ StagedIds /\ UniqueInv /\ CookieInv /\ RaceInv /\ ProfileInv

(* The invariant holds at first.                                           *)
LEMMA InitAccounts == Init => AccountInv
<1> SUFFICES ASSUME Init PROVE AccountInv
  OBVIOUS
<1>1. TypeOK /\ StagedIds
  BY InitTypes
<1>2. \A a \in Actors : request[a].at = "idle"
  BY DEF Init, Idle
<1>3. UniqueInv
  BY <1>2 DEF Init, UniqueInv, OneAccountPerAddress, StagedAddresses
<1>4. CookieInv
  BY <1>2 DEF Init, CookieInv, CookieLeadsHome, FoundAccounts
<1>5. RaceInv
  BY <1>2 DEF Init, RaceInv, RaceLostOnce
<1>6. ProfileInv
  BY DEF Init, ProfileInv, Fresh
<1> QED BY <1>1, <1>3, <1>4, <1>5, <1>6 DEF AccountInv

(* Every step keeps it.                                                    *)
LEMMA NextAccounts == AccountInv /\ [Next]_vars => AccountInv'
BY NextTypes, NextStagedIds, NextUnique, NextCookies, NextRace, NextProfiles
DEF AccountInv

(* Every reachable state satisfies the inductive invariant.                *)
THEOREM AccountsCorrect == Spec => []AccountInv
BY InitAccounts, NextAccounts, PTL DEF Spec

(* Requests, accounts and profiles keep their types.                       *)
THEOREM MembersTypeCorrect == Spec => []TypeOK
<1>1. AccountInv => TypeOK
  BY DEF AccountInv
<1> QED BY <1>1, AccountsCorrect, PTL

(* No two accounts have one address and none lacks its profile, however    *)
(* many registrations and seed runs overlap.                               *)
THEOREM AccountsAreUnique == Spec => []OneAccountPerAddress
<1>1. AccountInv => OneAccountPerAddress
  BY DEF AccountInv, UniqueInv
<1> QED BY <1>1, AccountsCorrect, PTL

(* A cookie leads to the account of the address its browser gave.          *)
THEOREM CookiesLeadHome == Spec => []CookieLeadsHome
<1>1. AccountInv => CookieLeadsHome
  BY DEF AccountInv, CookieInv
<1> QED BY <1>1, AccountsCorrect, PTL

(* A process meets at most one exception per address.                      *)
THEOREM RacesAreLostOnce == Spec => []RaceLostOnce
<1>1. AccountInv => RaceLostOnce
  BY DEF AccountInv, RaceInv
<1> QED BY <1>1, AccountsCorrect, PTL

(* Partners are stored for a pre-newlywed member only, both with a region. *)
THEOREM PartnersMatch == Spec => []PartnersMatchPreference
<1>1. AccountInv => PartnersMatchPreference
  BY DEF AccountInv, TypeOK, ProfileInv, PartnersMatchPreference
<1> QED BY <1>1, AccountsCorrect, PTL

(* After the onboarding the region list is that of the residence history.  *)
THEOREM RegionsAreDerived == Spec => []RegionsFollowHistory
<1>1. AccountInv => RegionsFollowHistory
  BY DEF AccountInv, TypeOK, ProfileInv, RegionsFollowHistory
<1> QED BY <1>1, AccountsCorrect, PTL

(* Nothing lowers the progress of the onboarding.                          *)
THEOREM ProgressIsKept == Spec => ProgressNeverFalls
<1>1. AccountInv /\ [Next]_vars => [ProgressKept]_vars
  BY NextProgress DEF AccountInv
<1> QED BY <1>1, AccountsCorrect, PTL DEF Spec, ProgressNeverFalls

(* An account's address never changes, and its password only by a browser  *)
(* that has proved the address.                                            *)
THEOREM AccountsStayTheirOwners == Spec => AccountsAreKept
<1>1. AccountInv /\ [Next]_vars => [TakesNoAccountOver]_vars
  BY NextKeepsAccounts DEF AccountInv, CookieInv
<1> QED BY <1>1, AccountsCorrect, PTL DEF Spec, AccountsAreKept
=============================================================================
