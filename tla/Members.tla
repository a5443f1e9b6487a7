------------------------------ MODULE Members ------------------------------
(***************************************************************************)
(* Accounts and profiles: the register, login, logout, onboarding, profile *)
(* and password requests of src/web over the member and member_profile     *)
(* tables, with scripts/seed_member.py as one more process.  register and  *)
(* login run in the web server's thread pool, so their statements          *)
(* interleave; the handlers that write a profile are coroutines without an *)
(* await between read and commit, so each of them is one step.             *)
(***************************************************************************)
EXTENDS Integers, FiniteSets

CONSTANTS
  Clients,    \* browsers, each with one cookie and one request at a time
  Seed,       \* the process of scripts/seed_member.py
  Spellings,  \* addresses as they are typed
  Emails,     \* addresses as they are stored
  Norm,       \* _norm_email: spelling -> stored address
  Passwords,
  Good,       \* those validate_password accepts
  Regions,
  Blank,      \* the empty region of a form row
  None,       \* no address, no password
  MaxRows,    \* MAX_RESIDENCE_ROWS
  MaxForms,   \* bound: submitted forms (but logins) and seed runs
  MaxFaults   \* bound: lost answers and deaths of a process

ASSUME ConstantsAssumption ==
  /\ Seed \notin Clients
  /\ Norm \in [Spellings -> Emails]
  /\ Good \subseteq Passwords
  /\ Blank \notin Regions
  /\ None \notin Emails \cup Passwords
  /\ MaxRows \in Nat \ {0}
  /\ MaxForms \in Nat /\ MaxFaults \in Nat

VARIABLES
  (* the database *)
  members,    \* ids of the rows of member
  email, hash,\* member.email, member.password_hash (None without a row)
  profiles,   \* ids of the rows of member_profile
  profile,    \* the columns of member_profile the properties tell apart
  seq,        \* the last id the identity sequence handed out
  (* the processes *)
  request,    \* what each actor's request does, and the row it has inserted
  session,    \* member_id in each browser's cookie, 0 without one
  forms, faults,
  (* history, read by no action *)
  shown,      \* the address each browser last proved to be its own
  refused,    \* how often an actor met an exception on an address
  writer      \* who wrote a profile's region list last

db      == <<members, email, hash, profiles, profile, seq>>
bounds  == <<forms, faults>>
history == <<shown, refused, writer>>
vars    == <<db, request, session, bounds, history>>

Actors == Clients \cup {Seed}
Ids == 1..MaxForms

(* The preferred type with a rule of its own; the others are data.  Region lists  *)
(* are sets, for all their readers ask is whether a region is in them.     *)
Types == {"pre_newlywed"}
Both == {1, 2}

Profile == [step      : 0..3,
            history   : SUBSET Regions,
            residence : SUBSET Regions,
            preferred : SUBSET Types,
            partners  : {<<>>} \cup [Both -> Regions]]
Fresh == [step |-> 0, history |-> {}, residence |-> {},
          preferred |-> {}, partners |-> <<>>]

Requests == [at    : {"idle", "again", "insert", "commit", "answer", "update"},
             email : Emails \cup {None},
             hash  : Passwords \cup {None},
             id    : 0..MaxForms]
Idle == [at |-> "idle", email |-> None, hash |-> None, id |-> 0]

TypeOK ==
  /\ members \subseteq Ids
  /\ email \in [Ids -> Emails \cup {None}]
  /\ hash \in [Ids -> Passwords \cup {None}]
  /\ profiles \subseteq Ids
  /\ profile \in [Ids -> Profile]
  /\ seq \in 0..MaxForms
  /\ request \in [Actors -> Requests]
  /\ session \in [Clients -> 0..MaxForms]
  /\ forms \in 0..MaxForms /\ faults \in 0..MaxFaults
  /\ shown \in [Clients -> Emails \cup {None}]
  /\ refused \in [Actors -> [Emails -> Nat]]
  /\ writer \in [Ids -> {"none", "onboarding", "form"}]

Init ==
  /\ members = {}
  /\ email = [i \in Ids |-> None]
  /\ hash = [i \in Ids |-> None]
  /\ profiles = {}
  /\ profile = [i \in Ids |-> Fresh]
  /\ seq = 0
  /\ request = [a \in Actors |-> Idle]
  /\ session = [c \in Clients |-> 0]
  /\ forms = 0 /\ faults = 0
  /\ shown = [c \in Clients |-> None]
  /\ refused = [a \in Actors |-> [e \in Emails |-> 0]]
  /\ writer = [i \in Ids |-> "none"]

Goto(a, at) == request' = [request EXCEPT ![a].at = at]
Done(a) == request' = [request EXCEPT ![a] = Idle]

Fault ==
  /\ faults < MaxFaults
  /\ faults' = faults + 1

Form ==
  /\ forms < MaxForms
  /\ forms' = forms + 1

-----------------------------------------------------------------------------
(* Creating an account: look, hash, look again, insert, commit.            *)

(* get_member_by_email: what a statement of another connection sees.       *)
Taken(e) == \E i \in members : email[i] = e

(* An exception leaves the handler: error 500, or the script's traceback.  *)
Refuse(a) ==
  /\ refused' = [refused EXCEPT ![a][request[a].email] = @ + 1]
  /\ Done(a)
  /\ UNCHANGED <<shown, writer>>

Begin(a, at, e, p, i) ==
  /\ request[a] = Idle
  /\ Form
  /\ request' = [request EXCEPT ![a] = [at |-> at, email |-> e, hash |-> p, id |-> i]]
  /\ UNCHANGED <<db, session, faults, history>>

(* Mutant: the route leaves the look to create_member.                     *)
RegisterUnchecked(c, s, p) ==
  /\ p \in Good
  /\ Begin(c, "again", Norm[s], p, 0)

(* Mutant: the policy is left to the form in the browser.                  *)
RegisterUnjudged(c, s, p) ==
  /\ ~Taken(Norm[s])
  /\ Begin(c, "again", Norm[s], p, 0)

(* POST /register up to the hashing; a form that fails the checks, or an   *)
(* address that is taken (409), only renders again.                        *)
Register(c, s, p) ==
  /\ p \in Good
  /\ ~Taken(Norm[s])
  /\ Begin(c, "again", Norm[s], p, 0)

(* Mutant: the script gives an existing account the password it was called *)
(* with.                                                                   *)
RunSeedResetting(s, p) ==
  \/ ~Taken(Norm[s]) /\ Begin(Seed, "again", Norm[s], p, 0)
  \/ \E i \in members :
       /\ email[i] = Norm[s]
       /\ request[Seed] = Idle
       /\ Form
       /\ hash' = [hash EXCEPT ![i] = p]
       /\ UNCHANGED <<members, email, profiles, profile, seq, request, session, faults, history>>

(* The script takes any password, the policy holds for the web only, and   *)
(* goes on with an account that exists.                                    *)
RunSeed(s, p) ==
  \/ ~Taken(Norm[s]) /\ Begin(Seed, "again", Norm[s], p, 0)
  \/ \E i \in members : email[i] = Norm[s] /\ Begin(Seed, "update", email[i], None, i)

(* create_member looks again after the password has been hashed.           *)
LookAgain(a) ==
  /\ request[a].at = "again"
  /\ \/ Taken(request[a].email) /\ Refuse(a)
     \/ ~Taken(request[a].email) /\ Goto(a, "insert") /\ UNCHANGED history
  /\ UNCHANGED <<db, session, bounds>>

(* Mutant: the column is not declared unique.                              *)
UniqueMissing(e) == TRUE

(* The unique constraint on member.email.                                  *)
Unique(e) == ~Taken(e)

(* Mutant: the id is one more than the number of accounts.                 *)
InsertCounting(a) ==
  /\ request[a].at = "insert"
  /\ \A b \in Actors : request[b].at = "commit" => request[b].email # request[a].email
  /\ seq' = Cardinality(members) + 1
  /\ \/ /\ Unique(request[a].email)
        /\ request' = [request EXCEPT ![a].at = "commit", ![a].id = seq']
        /\ UNCHANGED history
     \/ ~Unique(request[a].email) /\ Refuse(a)
  /\ UNCHANGED <<members, email, hash, profiles, profile, session, bounds>>

(* flush: the row gets its id and is uncommitted.  While another actor's   *)
(* uncommitted row has the address, PostgreSQL keeps the statement waiting. *)
(* A form inserts once, so the bound on seq stops nothing.                 *)
Insert(a) ==
  /\ request[a].at = "insert"
  /\ seq < MaxForms
  /\ \A b \in Actors : request[b].at = "commit" => request[b].email # request[a].email
  /\ seq' = seq + 1
  /\ \/ /\ Unique(request[a].email)
        /\ request' = [request EXCEPT ![a].at = "commit", ![a].id = seq + 1]
        /\ UNCHANGED history
     \/ ~Unique(request[a].email) /\ Refuse(a)
  /\ UNCHANGED <<members, email, hash, profiles, profile, session, bounds>>

(* The member and its empty profile become visible together.               *)
Commit(a) ==
  /\ request[a].at = "commit"
  /\ LET i == request[a].id
     IN  /\ members' = members \cup {i}
         /\ email' = [email EXCEPT ![i] = request[a].email]
         /\ hash' = [hash EXCEPT ![i] = request[a].hash]
         /\ profiles' = profiles \cup {i}
  /\ request' = [request EXCEPT ![a].at = IF a = Seed THEN "update" ELSE "answer",
                                ![a].hash = None]
  /\ UNCHANGED <<profile, seq, session, bounds, history>>

(* update_profile with the values of profile.yaml: scalar columns only.    *)
SeedUpdate ==
  /\ request[Seed].at = "update"
  /\ request[Seed].id \in profiles
  /\ Done(Seed)
  /\ UNCHANGED <<db, session, bounds, history>>

-----------------------------------------------------------------------------
(* Login, answers and logout.                                              *)

(* authenticate_member reads the row once and verifies what it has read;   *)
(* with no such row or another password the form only renders again.       *)
Login(c, s, p) ==
  /\ request[c] = Idle
  /\ \E i \in members :
       /\ email[i] = Norm[s] /\ hash[i] = p
       /\ request' = [request EXCEPT ![c] = [at |-> "answer", email |-> email[i], hash |-> None, id |-> i]]
  /\ UNCHANGED <<db, session, bounds, history>>

(* The redirect of register and login carries the new cookie.              *)
Answer(c) ==
  /\ request[c].at = "answer"
  /\ session' = [session EXCEPT ![c] = request[c].id]
  /\ shown' = [shown EXCEPT ![c] = request[c].email]
  /\ Done(c)
  /\ UNCHANGED <<db, bounds, refused, writer>>

AnswerLost(c) ==
  /\ Fault
  /\ request[c].at = "answer"
  /\ Done(c)
  /\ UNCHANGED <<db, session, forms, history>>

Logout(c) ==
  /\ request[c] = Idle /\ session[c] # 0
  /\ session' = [session EXCEPT ![c] = 0]
  /\ UNCHANGED <<db, request, bounds, history>>

-----------------------------------------------------------------------------
(* The profile forms, each one transaction on the row of the session.      *)

Edit(c, i) ==
  /\ Form
  /\ request[c] = Idle
  /\ i = session[c] /\ i \in profiles

(* Mutant: the step just done is stored, as if nobody went back.           *)
ProgressOfStep(i, step) == step

(* A step done again does not lower the progress.                          *)
Progress(i, step) == IF profile[i].step > step THEN profile[i].step ELSE step

(* Steps 1 and 2 store scalar columns no property looks at.                *)
OnboardScalars(c, i, step) ==
  /\ Edit(c, i)
  /\ profile' = [profile EXCEPT ![i].step = Progress(i, step)]
  /\ UNCHANGED <<members, email, hash, profiles, seq, request, session, faults, history>>

(* The rows of the form that name a region.                                *)
Kept(rows) == {k \in DOMAIN rows : rows[k] # Blank}

(* Mutant: rows without a region become part of the history.               *)
PastWithBlanks(rows) == {rows[k] : k \in DOMAIN rows}

(* Their regions, the member's history.                                    *)
Past(rows) == {rows[k] : k \in Kept(rows)}

(* Mutant: partners are stored as they were typed.                         *)
PartnersAsTyped(types, partners) == partners

(* Only a pre-newlywed member has partners.                                *)
Partners(types, partners) == IF "pre_newlywed" \in types THEN partners ELSE <<>>

(* Mutant: the region list is derived before the new history is set.       *)
Step3DerivedTooEarly(i, rows, types, partners) ==
  [step |-> Progress(i, 3), history |-> Past(rows), residence |-> profile[i].history,
   preferred |-> types, partners |-> Partners(types, partners)]

(* What update_profile makes of step 3: the region list is derived from    *)
(* the history in the same write.                                          *)
Step3(i, rows, types, partners) ==
  [step |-> Progress(i, 3), history |-> Past(rows), residence |-> Past(rows) \ {Blank},
   preferred |-> types, partners |-> Partners(types, partners)]

(* Step 3 refuses too many rows, and a pre-newlywed member without both    *)
(* partners' regions.                                                      *)
OnboardRegions(c, i, rows, types, partners) ==
  /\ Edit(c, i)
  /\ Cardinality(Kept(rows)) <= MaxRows
  /\ "pre_newlywed" \in types => \A b \in Both : partners[b] # Blank
  /\ profile' = [profile EXCEPT ![i] = Step3(i, rows, types, partners)]
  /\ writer' = [writer EXCEPT ![i] = "onboarding"]
  /\ UNCHANGED <<members, email, hash, profiles, seq, request, session, faults,
                 shown, refused>>

(* POST /profile has a region list of its own and knows no history.        *)
SaveProfile(c, i, regions) ==
  /\ Edit(c, i)
  /\ profile' = [profile EXCEPT ![i].residence = regions]
  /\ writer' = [writer EXCEPT ![i] = "form"]
  /\ UNCHANGED <<members, email, hash, profiles, seq, request, session, faults,
                 shown, refused>>

(* POST /profile/password: the current password, then the policy.          *)
ChangePassword(c, i, current, new) ==
  /\ Edit(c, i)
  /\ i \in members /\ hash[i] = current
  /\ new \in Good
  /\ hash' = [hash EXCEPT ![i] = new]
  /\ UNCHANGED <<members, email, profiles, profile, seq, request, session, faults, history>>

-----------------------------------------------------------------------------
(* The web server dies with every request and open transaction, and all    *)
(* the answers it owes; cookies stay with the browsers.                    *)
ServerDies ==
  /\ Fault
  /\ \E c \in Clients : request[c] # Idle
  /\ request' = [a \in Actors |-> IF a \in Clients THEN Idle ELSE request[a]]
  /\ UNCHANGED <<db, session, forms, history>>

SeedDies ==
  /\ Fault
  /\ request[Seed] # Idle
  /\ Done(Seed)
  /\ UNCHANGED <<db, session, forms, history>>

Rows == [1..MaxRows + 1 -> Regions \cup {Blank}]

(* A member's submission of a form it is logged in for.                    *)
SubmitForm(c) ==
  \E i \in Ids :
    \/ \E step \in {1, 2} : OnboardScalars(c, i, step)
    \/ \E rows \in Rows, types \in SUBSET Types, partners \in [Both -> Regions \cup {Blank}] :
         OnboardRegions(c, i, rows, types, partners)
    \/ \E regions \in SUBSET Regions : SaveProfile(c, i, regions)
    \/ \E current \in Passwords, new \in Passwords : ChangePassword(c, i, current, new)

Account(a) == LookAgain(a) \/ Insert(a) \/ Commit(a)

Visit(c) ==
  \/ \E s \in Spellings, p \in Passwords : Register(c, s, p) \/ Login(c, s, p)
  \/ Answer(c)
  \/ AnswerLost(c)
  \/ Logout(c)
  \/ SubmitForm(c)

Next ==
  \/ \E a \in Actors : Account(a)
  \/ \E c \in Clients : Visit(c)
  \/ \E s \in Spellings, p \in Passwords : RunSeed(s, p)
  \/ SeedUpdate
  \/ ServerDies
  \/ SeedDies

Spec == Init /\ [][Next]_vars

-----------------------------------------------------------------------------
(* Properties.                                                             *)

(* Whatever registrations and seed runs overlap, no two accounts have one  *)
(* address, however it was typed, and an account is never without its      *)
(* profile, which the forms and the dashboard take for granted             *)
(* (create_member: two looks, one constraint, one commit).                 *)
OneAccountPerAddress ==
  /\ \A i, j \in members : email[i] = email[j] => i = j
  /\ profiles = members

(* A cookie leads to the account of the address its browser gave, also     *)
(* when ids were used up by refused insertions and answers were lost       *)
(* (register_submit and login_submit put member.id into the session).      *)
CookieLeadsHome ==
  \A c \in Clients : session[c] # 0 =>
    session[c] \in members /\ email[session[c]] = shown[c]

(* Losing a race is the only way to an exception, and it happens to a      *)
(* process at most once per address: the next attempt finds the account    *)
(* and gets the clean answer, 409 or the script's "existing account"       *)
(* (register_submit and seed_member look before they create).              *)
RaceLostOnce == \A a \in Actors, e \in Emails : refused[a][e] <= 1

(* No racing registration, repeated seed run or lost answer replaces an    *)
(* account's password or address: only a password change of a browser that *)
(* proved the address does (create_member, seed_member, change_password).  *)
TakesNoAccountOver ==
  \A i \in members :
    /\ i \in members' /\ email'[i] = email[i]
    /\ hash'[i] # hash[i] => \E c \in Clients : session[c] = i /\ shown[c] = email[i]
AccountsAreKept == [][TakesNoAccountOver]_vars

(* Partners are stored for a pre-newlywed member only, and then both with  *)
(* a region, whatever order the steps, the profile form and the seed come  *)
(* in (OnboardingStep3, update_profile).                                   *)
PartnersMatchPreference ==
  \A i \in profiles :
    IF "pre_newlywed" \in profile[i].preferred
      THEN profile[i].partners \in [Both -> Regions]
      ELSE profile[i].partners = <<>>

(* Going back to an earlier step, or saving the profile form, never lowers *)
(* the progress that decides whether the banner is shown (O4).             *)
ProgressKept == \A i \in profiles : profile'[i].step >= profile[i].step
ProgressNeverFalls == [][ProgressKept]_vars

(* The region list the ranks read is the one its last writer meant: after  *)
(* the onboarding that of the residence history, even if it had been       *)
(* written by the profile form before (update_profile, D3).                *)
RegionsFollowHistory ==
  \A i \in profiles : writer[i] = "onboarding" => profile[i].residence = profile[i].history

(* The account of an address.                                              *)
AccountOf(e) == CHOOSE i \in members : email[i] = e

(* To its owner all this is one step per account, login and change: the    *)
(* looks, the insertion and the commit of a registration, whatever other   *)
(* registrations, seed runs, deaths and lost answers come in between, are  *)
(* the making of one account at the moment of the commit.                  *)
Promise == INSTANCE Accounts WITH
  Browsers <- Clients, Addresses <- Emails, Secrets <- Passwords, Acceptable <- Good,
  Nobody <- None,
  password <- [e \in Emails |-> IF Taken(e) THEN hash[AccountOf(e)] ELSE None],
  proof <- [c \in Clients |-> IF request[c].at = "answer" THEN request[c].email ELSE None],
  visitor <- [c \in Clients |-> IF session[c] = 0 THEN None ELSE email[session[c]]]
KeepsAccounts == Promise!Spec
=============================================================================
