----------------------- MODULE MerchantServiceProofs ------------------------
(***************************************************************************)
(* Proofs about MerchantService, for any sets of requests and emails, any  *)
(* workload and any faults.                                                *)
(***************************************************************************)
EXTENDS MerchantService, TLAPS

(* A request that has arrived has an input, and is at a stage of its       *)
(* operation.                                                              *)
StageInv ==
    \A r \in Id :
        /\ pc[r] = "idle" => input[r] = NoInput
        /\ pc[r] # "idle" => input[r] \in Input
        /\ pc[r] \in {"insert", "key"} => input[r].op = "register"
        /\ pc[r] \in {"find", "update"} => input[r].op \in {"register", "activate"}
        /\ pc[r] = "update" => input[r].op = "activate"
        /\ pc[r] \in {"findKey", "findMerchant"} => input[r].op = "authenticate"

(* A merchant was inserted by the registration whose identifier and email  *)
(* it has, which is past its insert.                                       *)
RowInv ==
    \A m \in DOMAIN merchants :
        /\ pc[m] \notin {"idle", "find", "insert"}
        /\ merchants[m].email = input[m].email

(* A key belongs to the merchant that the same registration inserted.      *)
KeyInv == \A k \in DOMAIN keys : keys[k] = k /\ k \in DOMAIN merchants

(* What a request has read or written stays so until it uses it.           *)
LocalInv ==
    \A r \in Id :
        /\ pc[r] = "key" => r \in DOMAIN merchants
        /\ pc[r] = "update" => /\ found[r] \in DOMAIN merchants
                               /\ merchants[found[r]].email = input[r].email
        /\ pc[r] = "findMerchant" => /\ input[r].key \in DOMAIN keys
                                     /\ keys[input[r].key] = found[r]

Inv ==
    /\ TypeOK /\ StageInv /\ RowInv /\ KeyInv /\ LocalInv
    /\ OneMerchantPerEmail /\ CredentialsWork /\ ActiveOnRequest
    /\ AuthenticatedAreActive

-----------------------------------------------------------------------------
(* What an input of each operation holds.                                  *)
LEMMA InputFacts ==
    ASSUME NEW i \in Input
    PROVE  /\ i.op \in {"register", "activate", "authenticate"}
           /\ i.op \in {"register", "activate"} => i.email \in Email /\ i.key = Nil
           /\ i.op = "authenticate" => i.email = Nil /\ i.key \in Id
  BY DEF Input

(* The error values that appear in the actions are errors of Domain.       *)
LEMMA ErrorFacts ==
    {"nil", "dbError", "ErrMerchantAlreadyExists", "gorm.ErrDuplicatedKey",
     "gorm.ErrRecordNotFound", "ErrMerchantStatusNotAccepted", "ErrInvalidApiKey",
     "ErrMerchantNotActive"} \subseteq Errors
  BY DEF Errors, NotFound, NotAcceptable, Unlisted

(* The merchants and keys after a step contain those before it, unchanged  *)
(* but for merchants that have become active.                              *)
LEMMA Growth ==
    ASSUME TypeOK, StageInv, RowInv, KeyInv, [Next]_vars
    PROVE  /\ \A m \in DOMAIN merchants :
                 /\ m \in DOMAIN merchants'
                 /\ merchants'[m].email = merchants[m].email
                 /\ merchants[m].status = "active" => merchants'[m].status = "active"
           /\ \A k \in DOMAIN keys : k \in DOMAIN keys' /\ keys'[k] = keys[k]
<1>1. ASSUME NEW r \in Id, createMerchant(r)
      PROVE  \A m \in DOMAIN merchants : m \in DOMAIN merchants' /\ merchants'[m] = merchants[m]
  <2>1. r \notin DOMAIN merchants
    BY <1>1 DEF createMerchant, RowInv
  <2> QED
    BY <1>1, <2>1 DEF createMerchant, Insert
<1>2. ASSUME NEW r \in Id, createAPIKey(r)
      PROVE  \A k \in DOMAIN keys : k \in DOMAIN keys' /\ keys'[k] = keys[k]
  BY <1>2 DEF createAPIKey, Insert, KeyInv
<1>3. ASSUME NEW r \in Id, updateActive(r)
      PROVE  \A m \in DOMAIN merchants :
                /\ m \in DOMAIN merchants'
                /\ merchants'[m].email = merchants[m].email
                /\ merchants[m].status = "active" => merchants'[m].status = "active"
  BY <1>3 DEF updateActive, Activated, TypeOK, MerchantRow
<1>4. CASE UNCHANGED <<merchants, keys>>
  BY <1>4
<1> QED
  BY <1>1, <1>2, <1>3, <1>4
     DEF Next, Handler, vars, Arrive, findExisting, createMerchant, createAPIKey, findPending,
         updateActive, findByHashedKey, findMerchant, crash, InFlight

(* TypeOK and StageInv.                                                    *)
LEMMA BasicStep ==
    ASSUME TypeOK, StageInv, [Next]_vars
    PROVE  TypeOK' /\ StageInv'
<1>0. /\ pc \in [Id -> Stage] /\ input \in [Id -> Input \cup {NoInput}]
      /\ found \in [Id -> Id \cup {Nil}] /\ out \in [Id -> Id \cup {Nil}]
      /\ err \in [Id -> Errors]
  BY DEF TypeOK
<1>1. ASSUME NEW r \in Id, Arrive(r)
      PROVE  TypeOK' /\ StageInv'
  <2>1. PICK i \in Workload[r] :
           /\ input' = [input EXCEPT ![r] = i]
           /\ Goto(r, IF i.op = "authenticate" THEN "findKey" ELSE "find")
    BY <1>1 DEF Arrive
  <2>2. i \in Input
    BY <2>1, WorkloadAssumption
  <2>3. TypeOK'
    BY <1>0, <1>1, <2>1, <2>2 DEF Arrive, Goto, Stage, TypeOK
  <2>4. StageInv'
    BY <1>0, <1>1, <2>1, <2>2, InputFacts DEF Arrive, Goto, StageInv
  <2> QED
    BY <2>3, <2>4
<1>2. ASSUME NEW r \in Id, findExisting(r)
      PROVE  TypeOK' /\ StageInv'
  BY <1>0, <1>2, ErrorFacts DEF findExisting, Return, Goto, Stage, TypeOK, StageInv
<1>3. ASSUME NEW r \in Id, createMerchant(r)
      PROVE  TypeOK' /\ StageInv'
  <2>1. PendingMerchant(r) \in MerchantRow
    BY <1>0, <1>3, InputFacts
       DEF createMerchant, StageInv, PendingMerchant, MerchantRow, MerchantStatus
  <2>2. DOMAIN merchants' \subseteq Id /\ \A m \in DOMAIN merchants' : merchants'[m] \in MerchantRow
    BY <1>3, <2>1 DEF createMerchant, Insert, TypeOK
  <2> QED
    BY <1>0, <1>3, <2>2, ErrorFacts DEF createMerchant, Return, Goto, Stage, TypeOK, StageInv
<1>4. ASSUME NEW r \in Id, createAPIKey(r)
      PROVE  TypeOK' /\ StageInv'
  <2>1. DOMAIN keys' \subseteq Id /\ \A k \in DOMAIN keys' : keys'[k] \in Id
    BY <1>4 DEF createAPIKey, Insert, TypeOK
  <2> QED
    BY <1>0, <1>4, <2>1, ErrorFacts
       DEF createAPIKey, KeyFailure, Return, Goto, Stage, TypeOK, StageInv
<1>5. ASSUME NEW r \in Id, findPending(r)
      PROVE  TypeOK' /\ StageInv'
  <2>1. \A m \in FindByEmail(input[r].email) : m \in Id
    BY DEF FindByEmail, TypeOK
  <2> QED
    BY <1>0, <1>5, <2>1, ErrorFacts DEF findPending, Return, Goto, Stage, TypeOK, StageInv
<1>6. ASSUME NEW r \in Id, updateActive(r)
      PROVE  TypeOK' /\ StageInv'
  <2>1. DOMAIN merchants' \subseteq Id /\ \A m \in DOMAIN merchants' : merchants'[m] \in MerchantRow
    BY <1>6 DEF updateActive, Activated, TypeOK, MerchantRow, MerchantStatus
  <2> QED
    BY <1>0, <1>6, <2>1, ErrorFacts DEF updateActive, Return, Goto, Stage, TypeOK, StageInv
<1>7. ASSUME NEW r \in Id, findByHashedKey(r)
      PROVE  TypeOK' /\ StageInv'
  BY <1>0, <1>7, ErrorFacts DEF findByHashedKey, Return, Goto, Stage, TypeOK, StageInv
<1>8. ASSUME NEW r \in Id, findMerchant(r)
      PROVE  TypeOK' /\ StageInv'
  BY <1>0, <1>8, ErrorFacts DEF findMerchant, AuthErr, Return, Goto, Stage, TypeOK, StageInv
<1>9. ASSUME crash
      PROVE  TypeOK' /\ StageInv'
  BY <1>0, <1>9 DEF crash, InFlight, Stage, TypeOK, StageInv
<1>10. CASE UNCHANGED vars
  BY <1>10 DEF vars, TypeOK, StageInv
<1> QED
  BY <1>1, <1>2, <1>3, <1>4, <1>5, <1>6, <1>7, <1>8, <1>9, <1>10 DEF Next, Handler
(* RowInv and KeyInv: rows are inserted by the request they are named for. *)
LEMMA TablesStep ==
    ASSUME TypeOK, StageInv, RowInv, KeyInv, LocalInv, [Next]_vars
    PROVE  RowInv' /\ KeyInv'
<1>0. pc \in [Id -> Stage] /\ input \in [Id -> Input \cup {NoInput}] /\ DOMAIN merchants \subseteq Id
  BY DEF TypeOK
<1>1. KeyInv'
  <2>1. \A m \in DOMAIN merchants : m \in DOMAIN merchants'
    BY Growth
  <2>2. ASSUME NEW r \in Id, createAPIKey(r)
        PROVE  KeyInv'
    BY <2>2 DEF createAPIKey, Insert, KeyInv, LocalInv
  <2>3. CASE UNCHANGED keys
    BY <2>1, <2>3 DEF KeyInv
  <2> QED
    BY <2>2, <2>3
       DEF Next, Handler, vars, Arrive, findExisting, createMerchant, createAPIKey, findPending,
           updateActive, findByHashedKey, findMerchant, crash, InFlight
<1>2. RowInv'
  <2>1. ASSUME NEW r \in Id, Arrive(r)
        PROVE  RowInv'
    BY <1>0, <2>1 DEF Arrive, Goto, RowInv
  <2>2. ASSUME NEW r \in Id, createMerchant(r)
        PROVE  RowInv'
    BY <1>0, <2>2 DEF createMerchant, Insert, PendingMerchant, Return, Goto, RowInv
  <2>3. ASSUME NEW r \in Id, updateActive(r)
        PROVE  RowInv'
    BY <1>0, <2>3 DEF updateActive, Activated, Return, Goto, RowInv, TypeOK, MerchantRow
  <2>4. ASSUME NEW r \in Id,
               \/ findExisting(r) \/ createAPIKey(r) \/ findPending(r)
               \/ findByHashedKey(r) \/ findMerchant(r)
        PROVE  RowInv'
    BY <1>0, <2>4
       DEF findExisting, createAPIKey, findPending, findByHashedKey, findMerchant, Return,
           Goto, RowInv
  <2>5. ASSUME crash
        PROVE  RowInv'
    BY <1>0, <2>5 DEF crash, InFlight, RowInv
  <2>6. CASE UNCHANGED vars
    BY <2>6 DEF vars, RowInv
  <2> QED
    BY <2>1, <2>2, <2>3, <2>4, <2>5, <2>6 DEF Next, Handler
<1> QED
  BY <1>1, <1>2

(* LocalInv: what a request has read is still there when it uses it.       *)
LEMMA LocalStep ==
    ASSUME TypeOK, StageInv, RowInv, KeyInv, LocalInv, [Next]_vars
    PROVE  LocalInv'
<1>0. /\ pc \in [Id -> Stage] /\ input \in [Id -> Input \cup {NoInput}]
      /\ found \in [Id -> Id \cup {Nil}]
  BY DEF TypeOK
<1> DEFINE Kept(s) ==
      /\ pc'[s] \in {"key", "update", "findMerchant"}
      /\ pc'[s] = pc[s] /\ input'[s] = input[s] /\ found'[s] = found[s]
<1> DEFINE LocalPart(s) ==
      /\ pc[s] = "key" => s \in DOMAIN merchants
      /\ pc[s] = "update" => /\ found[s] \in DOMAIN merchants
                             /\ merchants[found[s]].email = input[s].email
      /\ pc[s] = "findMerchant" => /\ input[s].key \in DOMAIN keys
                                   /\ keys[input[s].key] = found[s]
<1>1. ASSUME NEW s \in Id, Kept(s)
      PROVE  LocalPart(s)'
  BY <1>1, Growth DEF LocalInv
<1>2. ASSUME NEW s \in Id, pc'[s] \notin {"key", "update", "findMerchant"}
      PROVE  LocalPart(s)'
  BY <1>2
<1>3. ASSUME NEW s \in Id, createMerchant(s), pc'[s] = "key"
      PROVE  LocalPart(s)'
  BY <1>3 DEF createMerchant, Insert, Return, Goto, TypeOK
<1>4. ASSUME NEW s \in Id, findPending(s), pc'[s] = "update"
      PROVE  LocalPart(s)'
  BY <1>0, <1>4 DEF findPending, FindByEmail, Return, Goto
<1>5. ASSUME NEW s \in Id, findByHashedKey(s), pc'[s] = "findMerchant"
      PROVE  LocalPart(s)'
  BY <1>0, <1>5 DEF findByHashedKey, Return, Goto
<1>6. ASSUME NEW s \in Id
      PROVE  \/ Kept(s)
             \/ pc'[s] \notin {"key", "update", "findMerchant"}
             \/ createMerchant(s) /\ pc'[s] = "key"
             \/ findPending(s) /\ pc'[s] = "update"
             \/ findByHashedKey(s) /\ pc'[s] = "findMerchant"
  <2>1. ASSUME NEW r \in Id,
               \/ Arrive(r) \/ findExisting(r) \/ createAPIKey(r)
               \/ updateActive(r) \/ findMerchant(r)
        PROVE  Kept(s) \/ pc'[s] \notin {"key", "update", "findMerchant"}
    BY <1>0, <2>1
       DEF Arrive, findExisting, createAPIKey, updateActive, findMerchant, Return, Goto
  <2>2. ASSUME NEW r \in Id, createMerchant(r)
        PROVE  \/ Kept(s) \/ pc'[s] \notin {"key", "update", "findMerchant"}
               \/ createMerchant(s) /\ pc'[s] = "key"
    BY <1>0, <2>2 DEF createMerchant, Return, Goto
  <2>3. ASSUME NEW r \in Id, findPending(r)
        PROVE  \/ Kept(s) \/ pc'[s] \notin {"key", "update", "findMerchant"}
               \/ findPending(s) /\ pc'[s] = "update"
    BY <1>0, <2>3 DEF findPending, Return, Goto
  <2>4. ASSUME NEW r \in Id, findByHashedKey(r)
        PROVE  \/ Kept(s) \/ pc'[s] \notin {"key", "update", "findMerchant"}
               \/ findByHashedKey(s) /\ pc'[s] = "findMerchant"
    BY <1>0, <2>4 DEF findByHashedKey, Return, Goto
  <2>5. CASE crash \/ UNCHANGED vars
    BY <1>0, <2>5 DEF crash, InFlight, vars
  <2> QED
    BY <2>1, <2>2, <2>3, <2>4, <2>5 DEF Next, Handler
<1>7. \A s \in Id : LocalPart(s)'
  BY <1>1, <1>2, <1>3, <1>4, <1>5, <1>6
<1> QED
  BY <1>7 DEF LocalInv
(* OneMerchantPerEmail: the UNIQUE column guards the only step that adds a *)
(* row, and no step changes an email.                                      *)
LEMMA UniqueStep ==
    ASSUME TypeOK, OneMerchantPerEmail, [Next]_vars
    PROVE  OneMerchantPerEmail'
<1>1. ASSUME NEW r \in Id, createMerchant(r)
      PROVE  OneMerchantPerEmail'
  BY <1>1
     DEF createMerchant, EmailTaken, FindByEmail, PendingMerchant, Insert, OneMerchantPerEmail
<1>2. ASSUME NEW r \in Id, updateActive(r)
      PROVE  OneMerchantPerEmail'
  BY <1>2 DEF updateActive, Activated, OneMerchantPerEmail, TypeOK, MerchantRow
<1>3. CASE UNCHANGED merchants
  BY <1>3 DEF OneMerchantPerEmail
<1> QED
  BY <1>1, <1>2, <1>3
     DEF Next, Handler, vars, Arrive, findExisting, createMerchant, createAPIKey, findPending,
         updateActive, findByHashedKey, findMerchant, crash, InFlight

(* ActiveOnRequest: the row that is activated has the email the request    *)
(* looked for, and the input of a request that has arrived never changes.  *)
LEMMA ActiveStep ==
    ASSUME TypeOK, StageInv, LocalInv, ActiveOnRequest, [Next]_vars
    PROVE  ActiveOnRequest'
<1>0. pc \in [Id -> Stage] /\ input \in [Id -> Input \cup {NoInput}]
  BY DEF TypeOK
<1>1. \A r \in Id : input[r].op = "activate" => input'[r] = input[r]
  <2>1. \A r \in Id : input[r].op = "activate" => pc[r] # "idle"
    BY DEF StageInv, NoInput
  <2> QED
    BY <1>0, <2>1
       DEF Next, Handler, vars, Arrive, findExisting, createMerchant, createAPIKey, findPending,
           updateActive, findByHashedKey, findMerchant, crash, InFlight
<1>2. ASSUME NEW r \in Id, createMerchant(r)
      PROVE  ActiveOnRequest'
  BY <1>1, <1>2 DEF createMerchant, PendingMerchant, Insert, ActiveOnRequest
<1>3. ASSUME NEW r \in Id, updateActive(r)
      PROVE  ActiveOnRequest'
  <2>1. /\ input[r].op = "activate"
        /\ merchants[found[r]].email = input[r].email
    BY <1>3 DEF updateActive, StageInv, LocalInv
  <2> QED
    BY <1>1, <1>3, <2>1 DEF updateActive, Activated, ActiveOnRequest, TypeOK, MerchantRow
<1>4. CASE UNCHANGED merchants
  BY <1>1, <1>4 DEF ActiveOnRequest
<1> QED
  BY <1>2, <1>3, <1>4
     DEF Next, Handler, vars, Arrive, findExisting, createMerchant, createAPIKey, findPending,
         updateActive, findByHashedKey, findMerchant, crash, InFlight

(* CredentialsWork and AuthenticatedAreActive: an answer is true when it   *)
(* is given, and stays true.                                               *)
LEMMA AnswersStep ==
    ASSUME TypeOK, StageInv, RowInv, KeyInv, LocalInv, CredentialsWork,
           AuthenticatedAreActive, [Next]_vars
    PROVE  CredentialsWork' /\ AuthenticatedAreActive'
<1>0. /\ pc \in [Id -> Stage] /\ input \in [Id -> Input \cup {NoInput}]
      /\ out \in [Id -> Id \cup {Nil}] /\ err \in [Id -> Errors]
  BY DEF TypeOK
<1> DEFINE Success(s) == Answered(s) /\ err[s] = "nil" /\ input[s].op # "activate"
<1> DEFINE Kept(s) ==
      /\ Success(s)
      /\ input'[s] = input[s] /\ out'[s] = out[s]
<1>1. ASSUME NEW s \in Id, Success(s)'
      PROVE  \/ Kept(s)
             \/ createAPIKey(s) /\ input'[s] = input[s]
             \/ findMerchant(s) /\ input'[s] = input[s] /\ AuthErr(merchants[found[s]]) = "nil"
                /\ found[s] \in DOMAIN merchants /\ out'[s] = found[s]
  <2>1. ASSUME NEW r \in Id, Arrive(r)
        PROVE  Kept(s)
    BY <1>0, <1>1, <2>1 DEF Arrive, Goto, Answered
  <2>2. ASSUME NEW r \in Id, findExisting(r) \/ createMerchant(r)
        PROVE  Kept(s)
    BY <1>0, <1>1, <2>2 DEF findExisting, createMerchant, Return, Goto, Answered
  <2>3. ASSUME NEW r \in Id, createAPIKey(r)
        PROVE  Kept(s) \/ (createAPIKey(s) /\ input'[s] = input[s])
    BY <1>0, <1>1, <2>3 DEF createAPIKey, Return, Goto, Answered
  <2>4. ASSUME NEW r \in Id, findPending(r)
        PROVE  Kept(s)
    BY <1>0, <1>1, <2>4 DEF findPending, Return, Goto, Answered
  <2>5. ASSUME NEW r \in Id, updateActive(r)
        PROVE  Kept(s)
    BY <1>0, <1>1, <2>5 DEF updateActive, Return, Goto, Answered, StageInv
  <2>6. ASSUME NEW r \in Id, findByHashedKey(r)
        PROVE  Kept(s)
    BY <1>0, <1>1, <2>6 DEF findByHashedKey, Return, Goto, Answered
  <2>7. ASSUME NEW r \in Id, findMerchant(r)
        PROVE  \/ Kept(s)
               \/ findMerchant(s) /\ input'[s] = input[s] /\ AuthErr(merchants[found[s]]) = "nil"
                  /\ found[s] \in DOMAIN merchants /\ out'[s] = found[s]
    BY <1>0, <1>1, <2>7 DEF findMerchant, Return, Goto, Answered
  <2>8. CASE crash \/ UNCHANGED vars
    BY <1>0, <1>1, <2>8 DEF crash, InFlight, vars, Answered
  <2> QED
    BY <2>1, <2>2, <2>3, <2>4, <2>5, <2>6, <2>7, <2>8 DEF Next, Handler
<1>2. CredentialsWork'
  <2> SUFFICES ASSUME NEW s \in Id, Success(s)', input'[s].op = "register"
               PROVE  /\ s \in DOMAIN keys'
                      /\ keys'[s] \in DOMAIN merchants'
                      /\ merchants'[keys'[s]].email = input'[s].email
    BY DEF CredentialsWork, Answered
  <2>1. CASE Kept(s)
    BY <2>1, Growth DEF CredentialsWork, Answered
  <2>2. CASE createAPIKey(s) /\ input'[s] = input[s]
    <3>1. s \in DOMAIN merchants /\ merchants[s].email = input[s].email
      BY <2>2 DEF createAPIKey, LocalInv, RowInv
    <3>2. keys' = Insert(keys, s, s)
      BY <1>0, <2>2 DEF createAPIKey, KeyFailure, Return, Answered
    <3> QED
      BY <2>2, <3>1, <3>2 DEF createAPIKey, Insert
  <2>3. CASE findMerchant(s) /\ input'[s] = input[s]
    BY <2>3 DEF findMerchant, StageInv
  <2> QED
    BY <1>1, <2>1, <2>2, <2>3
<1>3. AuthenticatedAreActive'
  <2> SUFFICES ASSUME NEW s \in Id, Success(s)', input'[s].op = "authenticate"
               PROVE  /\ input'[s].key \in DOMAIN keys'
                      /\ keys'[input'[s].key] = out'[s]
                      /\ out'[s] \in DOMAIN merchants'
                      /\ merchants'[out'[s]].status = "active"
    BY DEF AuthenticatedAreActive, Answered
  <2>1. CASE Kept(s)
    BY <2>1, Growth DEF AuthenticatedAreActive, Answered
  <2>2. CASE createAPIKey(s) /\ input'[s] = input[s]
    BY <2>2 DEF createAPIKey, StageInv
  <2>3. CASE findMerchant(s) /\ input'[s] = input[s] /\ AuthErr(merchants[found[s]]) = "nil"
             /\ found[s] \in DOMAIN merchants /\ out'[s] = found[s]
    BY <2>3 DEF findMerchant, AuthErr, LocalInv
  <2> QED
    BY <1>1, <2>1, <2>2, <2>3
<1> QED
  BY <1>2, <1>3

(* The invariant holds in every reachable state.                           *)
LEMMA Invariance == Spec => []Inv
<1>1. Init => Inv
  BY DEF Init, Inv, TypeOK, StageInv, RowInv, KeyInv, LocalInv, OneMerchantPerEmail,
         CredentialsWork, ActiveOnRequest, AuthenticatedAreActive, Answered, Stage, NoInput,
         Errors
<1>2. Inv /\ [Next]_vars => Inv'
  BY BasicStep, TablesStep, LocalStep, UniqueStep, ActiveStep, AnswersStep DEF Inv
<1> QED
  BY <1>1, <1>2, PTL DEF Spec

(* TypeOK, the type invariant of the merchant service and its tables.      *)
THEOREM MerchantTypeCorrect == Spec => []TypeOK
<1>1. Inv => TypeOK
  BY DEF Inv
<1> QED
  BY <1>1, Invariance, PTL

(* OneMerchantPerEmail, for any number of concurrent registrations,        *)
(* failing statements and crashes: Register's look-up and its insert are   *)
(* separate statements, and the UNIQUE column makes up for it.             *)
THEOREM UniqueEmail == Spec => []OneMerchantPerEmail
<1>1. Inv => OneMerchantPerEmail
  BY DEF Inv
<1> QED
  BY <1>1, Invariance, PTL

(* CredentialsWork: a secret that Register has handed out leads to the     *)
(* merchant it was handed out for, for ever.                               *)
THEOREM CredentialsHold == Spec => []CredentialsWork
<1>1. Inv => CredentialsWork
  BY DEF Inv
<1> QED
  BY <1>1, Invariance, PTL

(* ActiveOnRequest: no merchant is activated on behalf of another email.   *)
THEOREM ActivationAsked == Spec => []ActiveOnRequest
<1>1. Inv => ActiveOnRequest
  BY DEF Inv
<1> QED
  BY <1>1, Invariance, PTL

(* AuthenticatedAreActive: ValidateAPIKey lets a key in as the merchant it *)
(* was issued to only, who is active then and stays so.                    *)
THEOREM AuthenticationIsSound == Spec => []AuthenticatedAreActive
<1>1. Inv => AuthenticatedAreActive
  BY DEF Inv
<1> QED
  BY <1>1, Invariance, PTL

-----------------------------------------------------------------------------
(* MerchantService implements Accounts.                                    *)

(* A key is stored by the last statement of its registration.              *)
KeyFresh == \A k \in DOMAIN keys : pc[k] \in {"done", "crashed"}

LEMMA KeyFreshStep ==
    ASSUME TypeOK, KeyFresh, [Next]_vars
    PROVE  KeyFresh'
<1>0. pc \in [Id -> Stage] /\ DOMAIN keys \subseteq Id
  BY DEF TypeOK
<1>1. ASSUME NEW r \in Id, createAPIKey(r)
      PROVE  KeyFresh'
  BY <1>0, <1>1 DEF createAPIKey, Insert, Return, Goto, KeyFresh
<1>2. ASSUME NEW r \in Id, Arrive(r) \/ (Handler(r) /\ ~createAPIKey(r))
      PROVE  KeyFresh'
  BY <1>0, <1>2 DEF Arrive, Handler, findExisting, createMerchant, findPending, updateActive,
                    findByHashedKey, findMerchant, Return, Goto, KeyFresh
<1>3. CASE crash
  BY <1>0, <1>3 DEF crash, InFlight, KeyFresh
<1>4. CASE UNCHANGED vars
  BY <1>4 DEF vars, KeyFresh
<1> QED
  BY <1>1, <1>2, <1>3, <1>4 DEF Next

(* What Accounts sees of the tables and of the answers.                    *)
emails == [m \in DOMAIN merchants |-> merchants[m].email]

actives == {m \in DOMAIN merchants : merchants[m].status = "active"}

admissions == {<<input[r].key, out[r]>> : r \in LetIn}

(* A step of one request leaves the others as they are.                    *)
LEMMA OthersKept ==
    ASSUME TypeOK, NEW r \in Id, Handler(r), NEW s \in Id, s # r
    PROVE  pc'[s] = pc[s] /\ input'[s] = input[s] /\ err'[s] = err[s] /\ out'[s] = out[s]
<1>0. pc \in [Id -> Stage] /\ err \in [Id -> Errors] /\ out \in [Id -> Id \cup {Nil}]
  BY DEF TypeOK
<1> QED
  BY <1>0 DEF Handler, findExisting, createMerchant, createAPIKey, findPending,
              updateActive, findByHashedKey, findMerchant, Return, Goto

(* A step of a request adds at most its own success, and only two kinds of *)
(* step do.                                                                *)
LEMMA Replies ==
    ASSUME TypeOK, StageInv, NEW r \in Id, Handler(r)
    PROVE  /\ Credited' = IF r \in Credited' THEN Credited \cup {r} ELSE Credited
           /\ admissions' = IF r \in LetIn' THEN admissions \cup {<<input[r].key, out'[r]>>}
                            ELSE admissions
           /\ r \in Credited' => createAPIKey(r)
           /\ r \in LetIn' => findMerchant(r)
<1>0. pc \in [Id -> Stage] /\ err \in [Id -> Errors] /\ out \in [Id -> Id \cup {Nil}]
  BY DEF TypeOK
<1>1. pc[r] # "done" /\ input' = input
  BY DEF Handler, findExisting, createMerchant, createAPIKey, findPending, updateActive,
         findByHashedKey, findMerchant
<1>2. r \notin Credited /\ r \notin LetIn
  BY <1>1 DEF Credited, LetIn, Answered
<1>3. \A s \in Id \ {r} : /\ s \in Credited' <=> s \in Credited
                          /\ s \in LetIn' <=> s \in LetIn
                          /\ input'[s].key = input[s].key /\ out'[s] = out[s]
  BY OthersKept DEF Credited, LetIn, Answered
<1>4. Credited' = IF r \in Credited' THEN Credited \cup {r} ELSE Credited
  BY <1>2, <1>3 DEF Credited
<1>5. admissions' = IF r \in LetIn' THEN admissions \cup {<<input[r].key, out'[r]>>}
                    ELSE admissions
  <2>1. LetIn \subseteq Id \ {r} /\ LetIn' = IF r \in LetIn' THEN LetIn \cup {r} ELSE LetIn
    BY <1>2, <1>3 DEF LetIn
  <2>2. \A s \in LetIn : <<input'[s].key, out'[s]>> = <<input[s].key, out[s]>>
    BY <1>3, <2>1
  <2>3. <<input'[r].key, out'[r]>> = <<input[r].key, out'[r]>>
    BY <1>1
  <2>4. admissions' = {<<input'[s].key, out'[s]>> : s \in LetIn'}
    BY DEF admissions
  <2>5. CASE r \in LetIn'
    BY <2>1, <2>2, <2>3, <2>4, <2>5 DEF admissions
  <2>6. CASE r \notin LetIn'
    BY <2>1, <2>2, <2>4, <2>6 DEF admissions
  <2> QED
    BY <2>5, <2>6
<1>6. r \in Credited' => createAPIKey(r)
  BY <1>0 DEF Credited, Answered, StageInv, Handler, findExisting, createMerchant, findPending,
              updateActive, findByHashedKey, findMerchant, Return, Goto
<1>7. r \in LetIn' => findMerchant(r)
  BY <1>0 DEF LetIn, Answered, StageInv, Handler, findExisting, createMerchant, createAPIKey,
              findPending, updateActive, findByHashedKey, Return, Goto
<1> QED
  BY <1>4, <1>5, <1>6, <1>7

(* What every step is to Accounts.                                         *)
LEMMA DirectoryStep ==
    Inv /\ KeyFresh /\ [Next]_vars =>
        [Directory!Next]_<<emails, actives, keys, Credited, admissions>>
<1> SUFFICES ASSUME Inv, KeyFresh, [Next]_vars
             PROVE  \/ Directory!Next
                    \/ UNCHANGED <<emails, actives, keys, Credited, admissions>>
  OBVIOUS
<1>0. /\ TypeOK /\ StageInv /\ RowInv /\ LocalInv /\ DOMAIN merchants \subseteq Id
      /\ pc \in [Id -> Stage] /\ input \in [Id -> Input \cup {NoInput}]
      /\ out \in [Id -> Id \cup {Nil}] /\ err \in [Id -> Errors]
  BY DEF Inv, TypeOK
<1>1. ASSUME NEW r \in Id, createMerchant(r)
      PROVE  \/ Directory!Next
             \/ UNCHANGED <<emails, actives, keys, Credited, admissions>>
  <2>1. UNCHANGED <<keys, Credited, admissions>>
    <3>1. Handler(r) /\ ~createAPIKey(r) /\ ~findMerchant(r)
      BY <1>1 DEF Handler, createMerchant, createAPIKey, findMerchant
    <3> QED
      BY <1>0, <1>1, <3>1, Replies DEF createMerchant
  <2>2. CASE merchants' = merchants
    BY <2>1, <2>2 DEF emails, actives
  <2>3. CASE ~EmailTaken(input[r].email) /\ merchants' = Insert(merchants, r, PendingMerchant(r))
    <3>1. r \notin DOMAIN merchants /\ input[r].email \in Email
      BY <1>0, <1>1, InputFacts DEF createMerchant, RowInv, StageInv
    <3>2. /\ DOMAIN merchants' = DOMAIN merchants \cup {r}
          /\ merchants'[r] = PendingMerchant(r)
          /\ \A m \in DOMAIN merchants : merchants'[m] = merchants[m]
      BY <2>3, <3>1 DEF Insert
    <3>3. actives' = actives
      BY <3>1, <3>2 DEF actives, PendingMerchant
    <3>4. /\ r \notin DOMAIN emails
          /\ \A b \in DOMAIN emails : emails[b] # input[r].email
      BY <2>3, <3>1 DEF emails, EmailTaken, FindByEmail
    <3>5. emails' = [b \in DOMAIN emails \cup {r} |->
                       IF b = r THEN input[r].email ELSE emails[b]]
      BY <3>1, <3>2 DEF emails, PendingMerchant
    <3>6. Directory!Open(r, input[r].email)
      BY <2>1, <3>3, <3>4, <3>5 DEF Directory!Open, emails, actives, admissions
    <3> QED
      BY <3>1, <3>6 DEF Directory!Next, Directory!Open
  <2> QED
    BY <1>1, <2>2, <2>3 DEF createMerchant
<1>2. ASSUME NEW r \in Id, createAPIKey(r)
      PROVE  \/ Directory!Next
             \/ UNCHANGED <<emails, actives, keys, Credited, admissions>>
  <2>1. Handler(r) /\ ~findMerchant(r) /\ merchants' = merchants
    BY <1>2 DEF Handler, createAPIKey, findMerchant
  <2>2. /\ UNCHANGED <<emails, actives, admissions>>
        /\ Credited' \in {Credited, Credited \cup {r}}
    BY <1>0, <2>1, Replies DEF emails, actives
  <2>3. r \notin DOMAIN keys /\ r \in DOMAIN merchants
    BY <1>0, <1>2 DEF createAPIKey, KeyFresh, LocalInv
  <2>4. CASE keys' = Insert(keys, r, r)
    <3>1. Directory!Issue(r, r)
      BY <2>2, <2>3, <2>4 DEF Directory!Issue, Insert, emails, actives, admissions
    <3> QED
      BY <3>1 DEF Directory!Next
  <2>5. CASE keys' = keys
    <3>1. err'[r] = "dbError"
      <4>1. keys' # Insert(keys, r, r)
        BY <2>3, <2>5 DEF Insert
      <4> QED
        BY <1>0, <1>2, <4>1 DEF createAPIKey, Return, KeyFailure
    <3>2. r \notin Credited'
      BY <3>1 DEF Credited
    <3> QED
      BY <1>0, <2>1, <2>2, <2>5, <3>2, Replies
  <2> QED
    BY <1>2, <2>4, <2>5 DEF createAPIKey
<1>3. ASSUME NEW r \in Id, updateActive(r)
      PROVE  \/ Directory!Next
             \/ UNCHANGED <<emails, actives, keys, Credited, admissions>>
  <2>1. UNCHANGED <<keys, Credited, admissions>>
    <3>1. Handler(r) /\ ~createAPIKey(r) /\ ~findMerchant(r)
      BY <1>3 DEF Handler, updateActive, createAPIKey, findMerchant
    <3> QED
      BY <1>0, <1>3, <3>1, Replies DEF updateActive
  <2>2. CASE merchants' = merchants
    BY <2>1, <2>2 DEF emails, actives
  <2>3. CASE merchants' = Activated(found[r])
    <3>1. found[r] \in DOMAIN merchants /\ found[r] \in Id
      BY <1>0, <1>3 DEF updateActive, LocalInv
    <3>2. /\ DOMAIN merchants' = DOMAIN merchants
          /\ \A m \in DOMAIN merchants :
                /\ merchants'[m].email = merchants[m].email
                /\ merchants'[m].status = IF m = found[r] THEN "active" ELSE merchants[m].status
      BY <1>0, <2>3 DEF Activated, TypeOK, MerchantRow
    <3>3. emails' = emails /\ actives' = actives \cup {found[r]}
      BY <3>1, <3>2 DEF emails, actives
    <3>4. Directory!Activate(found[r])
      BY <2>1, <3>1, <3>3 DEF Directory!Activate, emails, actives, admissions
    <3> QED
      BY <3>1, <3>4 DEF Directory!Next, Directory!Activate
  <2> QED
    BY <1>3, <2>2, <2>3 DEF updateActive
<1>4. ASSUME NEW r \in Id, findMerchant(r)
      PROVE  \/ Directory!Next
             \/ UNCHANGED <<emails, actives, keys, Credited, admissions>>
  <2>1. Handler(r) /\ ~createAPIKey(r) /\ UNCHANGED <<merchants, keys>>
    BY <1>4 DEF Handler, createAPIKey, findMerchant
  <2>2. UNCHANGED <<emails, actives, keys, Credited>>
    BY <1>0, <2>1, Replies DEF emails, actives
  <2>3. CASE r \notin LetIn'
    BY <1>0, <2>1, <2>2, <2>3, Replies
  <2>4. CASE r \in LetIn'
    <3>1. admissions' = admissions \cup {<<input[r].key, out'[r]>>}
      BY <1>0, <2>1, <2>4, Replies
    <3>2. err'[r] = "nil"
      BY <2>4 DEF LetIn
    <3>3. /\ found[r] \in DOMAIN merchants /\ merchants[found[r]].status = "active"
          /\ out'[r] = found[r]
      BY <1>0, <1>4, <3>2 DEF findMerchant, Return, AuthErr
    <3>4. input[r].key \in DOMAIN keys /\ keys[input[r].key] = found[r] /\ input[r].key \in Id
      BY <1>0, <1>4, InputFacts DEF findMerchant, LocalInv, StageInv
    <3>5. Directory!Admit(input[r].key)
      BY <2>2, <3>1, <3>3, <3>4 DEF Directory!Admit, emails, actives, admissions
    <3> QED
      BY <3>4, <3>5 DEF Directory!Next, Directory!Admit
  <2> QED
    BY <2>3, <2>4
<1>5. ASSUME NEW r \in Id, findExisting(r) \/ findPending(r) \/ findByHashedKey(r)
      PROVE  UNCHANGED <<emails, actives, keys, Credited, admissions>>
  <2>1. /\ Handler(r) /\ ~createAPIKey(r) /\ ~findMerchant(r)
        /\ UNCHANGED <<merchants, keys>>
    BY <1>5 DEF Handler, findExisting, findPending, findByHashedKey, createAPIKey, findMerchant
  <2> QED
    BY <1>0, <2>1, Replies DEF emails, actives
<1>6. ASSUME UNCHANGED <<merchants, keys, out, err>>,
             \A s \in Id : /\ pc'[s] = "done" <=> pc[s] = "done"
                           /\ pc[s] = "done" => input'[s] = input[s]
      PROVE  UNCHANGED <<emails, actives, keys, Credited, admissions>>
  <2>1. LetIn' = LetIn /\ Credited' = Credited
    BY <1>6 DEF LetIn, Credited, Answered
  <2>2. \A s \in LetIn : <<input'[s].key, out'[s]>> = <<input[s].key, out[s]>>
    BY <1>6 DEF LetIn, Answered
  <2>3. admissions' = {<<input'[s].key, out'[s]>> : s \in LetIn'}
    BY DEF admissions
  <2>4. admissions' = admissions
    BY <2>1, <2>2, <2>3 DEF admissions
  <2> QED
    BY <1>6, <2>1, <2>4 DEF emails, actives
<1>7. ASSUME NEW r \in Id, Arrive(r)
      PROVE  UNCHANGED <<emails, actives, keys, Credited, admissions>>
  BY <1>0, <1>6, <1>7 DEF Arrive, Goto
<1>8. CASE crash
  BY <1>0, <1>6, <1>8 DEF crash, InFlight
<1>9. CASE UNCHANGED vars
  BY <1>6, <1>9 DEF vars
<1> QED
  BY <1>1, <1>2, <1>3, <1>4, <1>5, <1>7, <1>8, <1>9 DEF Next, Handler

(* The merchant service implements Accounts, for every workload and every  *)
(* fault: what registrations, activations and API keys get to see is what  *)
(* they would see if each were a single statement.                         *)
THEOREM ImplementsAccounts == Spec => AccountsSpec
<1>1. Init => Directory!Init /\ KeyFresh
  BY DEF Init, Directory!Init, KeyFresh, Credited, LetIn, Answered
<1>2. TypeOK /\ KeyFresh /\ [Next]_vars => KeyFresh'
  BY KeyFreshStep
<1>3. Inv => TypeOK
  BY DEF Inv
<1>4. Inv /\ KeyFresh /\ [Next]_vars =>
        [Directory!Next]_<<emails, actives, keys, Credited, admissions>>
  BY DirectoryStep
<1> QED
  BY <1>1, <1>2, <1>3, <1>4, Invariance, PTL
     DEF Spec, AccountsSpec, Directory!Spec, emails, actives, admissions
=============================================================================
