----------------------------- MODULE AccessProofs -----------------------------
(* What every behaviour of sessions, accounts and listings maintains, however *)
(* its requests interleave, whoever is edited and whatever Redis does: types, *)
(* what a request has loaded, and the promises about tokens and accounts.     *)
EXTENDS AccessInvariants, FiniteSetTheorems, TLAPS

-----------------------------------------------------------------------------
(* Facts about the data.                                                     *)

LEMMA WholeSeconds ==
  ASSUME NEW n \in Int
  PROVE  /\ n \div Second \in Int
         /\ (n \div Second) * Second <= n
         /\ n < (n \div Second) * Second + Second
  BY SessionAssumption DEF SessionAssumption

LEMMA SentCalls ==
  ASSUME NEW c \in Calls
  PROVE  c \in Call /\ WellFormed(c)
  BY SessionAssumption DEF SessionAssumption

(* The field of an account, by its name.                                     *)
LEMMA AccountFields ==
  ASSUME NEW a \in Account
  PROVE  /\ a \in [Fields -> UNION {Email, Roles, Standings}]
         /\ a["email"] = a.email /\ a["role"] = a.role /\ a["status"] = a.status
         /\ a.email \in Email /\ a.role \in Roles /\ a.status \in Standings /\ a # None
  BY SessionAssumption DEF Account, Fields, SessionAssumption

LEMMA NormalAddress ==
  ASSUME NEW e \in Email
  PROVE  Normal(e) \in Email /\ ~Normal(e).sloppy /\ (~e.sloppy => Normal(e) = e)
  BY DEF Email, Normal

(* What an update writes, and what it leaves as it stands in the table.      *)
LEMMA WrittenAccount ==
  ASSUME NEW r \in Requests, call[r] \in Call, copy[r] \in Account,
         users[call[r].target] \in Account
  PROVE  /\ Written(r) \in Account
         /\ Written(r).email # users[call[r].target].email =>
              call[r].patch.email # None /\ Written(r).email = Address(r)
         /\ Written(r).role # users[call[r].target].role =>
              call[r].patch.role # None /\ Written(r).role = call[r].patch.role
         /\ Written(r).status # users[call[r].target].status =>
              call[r].patch.status # None /\ Written(r).status = call[r].patch.status
<1> DEFINE was == users[call[r].target]
           p == call[r].patch
<1>1. /\ p.email # None => Address(r) \in Email
      /\ p.email \in Email \cup {None} /\ p.role \in Roles \cup {None}
      /\ p.status \in Standings \cup {None}
      /\ p["email"] = p.email /\ p["role"] = p.role /\ p["status"] = p.status
  BY NormalAddress DEF Call, Patch, Address
<1>2. /\ Wanted(r)["email"] = IF p.email = None THEN copy[r].email ELSE Address(r)
      /\ Wanted(r)["role"] = IF p.role = None THEN copy[r].role ELSE p.role
      /\ Wanted(r)["status"] = IF p.status = None THEN copy[r].status ELSE p.status
  BY <1>1, AccountFields DEF Wanted, Fields
<1>3. /\ Written(r).email = IF Wanted(r)["email"] # copy[r].email THEN Wanted(r)["email"] ELSE was.email
      /\ Written(r).role = IF Wanted(r)["role"] # copy[r].role THEN Wanted(r)["role"] ELSE was.role
      /\ Written(r).status = IF Wanted(r)["status"] # copy[r].status THEN Wanted(r)["status"] ELSE was.status
      /\ Written(r) = [email |-> Written(r).email, role |-> Written(r).role, status |-> Written(r).status]
  BY AccountFields DEF Written, AsAccount, Changed, Fields
<1>4. Written(r) \in Account
  BY <1>1, <1>2, <1>3, AccountFields DEF Account
<1>5. /\ Written(r).email # was.email =>
              p.email # None /\ Written(r).email = Address(r)
      /\ Written(r).role # was.role =>
              p.role # None /\ Written(r).role = p.role
      /\ Written(r).status # was.status =>
              p.status # None /\ Written(r).status = p.status
  BY <1>2, <1>3
<1> QED BY <1>4, <1>5

(* What a creation writes.                                                   *)
LEMMA CreatedAccount ==
  ASSUME NEW r \in Requests, call[r] \in Call, WellFormed(call[r]), call[r].kind = "create"
  PROVE  /\ Created(r) \in Account /\ Created(r).email = Address(r)
         /\ Address(r) \in Email /\ ~Address(r).sloppy
  BY SessionAssumption, NormalAddress
  DEF Call, WellFormed, Patch, Created, AsAccount, Account, Address, SessionAssumption

(* A listing's columns after a save.                                         *)
LEMMA ReplacementListing ==
  ASSUME TypeOK, NEW r \in Requests, WellFormed(call[r]),
         call[r].kind \in {"list", "replace", "deactivate"},
         call[r].kind = "deactivate" => row[r] # None
  PROVE  /\ Replacement(r) \in Listing
         /\ call[r].kind = "deactivate" => Replacement(r).agent_id = row[r].agent_id
         /\ call[r].kind # "deactivate" => Replacement(r).agent_id = owner[r]
<1>1. /\ call[r].body \in Body /\ owner[r] \in Users \cup {None}
      /\ row[r] \in Listing \cup {None}
  BY DEF TypeOK, SessionTypeOK, Call
<1>2. CASE call[r].kind = "deactivate"
  BY <1>1, <1>2 DEF Replacement, Listing, ListingStatuses
<1>3. CASE call[r].kind \in {"list", "replace"}
  BY <1>1, <1>3 DEF Replacement, Listing, WellFormed, Body
<1> QED BY <1>2, <1>3

LEMMA SavedListing ==
  ASSUME NEW r \in Requests, NEW p, p = call[r].about,
         row[r] \in Listing, listings[p] \in Listing, Replacement(r) \in Listing
  PROVE  /\ Saved(r) \in Listing
         /\ Saved(r).agent_id = IF Replacement(r).agent_id # row[r].agent_id
                                THEN Replacement(r).agent_id ELSE listings[p].agent_id
  BY DEF Saved, Listing

-----------------------------------------------------------------------------
(* Type correctness, and what a request has loaded.                          *)

LEMMA InitTypeOK == Init => TypeOK
<1> SUFFICES ASSUME Init PROVE TypeOK
  OBVIOUS
<1>1. /\ Life * Second \in Times /\ 0 \in Times /\ 0 \in 0..MaxTime
      /\ NoCall \in Call
      /\ 0 \in 0..Cardinality(Properties)
  BY SessionAssumption, FS_CardinalityType
  DEF SessionAssumption, Times, NoCall, Call, Kinds, Vias, NoPatch, Patch, NoBody, Body
<1>2. issued \in [Tokens -> Token \cup {None}]
  BY <1>1 DEF Init, AccountInit, Token
<1>3. SessionTypeOK
  BY <1>1, <1>2 DEF Init, AccountInit, SessionInit, SessionTypeOK, Phases, Answers
<1> QED BY <1>1, <1>3 DEF Init, AccountInit, TypeOK

(* A request that is refused, or answered, changes nothing else.             *)
LEMMA RefuseTypes ==
  ASSUME SessionTypeOK, NEW r \in Requests, NEW code \in Answers, Refuse(r, code)
  PROVE  SessionTypeOK'
  BY DEF SessionTypeOK, Refuse, Answer, Enter, dataVars, Phases

LEMMA OutagesTypes ==
  ASSUME SessionTypeOK, Outages
  PROVE  SessionTypeOK'
<1>1. 0 \in Times
  BY SessionAssumption DEF Times, SessionAssumption
<1>2. CASE Tick
  <2>1. time' \in 0..MaxTime
    BY <1>2, SessionAssumption DEF Tick, SessionTypeOK, SessionAssumption
  <2> QED BY <1>2, <2>1 DEF SessionTypeOK, Tick, reqVars
<1>3. CASE StoreFails
  BY <1>3 DEF SessionTypeOK, StoreFails, reqVars
<1>4. CASE StoreReturns
  BY <1>1, <1>4 DEF SessionTypeOK, StoreReturns, reqVars
<1> QED BY <1>2, <1>3, <1>4 DEF Outages

LEMMA SessionTypes ==
  ASSUME RequestInv, NEW r \in Requests, Session(r)
  PROVE  SessionTypeOK'
<1> USE DEF RequestInv, TypeOK
<1>1. CASE Arrive(r)
  <2>1. PICK c \in Calls : Present(r, c)
    BY <1>1 DEF Arrive
  <2>2. Outside(c, "not_authenticated") \in Answers
    BY DEF Outside, Answers
  <2> QED BY <2>1, <2>2, SentCalls DEF Present, SessionTypeOK, Answer, Enter, dataVars, Phases
<1>2. CASE TokenDenied(r)
  BY <1>2, RefuseTypes DEF TokenDenied, Outside, Answers
<1>3. CASE TokenNotDenied(r)
  BY <1>3 DEF TokenNotDenied, SessionTypeOK, Enter, dataVars, Phases
<1>4. CASE CallerInactive(r)
  BY <1>4, RefuseTypes DEF CallerInactive, Outside, Answers
<1>5. CASE CallerRefused(r)
  BY <1>5, RefuseTypes DEF CallerRefused, Answers
<1>6. CASE CallerAdmitted(r)
  <2>1. users[issued[call[r].token].user] \in Account \cup {None}
    BY <1>6, SessionAssumption
    DEF CallerAdmitted, RequestOK, TokenOK, SessionTypeOK, Token, SessionAssumption
  <2> QED BY <1>6, <2>1 DEF CallerAdmitted, SessionTypeOK, Enter, dataVars, Phases
<1>7. CASE Read(r)
  BY <1>7, RefuseTypes DEF Read, Answers
<1>8. CASE Logout(r)
  <2> DEFINE t == call[r].token
  <2>1. t \in Tokens /\ issued[t] \in Token
    BY <1>8 DEF Logout, RequestOK, TokenOK, SessionTypeOK, Served
  <2>2. issued[t].exp \in Times /\ issued[t].exp - time \in Int
    BY <2>1, SessionAssumption DEF SessionTypeOK, Token, Times, SessionAssumption
  <2>3. Remaining(t) > 0 => time + Remaining(t) * Second \in Times
    <3>1. /\ Remaining(t) \in Int
          /\ Remaining(t) * Second <= issued[t].exp - time
      BY <2>2, WholeSeconds DEF Remaining
    <3>2. Remaining(t) > 0 => Remaining(t) * Second \in Nat
      BY <3>1, SessionAssumption DEF SessionAssumption
    <3> QED BY <2>2, <3>1, <3>2, SessionAssumption DEF SessionTypeOK, Times, SessionAssumption
  <2>4. /\ denied' \in [Tokens -> Times]
        /\ revoked' \subseteq Tokens
    BY <1>8, <2>1, <2>3 DEF Logout, SessionTypeOK
  <2> QED BY <1>8, <2>4 DEF Logout, SessionTypeOK, Answer, Enter, Phases, Answers
<1>9. CASE LoginRefused(r)
  BY <1>9, SentCalls
  DEF LoginRefused, Logins, SessionTypeOK, Answer, Enter, dataVars, Phases, Answers
<1>10. CASE LoginVerified(r)
  <2>1. PICK c \in Logins : \E u \in Found(c.patch.email) :
          /\ call' = [call EXCEPT ![r] = [c EXCEPT !.target = u]]
          /\ caller' = [caller EXCEPT ![r] = users[u]]
    BY <1>10 DEF LoginVerified
  <2>2. PICK u \in Users :
          /\ call' = [call EXCEPT ![r] = [c EXCEPT !.target = u]]
          /\ caller' = [caller EXCEPT ![r] = users[u]]
    BY <2>1 DEF Found
  <2>3. c \in Call
    BY SentCalls DEF Logins
  <2>4. [c EXCEPT !.target = u] \in Call
    BY <2>3 DEF Call
  <2> QED BY <1>10, <2>2, <2>4 DEF LoginVerified, SessionTypeOK, Enter, dataVars, Phases
<1>11. CASE IssueToken(r)
  <2>1. /\ time + Life * Second \in Nat
        /\ Seconds(time + Life * Second) \in Times
    <3>1. /\ time + Life * Second \in Nat
          /\ time + Life * Second <= MaxTime + Life * Second
      BY SessionAssumption DEF SessionTypeOK, SessionAssumption
    <3>2. (time + Life * Second) \div Second \in Nat
      BY <3>1, WholeSeconds, SessionAssumption DEF SessionAssumption
    <3>3. Seconds(time + Life * Second) \in Nat
      BY <3>2, SessionAssumption DEF SessionAssumption, Seconds
    <3> QED BY <3>1, <3>3, WholeSeconds, SessionAssumption DEF Seconds, Times, SessionAssumption
  <2>2. call[r].target \in Users /\ caller[r] \in Account
    BY <1>11 DEF IssueToken, RequestOK, LoginOK, SessionTypeOK
  <2>3. issued' \in [Tokens -> Token \cup {None}]
    BY <1>11, <2>1, <2>2, AccountFields DEF IssueToken, SessionTypeOK, Token
  <2> QED BY <1>11, <2>3 DEF IssueToken, SessionTypeOK, Answer, Enter, Phases, Answers
<1>12. CASE RequestBreaks(r)
  BY <1>12, RefuseTypes DEF RequestBreaks, Answers
<1> QED BY <1>1, <1>2, <1>3, <1>4, <1>5, <1>6, <1>7, <1>8, <1>9, <1>10, <1>11, <1>12 DEF Session
(* The table after a commit.                                                 *)
LEMMA CommitTypes ==
  ASSUME SessionTypeOK, overlapped \in BOOLEAN, NEW r \in Requests,
         NEW table \in [Users -> Account \cup {None}], Commit(r, table)
  PROVE  SessionTypeOK' /\ overlapped' \in BOOLEAN
  BY DEF Commit, SessionTypeOK, Enter, Phases

(* The copies an update works on are accounts of the table.                  *)
LEMMA UpdateTypes ==
  ASSUME RequestInv, NEW r \in Requests, phase[r] = "writing", call[r].kind = "update"
  PROVE  /\ call[r].target \in Users
         /\ copy[r] \in Account /\ users[call[r].target] \in Account
         /\ Written(r) \in Account
<1>1. call[r] \in Call /\ WellFormed(call[r])
  BY DEF RequestInv, RequestOK, TokenOK, TypeOK, SessionTypeOK, Served
<1>2. call[r].target \in Users
  BY <1>1 DEF WellFormed, Call
<1>3. copy[r] \in Account /\ users[call[r].target] \in Account
  BY <1>2 DEF RequestInv, RequestOK, CopyOK, TypeOK, SessionTypeOK
<1> QED BY <1>1, <1>2, <1>3, WrittenAccount

LEMMA EditTypes ==
  ASSUME RequestInv, NEW r \in Requests, Edit(r)
  PROVE  SessionTypeOK' /\ overlapped' \in BOOLEAN
<1> USE DEF RequestInv, TypeOK
<1>1. CASE SelfLockout(r) /\ UNCHANGED overlapped
  BY <1>1, RefuseTypes DEF SelfLockout, Answers
<1>2. CASE UserNotFound(r) /\ UNCHANGED overlapped
  BY <1>2, RefuseTypes DEF UserNotFound, Answers
<1>3. CASE EmailExists(r) /\ UNCHANGED overlapped
  BY <1>3, RefuseTypes DEF EmailExists, Answers
<1>4. CASE WriteClashes(r) /\ UNCHANGED overlapped
  BY <1>4, RefuseTypes DEF WriteClashes, Answers
<1>5. CASE Respond(r) /\ UNCHANGED overlapped
  BY <1>5, RefuseTypes DEF Respond, Answers
<1>6. CASE CreateStart(r)
  BY <1>6 DEF CreateStart, SessionTypeOK, Enter, dataVars, Phases
<1>7. CASE UpdateLoad(r)
  <2>1. call[r].target \in Users
    BY <1>7 DEF UpdateLoad, RequestOK, TokenOK, WellFormed, SessionTypeOK, Call, Served
  <2>2. Loaded(r) \in Account \cup {None}
    BY <2>1 DEF Loaded, SessionTypeOK
  <2> QED BY <1>7, <2>2 DEF UpdateLoad, AfterLoad, SessionTypeOK, Enter, dataVars, Phases
<1>8. CASE EmailFree(r)
  BY <1>8 DEF EmailFree, SessionTypeOK, Enter, dataVars, Phases
<1>9. CASE WriteCreate(r)
  <2>1. Created(r) \in Account
    BY <1>9, CreatedAccount DEF WriteCreate, RequestOK, TokenOK, SessionTypeOK, Served
  <2>2. PICK u \in Users :
          Commit(r, [users EXCEPT ![u] = Created(r)])
    BY <1>9 DEF WriteCreate
  <2> QED BY <2>1, <2>2, CommitTypes DEF SessionTypeOK
<1>10. CASE WriteUpdate(r)
  <2>1. Commit(r, [users EXCEPT ![call[r].target] = Written(r)]) /\ Written(r) \in Account
    BY <1>10, UpdateTypes DEF WriteUpdate
  <2> QED BY <2>1, CommitTypes DEF SessionTypeOK
<1> QED BY <1>1, <1>2, <1>3, <1>4, <1>5, <1>6, <1>7, <1>8, <1>9, <1>10 DEF Edit

(* A save of a listing works on rows of the table.                           *)
LEMMA SaveTypes ==
  ASSUME RequestInv, NEW r \in Requests, phase[r] = "writing",
         call[r].kind \in {"list", "replace", "deactivate"}
  PROVE  /\ Replacement(r) \in Listing
         /\ Writes(call[r]) => /\ call[r].about \in Properties
                               /\ row[r] \in Listing /\ listings[call[r].about] \in Listing
                               /\ Saved(r) \in Listing
<1>1. call[r] \in Call /\ WellFormed(call[r])
  BY DEF RequestInv, RequestOK, TokenOK, TypeOK, SessionTypeOK, Served
<1>2. Writes(call[r]) => call[r].about \in Properties
  BY <1>1 DEF WellFormed, Call, Writes
<1>3. Writes(call[r]) => row[r] \in Listing /\ listings[call[r].about] \in Listing
  BY <1>2 DEF RequestInv, RequestOK, RowOK, TypeOK
<1>4. Replacement(r) \in Listing
  BY <1>1, <1>3, ReplacementListing, SessionAssumption
  DEF RequestInv, RequestOK, RowOK, Writes
<1> QED BY <1>2, <1>3, <1>4, SavedListing

LEMMA ListingTypes ==
  ASSUME RequestInv, NEW r \in Requests, ListingStep(r)
  PROVE  TypeOK'
<1> USE DEF RequestInv
<1>1. CASE BrowseCount(r)
  <2>1. Cardinality(Listable(r)) \in 0..Cardinality(Properties)
    BY FS_Subset, FS_CardinalityType, SessionAssumption DEF Listable, SessionAssumption
  <2> QED BY <1>1, <2>1 DEF BrowseCount, TypeOK, SessionTypeOK, Enter, dataVars, Phases
<1>2. CASE BrowsePage(r)
  <2>1. PICK place \in Orders([p \in Listable(r) |-> listings[p].details], call[r].descending) :
          shown' = [shown EXCEPT ![r] = Slice(place, call[r].page, call[r].size)]
    BY <1>2 DEF BrowsePage
  <2>2. Slice(place, call[r].page, call[r].size) \subseteq Properties
    BY DEF Slice, Orders, Listable
  <2> QED BY <1>2, <2>1, <2>2 DEF BrowsePage, TypeOK, SessionTypeOK, Answer, Enter, dataVars, Phases, Answers
<1>3. CASE Open(r)
  <2>1. call[r].about \in Properties
    BY <1>3 DEF Open, RequestOK, TokenOK, WellFormed, TypeOK, SessionTypeOK, Call, Served
  <2> QED BY <1>3, <2>1 DEF Open, TypeOK, SessionTypeOK, Answer, Enter, dataVars, Phases, Answers
<1>4. CASE NotOpened(r)
  BY <1>4, RefuseTypes DEF NotOpened, Answers, TypeOK, listingVars
<1>5. CASE RowNotFound(r)
  BY <1>5, RefuseTypes DEF RowNotFound, Answers, TypeOK, listingVars
<1>6. CASE RowLoaded(r)
  <2>1. call[r].about \in Properties
    BY <1>6 DEF RowLoaded, Writes, RequestOK, TokenOK, WellFormed, TypeOK, SessionTypeOK, Call, Served
  <2> QED BY <1>6, <2>1 DEF RowLoaded, TypeOK, SessionTypeOK, Enter, dataVars, Phases
<1>7. CASE ListStart(r)
  BY <1>7 DEF ListStart, TypeOK, SessionTypeOK, Enter, dataVars, listingVars, Phases
<1>8. CASE OwnerSettled(r)
  <2>1. CallerId(r) \in Users
    BY <1>8 DEF OwnerSettled, CallerId, RequestOK, TokenOK, TypeOK, SessionTypeOK, Token, Served
  <2>2. Requested(r) \in Users \cup {None}
    BY DEF Requested, TypeOK, SessionTypeOK, Call, Body
  <2> QED BY <1>8, <2>1, <2>2 DEF OwnerSettled, TypeOK, SessionTypeOK, Enter, dataVars, Phases
<1>9. CASE OwnerRefused(r)
  BY <1>9, RefuseTypes DEF OwnerRefused, Answers, TypeOK, listingVars
<1>10. CASE SaveRow(r)
  <2>1. Saved(r) \in Listing
    BY <1>10, SaveTypes DEF SaveRow, Writes
  <2> QED BY <1>10, <2>1 DEF SaveRow, Store, Begun, TypeOK, SessionTypeOK, Enter, dataVars, Phases
<1>11. CASE SaveNewRow(r)
  <2>1. Replacement(r) \in Listing
    BY <1>11, SaveTypes DEF SaveNewRow
  <2> QED BY <1>11, <2>1 DEF SaveNewRow, Store, Begun, TypeOK, SessionTypeOK, Enter, dataVars, Phases
<1> QED BY <1>1, <1>2, <1>3, <1>4, <1>5, <1>6, <1>7, <1>8, <1>9, <1>10, <1>11 DEF ListingStep

LEMMA StepTypeOK == RequestInv /\ [Next]_vars => TypeOK'
<1> SUFFICES ASSUME RequestInv, [Next]_vars PROVE TypeOK'
  OBVIOUS
<1>1. CASE Outages /\ UNCHANGED <<overlapped, listingVars>>
  BY <1>1, OutagesTypes DEF RequestInv, TypeOK, listingVars
<1>2. ASSUME NEW r \in Requests, Session(r) /\ UNCHANGED <<overlapped, listingVars>>
      PROVE  TypeOK'
  BY <1>2, SessionTypes DEF RequestInv, TypeOK, listingVars
<1>3. ASSUME NEW r \in Requests, Edit(r),
             outrun' = IF users' = users THEN outrun ELSE outrun \cup (Begun \ {r}),
             UNCHANGED <<listings, row, owner, total, shown>>
      PROVE  TypeOK'
  BY <1>3, EditTypes DEF RequestInv, TypeOK, Begun
<1>4. ASSUME NEW r \in Requests, ListingStep(r) PROVE TypeOK'
  BY <1>4, ListingTypes
<1>5. CASE UNCHANGED vars
  BY <1>5 DEF RequestInv, TypeOK, SessionTypeOK, vars, accountVars, listingVars, sessionVars,
              dataVars, reqVars
<1> QED BY <1>1, <1>2, <1>3, <1>4, <1>5 DEF Next
-----------------------------------------------------------------------------
(* A step is taken by one request, or by the world outside.                  *)

StepOf(r) ==
  \/ Session(r) /\ UNCHANGED <<overlapped, listingVars>>
  \/ /\ Edit(r)
     /\ outrun' = IF users' = users THEN outrun ELSE outrun \cup (Begun \ {r})
     /\ UNCHANGED <<listings, row, owner, total, shown>>
  \/ ListingStep(r)

(* What the steps of others leave a request.                                 *)
Keeps(q) ==
  /\ phase'[q] = phase[q] /\ call'[q] = call[q] /\ answer'[q] = answer[q]
  /\ caller'[q] = caller[q] /\ copy'[q] = copy[q]
  /\ row'[q] = row[q] /\ owner'[q] = owner[q] /\ total'[q] = total[q] /\ shown'[q] = shown[q]

(* No id is given up, and no token changes once it is signed.                *)
Grows ==
  /\ \A u \in Users : users[u] # None => users'[u] # None
  /\ \A t \in Tokens : issued[t] # None => issued'[t] = issued[t]
  /\ \A p \in Properties : listings[p] # None => listings'[p] # None

LEMMA Steps ==
  ASSUME [Next]_vars
  PROVE  \/ Outages /\ UNCHANGED <<overlapped, listingVars>>
         \/ \E r \in Requests : StepOf(r)
         \/ UNCHANGED vars
  BY DEF Next, StepOf

LEMMA OutagesKeep ==
  ASSUME RequestInv, (Outages /\ UNCHANGED <<overlapped, listingVars>>) \/ UNCHANGED vars
  PROVE  /\ \A q \in Requests : Keeps(q)
         /\ UNCHANGED <<users, issued, listings, outrun, overlapped, expelled>>
  BY DEF Outages, Tick, StoreFails, StoreReturns, vars, accountVars, sessionVars, dataVars,
         reqVars, listingVars, Keeps

LEMMA OthersKeep ==
  ASSUME RequestInv, NEW r \in Requests, StepOf(r), NEW q \in Requests \ {r}
  PROVE  Keeps(q)
<1> USE DEF RequestInv, TypeOK, SessionTypeOK, Keeps
<1>1. CASE Session(r) /\ UNCHANGED <<overlapped, listingVars>>
  <2> USE <1>1 DEF listingVars, Enter, Answer, Refuse
  <2>1. ASSUME NEW c, Present(r, c) PROVE Keeps(q)
    BY <2>1 DEF Present
  <2>2. CASE LoginRefused(r)
    <3>1. PICK c : call' = [call EXCEPT ![r] = c]
      BY <2>2 DEF LoginRefused
    <3>2. PICK a : Answer(r, a)
      BY <2>2 DEF LoginRefused
    <3> QED BY <2>2, <3>1, <3>2 DEF LoginRefused
  <2>3. CASE LoginVerified(r)
    <3>1. PICK c, a : call' = [call EXCEPT ![r] = c] /\ caller' = [caller EXCEPT ![r] = a]
      BY <2>3 DEF LoginVerified
    <3> QED BY <2>3, <3>1 DEF LoginVerified
  <2>4. CASE IssueToken(r)
    BY <2>4 DEF IssueToken
  <2> QED BY <2>1, <2>2, <2>3, <2>4
    DEF Session, Arrive, TokenDenied, TokenNotDenied, CallerInactive, CallerRefused,
        CallerAdmitted, Read, Logout, RequestBreaks
<1>2. CASE Edit(r) /\ UNCHANGED <<listings, row, owner, total, shown>>
  BY <1>2 DEF Edit, SelfLockout, UserNotFound, EmailExists, WriteClashes, Respond, CreateStart,
              UpdateLoad, EmailFree, WriteCreate, WriteUpdate, Commit, Enter, Answer, Refuse
<1>3. CASE ListingStep(r)
  <2> USE <1>3 DEF listingVars, Enter, Answer, Refuse
  <2>1. CASE BrowsePage(r)
    <3>1. PICK s : shown' = [shown EXCEPT ![r] = s]
      BY <2>1 DEF BrowsePage
    <3> QED BY <2>1, <3>1 DEF BrowsePage
  <2> QED BY <2>1
    DEF ListingStep, BrowseCount, Open, NotOpened, RowNotFound, RowLoaded, ListStart,
        OwnerSettled, OwnerRefused, SaveRow, SaveNewRow, Store
<1> QED BY <1>1, <1>2, <1>3 DEF StepOf

(* Only an edit that is committed changes the accounts, only a login the     *)
(* tokens, only a save the listings.                                         *)
LEMMA Writers ==
  ASSUME NEW r \in Requests, StepOf(r)
  PROVE  /\ WriteCreate(r) \/ WriteUpdate(r) \/ UNCHANGED <<users, overlapped, expelled>> \/ Arrive(r)
         /\ Arrive(r) => UNCHANGED <<users, overlapped>>
         /\ IssueToken(r) \/ UNCHANGED issued
         /\ SaveRow(r) \/ SaveNewRow(r) \/ UNCHANGED listings
<1> USE DEF Enter, Answer, Refuse, dataVars, listingVars
<1>1. CASE Session(r) /\ UNCHANGED <<overlapped, listingVars>>
  BY <1>1 DEF Session, Arrive, Present, TokenDenied, TokenNotDenied, CallerInactive, CallerRefused,
              CallerAdmitted, Read, Logout, LoginRefused, LoginVerified, IssueToken, RequestBreaks
<1>2. CASE Edit(r) /\ UNCHANGED <<listings, row, owner, total, shown>>
  <2>1. CASE WriteCreate(r) \/ WriteUpdate(r)
    <3>1. /\ phase[r] = "writing"
          /\ UNCHANGED <<issued, listings>>
      BY <1>2, <2>1 DEF WriteCreate, WriteUpdate, Commit
    <3> QED BY <2>1, <3>1 DEF Arrive, Present
  <2>2. CASE ~(WriteCreate(r) \/ WriteUpdate(r))
    BY <1>2, <2>2 DEF Edit, SelfLockout, UserNotFound, EmailExists, WriteClashes, Respond,
                      CreateStart, UpdateLoad, EmailFree
  <2> QED BY <2>1, <2>2
<1>3. CASE ListingStep(r)
  BY <1>3 DEF ListingStep, BrowseCount, BrowsePage, Open, NotOpened, RowNotFound, RowLoaded,
              ListStart, OwnerSettled, OwnerRefused, SaveRow, SaveNewRow, Store
<1> QED BY <1>1, <1>2, <1>3 DEF StepOf
LEMMA StepGrows ==
  ASSUME RequestInv, NEW r \in Requests, StepOf(r)
  PROVE  Grows
<1> USE DEF RequestInv, TypeOK, SessionTypeOK
<1>1. \A u \in Users : users[u] # None => users'[u] # None
  <2>1. CASE UNCHANGED users
    BY <2>1
  <2>2. CASE WriteCreate(r)
    <3>1. PICK u \in Users : users[u] = None /\ Commit(r, [users EXCEPT ![u] = Created(r)])
      BY <2>2 DEF WriteCreate
    <3> QED BY <3>1 DEF Commit
  <2>3. CASE WriteUpdate(r)
    <3>1. users' = [users EXCEPT ![call[r].target] = Written(r)] /\ Written(r) # None
      BY <2>3, UpdateTypes, AccountFields DEF WriteUpdate, Commit
    <3> QED BY <3>1
  <2> QED BY <2>1, <2>2, <2>3, Writers
<1>2. \A t \in Tokens : issued[t] # None => issued'[t] = issued[t]
  <2>1. CASE IssueToken(r)
    BY <2>1 DEF IssueToken
  <2> QED BY <2>1, Writers
<1>3. \A p \in Properties : listings[p] # None => listings'[p] # None
  <2>0. None \notin Listing
    BY ListingAssumption DEF ListingAssumption
  <2>1. CASE SaveRow(r)
    <3>1. Saved(r) \in Listing /\ listings' = [listings EXCEPT ![call[r].about] = Saved(r)]
      BY <2>1, SaveTypes DEF SaveRow, Store, Writes
    <3> QED BY <2>0, <3>1
  <2>2. CASE SaveNewRow(r)
    BY <2>2 DEF SaveNewRow, Store
  <2> QED BY <2>1, <2>2, Writers
<1> QED BY <1>1, <1>2, <1>3 DEF Grows

(* A request that is left alone keeps what it has loaded.                    *)
LEMMA KeptOK ==
  ASSUME RequestInv, Grows, NEW q \in Requests, Keeps(q)
  PROVE  RequestOK(q)'
<1> USE DEF RequestInv, Keeps, Grows
<1>1. TokenOK(q)' /\ (phase[q] \in Served => CallerId(q)' = CallerId(q))
  BY DEF RequestOK, TokenOK, CallerId, Served
<1>2. LoginOK(q)' /\ CallerOK(q)' /\ KindOK(q)'
  BY DEF RequestOK, LoginOK, CallerOK, KindOK, TypeOK
<1>3. CopyOK(q)'
  <2>1. phase[q] \in {"addressing", "writing"} /\ call[q].kind = "update" => call[q].target \in Users
    BY DEF RequestOK, TokenOK, WellFormed, TypeOK, SessionTypeOK, Call, Served
  <2> QED BY <1>1, <2>1 DEF RequestOK, CopyOK, LocksOut, Served
<1>4. RowOK(q)'
  <2>1. phase[q] \in {"owning", "writing"} /\ Writes(call[q]) => call[q].about \in Properties
    BY DEF RequestOK, TokenOK, WellFormed, TypeOK, SessionTypeOK, Call, Served, Writes
  <2> QED BY <1>1, <2>1 DEF RequestOK, RowOK, Editable, Served
<1> QED BY <1>1, <1>2, <1>3, <1>4 DEF RequestOK

(* A request that is over has nothing left to keep.                          *)
LEMMA OverOK ==
  ASSUME NEW r \in Requests, phase'[r] = "done"
  PROVE  RequestOK(r)'
  BY DEF RequestOK, TokenOK, LoginOK, CallerOK, KindOK, CopyOK, RowOK, Served
LEMMA SessionRequestOK ==
  ASSUME RequestInv, TypeOK', NEW r \in Requests, Session(r), UNCHANGED <<overlapped, listingVars>>
  PROVE  RequestOK(r)'
<1> USE DEF RequestInv, Enter, Answer
<1>0. phase[r] \in Phases /\ phase \in [Requests -> Phases] /\ call \in [Requests -> Call]
      /\ caller \in [Requests -> Account \cup {None}]
  BY DEF TypeOK, SessionTypeOK
<1>1. CASE phase'[r] = "done"
  BY <1>1, OverOK
<1>2. CASE phase'[r] # "done" /\ Arrive(r)
  <2>1. PICK c \in Calls : Present(r, c)
    BY <1>2 DEF Arrive
  <2>2. /\ phase'[r] = "checking" /\ call'[r] = c /\ c.token # None /\ c.kind # "login"
        /\ issued[c.token] # None /\ UNCHANGED issued
    BY <1>0, <1>2, <2>1 DEF Present, dataVars
  <2>3. WellFormed(c) /\ c.token \in Tokens
    BY <2>2, SentCalls DEF Call
  <2> QED BY <2>2, <2>3 DEF RequestOK, TokenOK, LoginOK, CallerOK, KindOK, CopyOK, RowOK, Served
<1>3. CASE TokenNotDenied(r)
  BY <1>0, <1>3
  DEF TokenNotDenied, dataVars, RequestOK, TokenOK, LoginOK, CallerOK, KindOK, CopyOK, RowOK, Served
<1>4. CASE CallerAdmitted(r)
  <2>1. issued[call[r].token].user \in Users /\ users[issued[call[r].token].user] # None
    BY <1>4 DEF CallerAdmitted, RequestOK, TokenOK, TokensOK, TypeOK, SessionTypeOK, Token
  <2>2. /\ caller'[r] # None /\ caller'[r].role \in Allowed(call[r])
        /\ phase'[r] = "admitted" /\ UNCHANGED <<issued, call>>
    BY <1>0, <1>4, <2>1 DEF CallerAdmitted, Forbidden, RoleOf, dataVars
  <2> QED BY <1>4, <2>2
    DEF CallerAdmitted, RequestOK, TokenOK, LoginOK, CallerOK, KindOK, CopyOK, RowOK, Served
<1>5. CASE LoginVerified(r)
  <2>1. PICK c \in Logins : \E u \in Found(c.patch.email) :
          /\ call' = [call EXCEPT ![r] = [c EXCEPT !.target = u]]
          /\ caller' = [caller EXCEPT ![r] = users[u]]
    BY <1>5 DEF LoginVerified
  <2>2. PICK u \in Users :
          /\ users[u] # None
          /\ call' = [call EXCEPT ![r] = [c EXCEPT !.target = u]]
          /\ caller' = [caller EXCEPT ![r] = users[u]]
    BY <2>1 DEF Found
  <2>3. c \in Call
    BY SentCalls DEF Logins
  <2>4. /\ call'[r].target = u /\ call'[r].kind = "login"
        /\ caller'[r] # None /\ phase'[r] = "verifying" /\ UNCHANGED users
    BY <1>0, <1>5, <2>2, <2>3 DEF LoginVerified, Logins, dataVars, Call
  <2> QED BY <2>2, <2>4 DEF RequestOK, TokenOK, LoginOK, CallerOK, KindOK, CopyOK, RowOK, Served
<1> QED BY <1>0, <1>1, <1>2, <1>3, <1>4, <1>5
  DEF Session, TokenDenied, CallerInactive, CallerRefused, Read, Logout, LoginRefused,
      IssueToken, RequestBreaks, Refuse

(* The roles that each kind of call is for.                                  *)
LEMMA AllowedRoles ==
  ASSUME NEW c
  PROVE  /\ c.kind \in {"create", "update"} => Allowed(c) = {"admin"}
         /\ c.kind \in {"list", "replace", "deactivate"} => Allowed(c) = {"admin", "agent"}
         /\ Allowed(c) \subseteq Roles
  BY DEF Allowed, Roles

LEMMA EditRequestOK ==
  ASSUME RequestInv, TypeOK', Grows, NEW r \in Requests, Edit(r),
         UNCHANGED <<listings, row, owner, total, shown>>
  PROVE  RequestOK(r)'
<1> USE DEF RequestInv, Enter, Answer
<1>0. phase[r] \in Phases /\ phase \in [Requests -> Phases] /\ call \in [Requests -> Call]
      /\ copy \in [Requests -> Account \cup {None}]
  BY DEF TypeOK, SessionTypeOK
<1>1. CASE phase'[r] = "done"
  BY <1>1, OverOK
<1>2. CASE CreateStart(r)
  <2>1. call[r].patch.email # None
    BY <1>2 DEF CreateStart, RequestOK, TokenOK, WellFormed, Served
  <2> QED BY <1>0, <1>2, <2>1
    DEF CreateStart, dataVars, RequestOK, TokenOK, LoginOK, CallerOK, KindOK, CopyOK, RowOK, Served
<1>3. CASE UpdateLoad(r)
  <2>1. /\ phase'[r] = IF call[r].patch.email = None THEN "writing" ELSE "addressing"
        /\ copy'[r] = Loaded(r) /\ Loaded(r) # None
        /\ phase[r] = "admitted" /\ call[r].kind = "update" /\ ~LocksOut(r)
        /\ UNCHANGED <<users, issued, call, caller>>
    BY <1>0, <1>3 DEF UpdateLoad, AfterLoad, dataVars
  <2>2. TokenOK(r)' /\ CallerOK(r)'
    BY <2>1 DEF RequestOK, TokenOK, CallerOK, Served
  <2>3. LoginOK(r)' /\ KindOK(r)' /\ RowOK(r)'
    BY <2>1 DEF LoginOK, KindOK, RowOK, Writes
  <2>4. users[call[r].target] # None
    <3>1. CallerId(r) \in Users /\ users[CallerId(r)] # None
      BY <2>1 DEF RequestOK, TokenOK, TokensOK, TypeOK, SessionTypeOK, Token, CallerId, Served
    <3> QED BY <2>1, <3>1 DEF Loaded
  <2>5. CopyOK(r)'
    BY <2>1, <2>4 DEF CopyOK, LocksOut, CallerId
  <2> QED BY <2>2, <2>3, <2>5 DEF RequestOK
<1>4. CASE EmailFree(r)
  BY <1>0, <1>4
  DEF EmailFree, dataVars, RequestOK, TokenOK, LoginOK, CallerOK, KindOK, CopyOK, LocksOut, CallerId,
      RowOK, Writes, Served
<1>5. ASSUME NEW table, Commit(r, table), phase[r] = "writing" PROVE RequestOK(r)'
  BY <1>0, <1>5
  DEF Commit, RequestOK, TokenOK, LoginOK, CallerOK, KindOK, CopyOK, RowOK, Served
<1> QED BY <1>0, <1>1, <1>2, <1>3, <1>4, <1>5
  DEF Edit, SelfLockout, UserNotFound, EmailExists, WriteClashes, Respond, WriteCreate, WriteUpdate,
      Refuse

LEMMA ListingRequestOK ==
  ASSUME RequestInv, TypeOK', NEW r \in Requests, ListingStep(r)
  PROVE  RequestOK(r)'
<1> USE DEF RequestInv, Enter, Answer
<1>0. phase[r] \in Phases /\ phase \in [Requests -> Phases] /\ call \in [Requests -> Call]
      /\ row \in [Requests -> Listing \cup {None}] /\ owner \in [Requests -> Users \cup {None}]
  BY DEF TypeOK, SessionTypeOK
<1>1. CASE phase'[r] = "done"
  BY <1>1, OverOK
<1>2. CASE BrowseCount(r)
  BY <1>0, <1>2
  DEF BrowseCount, dataVars, RequestOK, TokenOK, LoginOK, CallerOK, KindOK, CopyOK, RowOK, Served
<1>3. CASE RowLoaded(r)
  <2>1. /\ phase'[r] \in {"owning", "writing"}
        /\ phase'[r] = "owning" => call[r].kind = "replace"
        /\ phase'[r] = "writing" => call[r].kind = "deactivate"
        /\ row'[r] = listings[call[r].about] /\ FindsEditable(r, call[r].about)
        /\ phase[r] = "admitted" /\ Writes(call[r])
        /\ UNCHANGED <<issued, listings, call, caller>>
    BY <1>0, <1>3 DEF RowLoaded, dataVars, Writes
  <2>2. TokenOK(r)' /\ CallerOK(r)'
    BY <2>1 DEF RequestOK, TokenOK, CallerOK, Served
  <2>3. LoginOK(r)' /\ KindOK(r)' /\ CopyOK(r)'
    BY <2>1 DEF LoginOK, KindOK, CopyOK
  <2>4. RowOK(r)'
    BY <2>1 DEF RowOK, FindsEditable, Editable, CallerId
  <2> QED BY <2>2, <2>3, <2>4 DEF RequestOK
<1>4. CASE ListStart(r)
  BY <1>0, <1>4
  DEF ListStart, dataVars, RequestOK, TokenOK, LoginOK, CallerOK, KindOK, CopyOK, RowOK, Writes, Served
<1>5. CASE OwnerSettled(r)
  <2>1. /\ phase[r] = "owning" /\ phase'[r] = "writing"
        /\ caller[r].role = "agent" => owner'[r] = CallerId(r)
        /\ UNCHANGED <<users, issued, listings, call, caller, copy, row>>
    BY <1>0, <1>5 DEF OwnerSettled, dataVars
  <2> QED BY <2>1
    DEF RequestOK, TokenOK, LoginOK, CallerOK, KindOK, CopyOK, RowOK, Editable, CallerId, Served
<1>6. ASSUME NEW p, NEW l, Store(r, p, l), phase[r] = "writing" PROVE RequestOK(r)'
  BY <1>0, <1>6
  DEF Store, dataVars, RequestOK, TokenOK, LoginOK, CallerOK, KindOK, CopyOK, RowOK, Served
<1> QED BY <1>0, <1>1, <1>2, <1>3, <1>4, <1>5, <1>6
  DEF ListingStep, BrowsePage, Open, NotOpened, RowNotFound, OwnerRefused, SaveRow, SaveNewRow, Refuse

LEMMA InitRequestInv == Init => RequestInv
<1> SUFFICES ASSUME Init PROVE RequestInv
  OBVIOUS
<1>1. TokensOK
  BY SessionAssumption DEF Init, AccountInit, TokensOK, SessionAssumption
<1>2. ASSUME NEW r \in Requests PROVE RequestOK(r)
  BY DEF Init, AccountInit, SessionInit, RequestOK, TokenOK, LoginOK, CallerOK, KindOK, CopyOK, RowOK,
         Served
<1> QED BY <1>1, <1>2, InitTypeOK DEF RequestInv

LEMMA StepRequestInv == RequestInv /\ [Next]_vars => RequestInv'
<1> SUFFICES ASSUME RequestInv, [Next]_vars PROVE RequestInv'
  OBVIOUS
<1>1. TypeOK'
  BY StepTypeOK
<1>2. CASE (Outages /\ UNCHANGED <<overlapped, listingVars>>) \/ UNCHANGED vars
  <2>1. Grows
    BY <1>2, OutagesKeep DEF Grows
  <2>2. \A q \in Requests : RequestOK(q)'
    BY <1>2, <2>1, OutagesKeep, KeptOK
  <2>3. TokensOK'
    BY <1>2, OutagesKeep DEF RequestInv, TokensOK
  <2> QED BY <1>1, <2>2, <2>3 DEF RequestInv
<1>3. ASSUME NEW r \in Requests, StepOf(r) PROVE RequestInv'
  <2>1. Grows
    BY <1>3, StepGrows
  <2>2. RequestOK(r)'
    BY <1>1, <1>3, <2>1, SessionRequestOK, EditRequestOK, ListingRequestOK DEF StepOf
  <2>3. \A q \in Requests \ {r} : RequestOK(q)'
    BY <1>3, <2>1, OthersKeep, KeptOK
  <2>4. TokensOK'
    <3>1. ASSUME NEW t \in Tokens, issued'[t] # None, issued[t] # None
          PROVE  users'[issued'[t].user] # None
      BY <2>1, <3>1 DEF Grows, RequestInv, TokensOK, TypeOK, SessionTypeOK, Token
    <3>2. ASSUME NEW t \in Tokens, issued'[t] # None, issued[t] = None
          PROVE  users'[issued'[t].user] # None
      <4>1. IssueToken(r)
        BY <1>3, <3>2, Writers
      <4>2. issued'[t].user = call[r].target /\ UNCHANGED users
        BY <3>2, <4>1 DEF IssueToken, RequestInv, TypeOK, SessionTypeOK
      <4> QED BY <4>1, <4>2 DEF IssueToken, RequestInv, RequestOK, LoginOK
    <3> QED BY <3>1, <3>2 DEF TokensOK
  <2> QED BY <1>1, <2>2, <2>3, <2>4 DEF RequestInv
<1> QED BY <1>2, <1>3, Steps

LEMMA RequestInvariance == Spec => []RequestInv
  BY InitRequestInv, StepRequestInv, PTL DEF Spec

(* Every variable of sessions, accounts and listings keeps its type.         *)
THEOREM TypeCorrect == Spec => []TypeOK
<1>1. RequestInv => TypeOK
  BY DEF RequestInv
<1> QED BY <1>1, RequestInvariance, PTL

-----------------------------------------------------------------------------
(* The denylist.                                                             *)

(* Only a logout, or a restart of Redis, touches the denylist.               *)
LEMMA DenylistWriters ==
  ASSUME RequestInv, [Next]_vars
  PROVE  \/ StoreReturns /\ UNCHANGED issued
         \/ \E r \in Requests : Logout(r) /\ UNCHANGED issued
         \/ /\ UNCHANGED <<denied, revoked>> /\ time' >= time
            /\ UNCHANGED issued \/ (\E r \in Requests : IssueToken(r))
<1>1. CASE (Outages /\ UNCHANGED <<overlapped, listingVars>>) \/ UNCHANGED vars
  BY <1>1, SessionAssumption
  DEF Outages, Tick, StoreFails, vars, accountVars, sessionVars, dataVars, StoreReturns,
      RequestInv, TypeOK, SessionTypeOK, SessionAssumption
<1>2. ASSUME NEW r \in Requests, StepOf(r)
      PROVE  \/ Logout(r) /\ UNCHANGED issued
             \/ /\ UNCHANGED <<denied, revoked, time>>
                /\ UNCHANGED issued \/ IssueToken(r)
  <2> USE DEF Refuse, dataVars
  <2>1. CASE Session(r)
    BY <2>1 DEF Session, Arrive, Present, TokenDenied, TokenNotDenied, CallerInactive, CallerRefused,
                CallerAdmitted, Read, Logout, LoginRefused, LoginVerified, IssueToken, RequestBreaks
  <2>2. CASE Edit(r)
    BY <2>2 DEF Edit, SelfLockout, UserNotFound, EmailExists, WriteClashes, Respond, CreateStart,
                UpdateLoad, EmailFree, WriteCreate, WriteUpdate, Commit
  <2>3. CASE ListingStep(r)
    BY <2>3 DEF ListingStep, BrowseCount, BrowsePage, Open, NotOpened, RowNotFound, RowLoaded,
                ListStart, OwnerSettled, OwnerRefused, SaveRow, SaveNewRow, Store
  <2> QED BY <1>2, <2>1, <2>2, <2>3 DEF StepOf
<1> QED BY <1>1, <1>2, Steps DEF RequestInv, TypeOK, SessionTypeOK

(* A key lives the whole seconds its token has left.                         *)
LEMMA LogoutDenies ==
  ASSUME RequestInv, NEW r \in Requests, Logout(r), NEW t \in Tokens
  PROVE  /\ t # call[r].token => denied'[t] = denied[t] /\ (t \in revoked' => t \in revoked)
         /\ t = call[r].token =>
              /\ issued[t] # None
              /\ denied'[t] > 0 => denied[t] > 0 \/ t \in revoked'
              /\ t \in revoked' /\ t \notin revoked => 
                   denied'[t] > issued[t].exp - Second \/ time > issued[t].exp - Second
              /\ denied'[t] # denied[t] => denied'[t] > issued[t].exp - Second
         /\ revoked \subseteq revoked' /\ time' = time
<1> DEFINE k == call[r].token
<1> USE DEF RequestInv, TypeOK, SessionTypeOK
<1>1. k \in Tokens /\ issued[k] \in Token /\ issued[k] # None
  BY DEF Logout, RequestOK, TokenOK, Served
<1>2. issued[k].exp \in Int /\ time \in Int /\ issued[k].exp - time \in Int
  BY <1>1, SessionAssumption DEF Token, Times, SessionAssumption
<1>3. /\ Remaining(k) \in Int
      /\ time + Remaining(k) * Second \in Int
      /\ time + Remaining(k) * Second > issued[k].exp - Second
  <2>1. Remaining(k) \in Int /\ issued[k].exp - time < Remaining(k) * Second + Second
    BY <1>2, WholeSeconds DEF Remaining
  <2> QED BY <1>2, <2>1, SessionAssumption DEF SessionAssumption
<1>4. ~(Remaining(k) > 0) => time > issued[k].exp - Second
  <2>1. ~(Remaining(k) > 0) => Remaining(k) * Second <= 0
    BY <1>3, SessionAssumption DEF SessionAssumption
  <2> QED BY <1>2, <1>3, <2>1, SessionAssumption DEF SessionAssumption
<1>5. denied' = [s \in Tokens |-> IF s = k /\ storeUp /\ Remaining(k) > 0
                                  THEN time + Remaining(k) * Second ELSE denied[s]]
  BY DEF Logout, SessionsEnded
<1>6. revoked' = revoked \cup {s \in {k} : storeUp} /\ time' = time
  BY DEF Logout
<1>7. t # k => denied'[t] = denied[t] /\ (t \in revoked' => t \in revoked)
  BY <1>5, <1>6
<1>8. t = k => /\ denied'[t] > 0 => denied[t] > 0 \/ t \in revoked'
               /\ denied'[t] # denied[t] => denied'[t] > issued[t].exp - Second
  BY <1>3, <1>5, <1>6
<1>9. t = k /\ t \in revoked' /\ t \notin revoked =>
        denied'[t] > issued[t].exp - Second \/ time > issued[t].exp - Second
  BY <1>3, <1>4, <1>5, <1>6
<1> QED BY <1>1, <1>6, <1>7, <1>8, <1>9
LEMMA InitDenylistOK == Init => DenylistOK
  BY DEF Init, AccountInit, SessionInit, DenylistOK

LEMMA StepDenylistOK == RequestInv /\ DenylistOK /\ [Next]_vars => DenylistOK'
<1> SUFFICES ASSUME RequestInv, DenylistOK, [Next]_vars,
                    NEW t \in Tokens
             PROVE  /\ denied'[t] > 0 => t \in revoked'
                    /\ t \in revoked' => /\ issued'[t] # None
                                         /\ \/ denied'[t] > issued'[t].exp - Second
                                            \/ time' > issued'[t].exp - Second
  BY DEF DenylistOK
<1>1. CASE StoreReturns /\ UNCHANGED issued
  BY <1>1 DEF StoreReturns, DenylistOK
<1>2. ASSUME NEW r \in Requests, Logout(r), UNCHANGED issued
      PROVE  /\ denied'[t] > 0 => t \in revoked'
             /\ t \in revoked' => /\ issued'[t] # None
                                  /\ \/ denied'[t] > issued'[t].exp - Second
                                     \/ time' > issued'[t].exp - Second
  BY <1>2, LogoutDenies DEF DenylistOK
<1>3. CASE /\ UNCHANGED <<denied, revoked>> /\ time' >= time
           /\ UNCHANGED issued \/ \E r \in Requests : IssueToken(r)
  <2>1. issued[t] # None => issued'[t] = issued[t]
    BY <1>3 DEF IssueToken, RequestInv, TypeOK, SessionTypeOK
  <2>2. time' \in Int /\ time \in Int /\ (issued[t] # None => issued[t].exp - Second \in Int)
    BY StepTypeOK, SessionAssumption
    DEF RequestInv, TypeOK, SessionTypeOK, Token, Times, SessionAssumption
  <2> QED BY <1>3, <2>1, <2>2 DEF DenylistOK
<1> QED BY <1>1, <1>2, <1>3, DenylistWriters

LEMMA DenylistInvariance == Spec => [](RequestInv /\ DenylistOK)
<1>1. Init => RequestInv /\ DenylistOK
  BY InitRequestInv, InitDenylistOK
<1>2. RequestInv /\ DenylistOK /\ [Next]_vars => (RequestInv /\ DenylistOK)'
  BY StepRequestInv, StepDenylistOK
<1> QED BY <1>1, <1>2, PTL DEF Spec

(* A request goes on to load its caller only where its token has no key.     *)
LEMMA PassingTheDenylist ==
  ASSUME RequestInv, [Next]_vars, NEW r \in Requests, phase[r] = "checking"
  PROVE  /\ phase'[r] = "loading" => ~Denied(call[r].token)
         /\ answer'[r] = "not_authenticated" =>
              Denied(call[r].token) \/ answer[r] = "not_authenticated"
<1> USE DEF RequestInv, TypeOK, SessionTypeOK
<1>1. CASE (Outages /\ UNCHANGED <<overlapped, listingVars>>) \/ UNCHANGED vars
  BY <1>1, OutagesKeep DEF Keeps
<1>2. ASSUME NEW q \in Requests, StepOf(q), q # r
      PROVE  Keeps(r)
  BY <1>2, OthersKeep
<1>3. CASE StepOf(r)
  <2>1. CASE TokenDenied(r)
    BY <2>1 DEF TokenDenied, Refuse, Answer, Enter
  <2>2. CASE TokenNotDenied(r)
    BY <2>2 DEF TokenNotDenied, Enter
  <2>3. CASE RequestBreaks(r)
    BY <2>3 DEF RequestBreaks, Refuse, Answer, Enter
  <2> QED BY <1>3, <2>1, <2>2, <2>3
    DEF StepOf, Session, Arrive, Present, CallerInactive, CallerRefused, CallerAdmitted, Read,
        Logout, LoginRefused, LoginVerified, IssueToken,
        Edit, SelfLockout, UserNotFound, EmailExists, WriteClashes, Respond, CreateStart,
        UpdateLoad, EmailFree, WriteCreate, WriteUpdate,
        ListingStep, BrowseCount, BrowsePage, Open, NotOpened, RowNotFound, RowLoaded,
        ListStart, OwnerSettled, OwnerRefused, SaveRow, SaveNewRow
<1> QED BY <1>1, <1>2, <1>3, Steps DEF Keeps

(* A token that was logged out is let through only where Redis cannot be     *)
(* asked or in the token's last second, for any lifetime and any clock.      *)
THEOREM RevocationHolds == Spec => RevokedStaysOut
<1>1. ASSUME RequestInv, DenylistOK, [Next]_vars, NEW r \in Requests,
             phase[r] = "checking", phase'[r] = "loading", call[r].token \in revoked
      PROVE  ~storeUp \/ time > issued[call[r].token].exp - Second
  <2> DEFINE t == call[r].token
  <2>1. t \in Tokens /\ ~Denied(t)
    BY <1>1, PassingTheDenylist DEF RequestInv, TypeOK, SessionTypeOK
  <2>2. denied[t] \in Int /\ time \in Int /\ issued[t].exp - Second \in Int
    BY <1>1, <2>1, SessionAssumption
    DEF RequestInv, DenylistOK, TypeOK, SessionTypeOK, Token, Times, SessionAssumption
  <2> QED BY <1>1, <2>1, <2>2 DEF DenylistOK, Denied
<1>2. RequestInv /\ DenylistOK /\ [Next]_vars
        => [\A r \in Requests :
              phase[r] = "checking" /\ phase'[r] = "loading" /\ call[r].token \in revoked =>
                ~storeUp \/ time > issued[call[r].token].exp - Second]_sessionVars
  BY <1>1
<1> QED BY <1>2, DenylistInvariance, PTL DEF Spec, RevokedStaysOut
-----------------------------------------------------------------------------
(* Requests are answered once.                                               *)

LEMMA OneAnswer ==
  ASSUME RequestInv, NEW r \in Requests, StepOf(r)
  PROVE  phase[r] # "done" /\ (phase'[r] = "done" \/ answer'[r] = answer[r])
<1> USE DEF RequestInv, TypeOK, SessionTypeOK, Refuse, Answer, Enter
<1>1. CASE Session(r)
  BY <1>1
  DEF Session, Arrive, Present, TokenDenied, TokenNotDenied, CallerInactive, CallerRefused,
      CallerAdmitted, Read, Logout, LoginRefused, LoginVerified, IssueToken, RequestBreaks
<1>2. CASE Edit(r)
  BY <1>2
  DEF Edit, SelfLockout, UserNotFound, EmailExists, WriteClashes, Respond, CreateStart,
      UpdateLoad, EmailFree, WriteCreate, WriteUpdate, Commit
<1>3. CASE ListingStep(r)
  BY <1>3
  DEF ListingStep, BrowseCount, BrowsePage, Open, NotOpened, RowNotFound, RowLoaded,
      ListStart, OwnerSettled, OwnerRefused, SaveRow, SaveNewRow, Store
<1> QED BY <1>1, <1>2, <1>3 DEF StepOf

LEMMA StepAnswersOK == RequestInv /\ AnswersOK /\ [Next]_vars => AnswersOK'
<1> SUFFICES ASSUME RequestInv, AnswersOK, [Next]_vars, NEW q \in Requests, phase'[q] # "done"
             PROVE  answer'[q] = "none"
  BY DEF AnswersOK
<1>1. CASE (Outages /\ UNCHANGED <<overlapped, listingVars>>) \/ UNCHANGED vars
  BY <1>1, OutagesKeep DEF Keeps, AnswersOK
<1>2. ASSUME NEW r \in Requests, StepOf(r) PROVE answer'[q] = "none"
  BY <1>2, OthersKeep, OneAnswer DEF Keeps, AnswersOK
<1> QED BY <1>1, <1>2, Steps

LEMMA AnswersInvariance == Spec => [](RequestInv /\ AnswersOK)
<1>1. Init => RequestInv /\ AnswersOK
  BY InitRequestInv DEF Init, AccountInit, SessionInit, AnswersOK
<1>2. RequestInv /\ AnswersOK /\ [Next]_vars => (RequestInv /\ AnswersOK)'
  BY StepRequestInv, StepAnswersOK
<1> QED BY <1>1, <1>2, PTL DEF Spec

(* Only a token that was itself logged out is turned away by the denylist,   *)
(* whoever else's sessions end meanwhile.                                    *)
THEOREM OtherSessionsGoOn == Spec => OthersStayIn
<1>1. ASSUME RequestInv, AnswersOK, DenylistOK, [Next]_vars, NEW r \in Requests,
             phase[r] = "checking", answer'[r] = "not_authenticated"
      PROVE  call[r].token \in revoked
  <2>1. call[r].token \in Tokens /\ Denied(call[r].token)
    BY <1>1, PassingTheDenylist
    DEF AnswersOK, RequestInv, RequestOK, TokenOK
  <2>2. denied[call[r].token] > 0
    BY <1>1, <2>1, SessionAssumption
    DEF Denied, RequestInv, TypeOK, SessionTypeOK, Times, SessionAssumption
  <2> QED BY <1>1, <2>1, <2>2 DEF DenylistOK
<1>2. RequestInv /\ AnswersOK /\ DenylistOK /\ [Next]_vars
        => [\A r \in Requests :
              phase[r] = "checking" /\ answer'[r] = "not_authenticated" =>
                call[r].token \in revoked]_sessionVars
  BY <1>1
<1> QED BY <1>2, DenylistInvariance, AnswersInvariance, PTL DEF Spec, OthersStayIn

-----------------------------------------------------------------------------
(* Standing.                                                                 *)

LEMMA InitStandingOK == Init => StandingOK
  BY DEF Init, AccountInit, SessionInit, StandingOK

(* A request whose caller has no standing is refused.                        *)
LEMMA NoStanding ==
  ASSUME RequestInv, StandingOK, NEW r \in expelled, r \in Requests, StepOf(r)
  PROVE  /\ phase[r] \in {"checking", "loading"}
         /\ phase'[r] \in {"loading", "done"} /\ answer'[r] # "ok"
         /\ phase'[r] = "loading" => UNCHANGED <<users, issued, call, expelled>>
         /\ UNCHANGED <<users, issued, expelled>>
<1> USE DEF RequestInv, TypeOK, SessionTypeOK, Refuse, Answer, Enter, dataVars
<1>1. phase[r] \in {"checking", "loading"} /\ ~HasStanding(call[r], users[CallerId(r)])
  BY OneAnswer DEF StandingOK
<1>2. CASE TokenDenied(r) \/ CallerInactive(r) \/ CallerRefused(r) \/ RequestBreaks(r)
  BY <1>1, <1>2 DEF StandingOK, TokenDenied, CallerInactive, CallerRefused, RequestBreaks, Outside
<1>3. CASE TokenNotDenied(r)
  BY <1>1, <1>3 DEF StandingOK, TokenNotDenied
<1>4. ~CallerAdmitted(r)
  BY <1>1 DEF CallerAdmitted, HasStanding, Forbidden, RoleOf, CallerId
<1> QED BY <1>1, <1>2, <1>3, <1>4
  DEF StepOf, Session, Arrive, Present, Read, Logout, LoginRefused, LoginVerified, IssueToken,
      Edit, SelfLockout, UserNotFound, EmailExists, WriteClashes, Respond, CreateStart,
      UpdateLoad, EmailFree, WriteCreate, WriteUpdate,
      ListingStep, BrowseCount, BrowsePage, Open, NotOpened, RowNotFound, RowLoaded,
      ListStart, OwnerSettled, OwnerRefused, SaveRow, SaveNewRow

LEMMA StepStandingOK == RequestInv /\ AnswersOK /\ StandingOK /\ [Next]_vars => StandingOK'
<1> SUFFICES ASSUME RequestInv, AnswersOK, StandingOK, [Next]_vars, NEW q \in expelled'
             PROVE  /\ phase'[q] \in {"checking", "loading", "done"} /\ answer'[q] # "ok"
                    /\ phase'[q] # "done" => ~HasStanding(call'[q], users'[CallerId(q)'])
  BY DEF StandingOK
<1>0. q \in Requests
  BY StepTypeOK DEF TypeOK, SessionTypeOK
<1> DEFINE Out(x) == /\ phase'[x] \in {"checking", "loading", "done"} /\ answer'[x] # "ok"
                     /\ phase'[x] # "done" => ~HasStanding(call'[x], users'[CallerId(x)'])
<1>1. CASE (Outages /\ UNCHANGED <<overlapped, listingVars>>) \/ UNCHANGED vars
  BY <1>0, <1>1, OutagesKeep DEF Keeps, StandingOK, CallerId
<1>2. ASSUME NEW r \in Requests, StepOf(r) PROVE Out(q)
  <2>1. CASE q = r /\ q \in expelled
    BY <1>0, <1>2, <2>1, NoStanding DEF StandingOK, CallerId
  <2>2. CASE Arrive(r)
    <3>1. PICK c \in Calls : Present(r, c)
      BY <2>2 DEF Arrive
    <3>2. CASE q = r
      <4>1. q \notin expelled => phase'[r] = "checking" /\ call'[r] = c
                                 /\ ~HasStanding(c, users[issued[c.token].user])
        BY <3>1, <3>2 DEF Present, RequestInv, TypeOK, SessionTypeOK, Enter
      <4>2. q \notin expelled => answer'[r] = "none"
        BY <1>2, <3>1, <4>1 DEF Present, AnswersOK, RequestInv, TypeOK, SessionTypeOK, Answer, Enter
      <4>3. UNCHANGED <<users, issued>>
        BY <3>1 DEF Present, dataVars
      <4> QED BY <2>1, <3>2, <4>1, <4>2, <4>3 DEF CallerId
    <3>3. CASE q # r
      <4>1. Keeps(q) /\ q \in expelled /\ UNCHANGED <<users, issued>>
        BY <1>0, <1>2, <3>1, <3>3, OthersKeep DEF Present, dataVars
      <4> QED BY <4>1 DEF Keeps, StandingOK, CallerId
    <3> QED BY <3>2, <3>3
  <2>3. CASE WriteCreate(r) \/ WriteUpdate(r)
    <3>1. PICK table : Commit(r, table)
      BY <2>3 DEF WriteCreate, WriteUpdate
    <3>2. /\ q \in expelled /\ ~HasStanding(call[q], users'[issued[call[q].token].user])
          /\ UNCHANGED <<issued, call>>
      BY <3>1 DEF Commit
    <3>3. q # r
      BY <2>3, <3>2 DEF WriteCreate, WriteUpdate, StandingOK
    <3> QED BY <1>0, <1>2, <3>2, <3>3, OthersKeep DEF Keeps, StandingOK, CallerId
  <2>4. CASE UNCHANGED <<users, overlapped, expelled>> /\ q # r
    <3>1. phase[q] # "done" => issued[call[q].token] # None /\ call[q].token \in Tokens
      BY <1>0, <2>4 DEF StandingOK, RequestInv, RequestOK, TokenOK
    <3> QED BY <1>0, <1>2, <2>4, <3>1, OthersKeep, StepGrows DEF Keeps, StandingOK, CallerId, Grows
  <2> QED BY <1>0, <1>2, <2>1, <2>2, <2>3, <2>4, Writers
<1> QED BY <1>1, <1>2, Steps

LEMMA StandingInvariance == Spec => [](RequestInv /\ AnswersOK /\ StandingOK)
<1>1. Init => StandingOK
  BY InitStandingOK
<1>2. RequestInv /\ AnswersOK /\ StandingOK /\ [Next]_vars => StandingOK'
  BY StepStandingOK
<1> QED BY <1>1, <1>2, AnswersInvariance, PTL DEF Spec

(* A caller who lacked standing ever since her request came in has it        *)
(* refused, whatever her token says and whoever is edited meanwhile.         *)
THEOREM StandingDecides == Spec => []NoStandingNoEffect
<1>1. StandingOK => NoStandingNoEffect
  BY DEF StandingOK, NoStandingNoEffect
<1> QED BY <1>1, StandingInvariance, PTL
-----------------------------------------------------------------------------
(* Accounts.                                                                 *)

(* Only an admitted administrator comes to edit accounts.                    *)
LEMMA Editors ==
  ASSUME RequestInv, NEW r \in Requests, StepOf(r), r \in Editing'
  PROVE  r \in Editing \/ CallerAdmitted(r)
<1> USE DEF RequestInv, TypeOK, SessionTypeOK, Refuse, Answer, Enter
<1>1. call'[r].kind \in {"create", "update"} /\ phase'[r] \in {"admitted", "addressing", "writing"}
  BY DEF Editing
<1>2. CASE Session(r)
  <2>1. CASE LoginVerified(r)
    BY <1>1, <2>1 DEF LoginVerified
  <2> QED BY <1>1, <1>2, <2>1
    DEF Session, Arrive, Present, TokenDenied, TokenNotDenied, CallerInactive, CallerRefused,
        Read, Logout, LoginRefused, IssueToken, RequestBreaks
<1>3. CASE Edit(r)
  <2>1. UNCHANGED call /\ phase[r] \in {"admitted", "addressing", "writing"}
    BY <1>1, <1>3
    DEF Edit, SelfLockout, UserNotFound, EmailExists, WriteClashes, Respond, CreateStart,
        UpdateLoad, EmailFree, WriteCreate, WriteUpdate, Commit
  <2> QED BY <1>1, <2>1 DEF Editing
<1>4. CASE ListingStep(r)
  <2>1. UNCHANGED call
    BY <1>4
    DEF ListingStep, BrowseCount, BrowsePage, Open, NotOpened, RowNotFound, RowLoaded,
        ListStart, OwnerSettled, OwnerRefused, SaveRow, SaveNewRow, Store
  <2> QED BY <1>1, <1>4, <2>1
    DEF RequestOK, KindOK, Writes, ListingStep, BrowseCount, BrowsePage, Open, NotOpened, RowNotFound,
        RowLoaded, ListStart, OwnerSettled, OwnerRefused, SaveRow, SaveNewRow, Store
<1> QED BY <1>2, <1>3, <1>4 DEF StepOf

(* An edit that is committed alone leaves its caller an administrator.       *)
LEMMA EditorStays ==
  ASSUME RequestInv, NEW r \in Requests, WriteCreate(r) \/ WriteUpdate(r),
         IsAdmin(users[CallerId(r)])
  PROVE  CallerId(r) \in Users /\ IsAdmin(users'[CallerId(r)])
<1> USE DEF RequestInv, TypeOK, SessionTypeOK
<1>1. CallerId(r) \in Users /\ users[CallerId(r)] \in Account
  <2>1. phase[r] = "writing"
    BY DEF WriteCreate, WriteUpdate
  <2> QED BY <2>1 DEF RequestOK, TokenOK, TokensOK, CallerId, Token, Served
<1>2. CASE WriteCreate(r)
  <2>1. PICK u \in Users : users[u] = None /\ Commit(r, [users EXCEPT ![u] = Created(r)])
    BY <1>2 DEF WriteCreate
  <2> QED BY <1>1, <2>1 DEF Commit, IsAdmin
<1>3. CASE WriteUpdate(r)
  <2>1. /\ call[r].target \in Users /\ Written(r) \in Account /\ ~LocksOut(r)
        /\ call[r] \in Call /\ copy[r] \in Account /\ users[call[r].target] \in Account
    BY <1>3, UpdateTypes DEF WriteUpdate, RequestOK, CopyOK
  <2>2. users' = [users EXCEPT ![call[r].target] = Written(r)]
    BY <1>3 DEF WriteUpdate, Commit
  <2>3. CASE call[r].target # CallerId(r)
    BY <1>1, <2>1, <2>2, <2>3
  <2>4. CASE call[r].target = CallerId(r)
    <3>1. call[r].patch.role \in {None, "admin"} /\ call[r].patch.status # "disabled"
      BY <2>1, <2>4 DEF LocksOut
    <3>2. call[r].patch.status \in {None, "active"}
      BY <2>1, <3>1 DEF Call, Patch, Standings
    <3>3. Written(r).role = "admin" /\ Written(r).status = "active"
      BY <2>1, <2>4, <3>1, <3>2, WrittenAccount DEF IsAdmin
    <3> QED BY <1>1, <2>1, <2>2, <2>4, <3>3, AccountFields DEF IsAdmin
  <2> QED BY <2>3, <2>4
<1> QED BY <1>2, <1>3

LEMMA StepAdminOK == RequestInv /\ AdminOK /\ [Next]_vars => AdminOK'
<1> SUFFICES ASSUME RequestInv, AdminOK, [Next]_vars, ~overlapped'
             PROVE  /\ \E u \in Users : IsAdmin(users'[u])
                    /\ \A q \in Editing' : IsAdmin(users'[CallerId(q)'])
  BY DEF AdminOK, IsAdmin
<1>1. CASE (Outages /\ UNCHANGED <<overlapped, listingVars>>) \/ UNCHANGED vars
  BY <1>1, OutagesKeep DEF Keeps, AdminOK, IsAdmin, Editing, CallerId
<1>2. ASSUME NEW r \in Requests, StepOf(r)
      PROVE  /\ \E u \in Users : IsAdmin(users'[u])
             /\ \A q \in Editing' : IsAdmin(users'[CallerId(q)'])
  <2>1. CASE WriteCreate(r) \/ WriteUpdate(r)
    <3>1. PICK table : Commit(r, table)
      BY <2>1 DEF WriteCreate, WriteUpdate
    <3>2. ~overlapped /\ Editing \subseteq {r} /\ phase'[r] = "written"
      BY <3>1 DEF Commit, Enter, RequestInv, TypeOK, SessionTypeOK
    <3>3. r \in Editing
      BY <2>1 DEF WriteCreate, WriteUpdate, Editing
    <3>4. \E u \in Users : IsAdmin(users'[u])
      BY <2>1, <3>2, <3>3, EditorStays DEF AdminOK
    <3>5. Editing' = {}
      BY <1>2, <3>2, OthersKeep DEF Editing, Keeps
    <3> QED BY <3>4, <3>5
  <2>2. CASE UNCHANGED <<users, overlapped>>
    <3>1. ~overlapped /\ \E u \in Users : IsAdmin(users'[u])
      BY <2>2 DEF AdminOK
    <3>2. ASSUME NEW q \in Editing' PROVE IsAdmin(users'[CallerId(q)'])
      <4>1. q \in Requests
        BY DEF Editing
      <4>2. CASE q \in Editing
        <5>1. CASE q = r
          <6>1. phase[r] \in {"admitted", "addressing", "writing"} /\ call[r].kind \in {"create", "update"}
            BY <4>2, <5>1 DEF Editing
          <6>2. UNCHANGED call
            BY <1>2, <6>1
            DEF StepOf, Session, Arrive, Present, TokenDenied, TokenNotDenied, CallerInactive,
                CallerRefused, CallerAdmitted, Read, Logout, LoginRefused, LoginVerified,
                IssueToken, RequestBreaks, Edit, SelfLockout, UserNotFound, EmailExists,
                WriteClashes, Respond, CreateStart, UpdateLoad, EmailFree, WriteCreate,
                WriteUpdate, Commit, ListingStep, BrowseCount, BrowsePage, Open, NotOpened,
                RowNotFound, RowLoaded, ListStart, OwnerSettled, OwnerRefused, SaveRow,
                SaveNewRow, Store, Refuse
          <6>3. call[r].token \in Tokens /\ issued[call[r].token] # None
            BY <6>1 DEF RequestInv, RequestOK, TokenOK, Served
          <6> QED BY <1>2, <2>2, <3>1, <4>2, <5>1, <6>2, <6>3, StepGrows DEF Grows, CallerId, AdminOK
        <5>2. CASE q # r
          <6>1. Keeps(q)
            BY <1>2, <4>1, <5>2, OthersKeep
          <6>2. call[q].token \in Tokens /\ issued[call[q].token] # None
            BY <4>1, <4>2 DEF Editing, RequestInv, RequestOK, TokenOK, Served
          <6> QED BY <1>2, <2>2, <3>1, <4>2, <6>1, <6>2, StepGrows DEF Keeps, Grows, CallerId, AdminOK
        <5> QED BY <5>1, <5>2
      <4>3. CASE q \notin Editing
        <5>1. q = r /\ CallerAdmitted(r)
          BY <1>2, <4>1, <4>3, OthersKeep, Editors DEF Editing, Keeps
        <5>2. call[r].kind \in {"create", "update"} /\ UNCHANGED <<issued, call>>
          BY <3>2, <5>1 DEF CallerAdmitted, dataVars, Editing
        <5>3. users[CallerId(r)].role = "admin" /\ users[CallerId(r)].status = "active"
          BY <5>1, <5>2, AllowedRoles DEF CallerAdmitted, Forbidden, RoleOf, CallerId
        <5>4. users[CallerId(r)] # None
          BY <5>1 DEF CallerAdmitted, RequestInv, RequestOK, TokenOK, TokensOK, CallerId
        <5> QED BY <2>2, <5>1, <5>2, <5>3, <5>4 DEF IsAdmin, CallerId
      <4> QED BY <4>2, <4>3
    <3> QED BY <3>1, <3>2
  <2> QED BY <1>2, <2>1, <2>2, Writers
<1> QED BY <1>1, <1>2, Steps

(* Some administrator can always act, unless two edits were under way at     *)
(* once, for any number of accounts and of requests.                         *)
THEOREM AdministratorRemains == Spec => []SomeAdmin
<1>1. Init => AdminOK
  BY DEF Init, AccountInit, SessionInit, AdminOK, IsAdmin, Editing
<1>2. RequestInv /\ AdminOK /\ [Next]_vars => AdminOK'
  BY StepAdminOK
<1>3. AdminOK => SomeAdmin
  BY DEF AdminOK, SomeAdmin
<1> QED BY <1>1, <1>2, <1>3, RequestInvariance, PTL DEF Spec

LEMMA StepAddressOK == RequestInv /\ AddressOK /\ [Next]_vars => AddressOK'
<1> SUFFICES ASSUME RequestInv, AddressOK, [Next]_vars PROVE AddressOK'
  OBVIOUS
<1> USE DEF RequestInv, TypeOK, SessionTypeOK
<1>1. CASE UNCHANGED users
  BY <1>1 DEF AddressOK, Unique
<1>2. ASSUME NEW r \in Requests, WriteCreate(r) PROVE AddressOK'
  <2>1. PICK u \in Users :
          /\ Unique([users EXCEPT ![u] = Created(r)])
          /\ Commit(r, [users EXCEPT ![u] = Created(r)])
    BY <1>2 DEF WriteCreate
  <2>2. ~Created(r).email.sloppy
    BY <1>2, CreatedAccount DEF WriteCreate, RequestOK, TokenOK, Served
  <2> QED BY <2>1, <2>2 DEF Commit, AddressOK, Unique
<1>3. ASSUME NEW r \in Requests, WriteUpdate(r) PROVE AddressOK'
  <2>1. /\ Unique([users EXCEPT ![call[r].target] = Written(r)])
        /\ users' = [users EXCEPT ![call[r].target] = Written(r)]
    BY <1>3 DEF WriteUpdate, Commit
  <2>2. /\ call[r].target \in Users /\ copy[r] \in Account
        /\ users[call[r].target] \in Account /\ users[call[r].target] # None
    BY <1>3, UpdateTypes, AccountFields DEF WriteUpdate
  <2>3. ~Written(r).email.sloppy
    <3>1. call[r].patch.email # None => ~Address(r).sloppy
      BY NormalAddress DEF Address, Call, Patch
    <3> QED BY <2>2, <3>1, WrittenAccount DEF AddressOK
  <2> QED BY <2>1, <2>2, <2>3 DEF AddressOK, Unique
<1>4. UNCHANGED users \/ \E r \in Requests : WriteCreate(r) \/ WriteUpdate(r)
  BY Steps, Writers, OutagesKeep
<1> QED BY <1>1, <1>2, <1>3, <1>4

(* An address leads a login to the one account it was stored for, however    *)
(* edits of accounts race for it.                                            *)
THEOREM AddressesAreUnique == Spec => []AddressesIdentify
<1>1. Init => AddressOK
  BY DEF Init, AccountInit, AddressOK, Unique
<1>2. RequestInv /\ AddressOK /\ [Next]_vars => AddressOK'
  BY StepAddressOK
<1>3. RequestInv /\ AddressOK => AddressesIdentify
  <2> SUFFICES ASSUME RequestInv, AddressOK, NEW u \in Users, users[u] # None
               PROVE  Found(users[u].email) = {u}
    BY DEF AddressesIdentify
  <2>1. Normal(users[u].email) = users[u].email
    BY NormalAddress, AccountFields DEF AddressOK, RequestInv, TypeOK, SessionTypeOK
  <2> QED BY <2>1 DEF Found, AddressOK, Unique
<1> QED BY <1>1, <1>2, <1>3, RequestInvariance, PTL DEF Spec

(* No edit takes back what another one wrote: a column changes only to what  *)
(* a request about that account asks for.                                    *)
THEOREM EditsKeepToTheirFields == Spec => OnlyRequestedChanges
<1> DEFINE Asked(u) == \E r \in Requests :
             /\ phase[r] = "writing" /\ phase'[r] = "written" /\ call[r].target = u
             /\ \A f \in Fields : users'[u][f] = users[u][f] \/ call[r].patch[f] # None
<1>1. ASSUME RequestInv, [Next]_vars, NEW u \in Users, users[u] # None, users'[u] # users[u]
      PROVE  Asked(u)
  <2> USE <1>1 DEF RequestInv, TypeOK, SessionTypeOK
  <2>1. PICK r \in Requests : WriteCreate(r) \/ WriteUpdate(r)
    BY Steps, Writers, OutagesKeep
  <2>2. ~WriteCreate(r)
    BY DEF WriteCreate, Commit
  <2>3. /\ users' = [users EXCEPT ![call[r].target] = Written(r)]
        /\ phase[r] = "writing" /\ phase'[r] = "written"
        /\ call[r].kind = "update"
    BY <2>1, <2>2 DEF WriteUpdate, Commit, Enter
  <2>4. u = call[r].target /\ users'[u] = Written(r)
    BY <2>3
  <2>5. /\ Written(r) \in Account /\ users[u] \in Account
        /\ copy[r] \in Account /\ call[r].patch \in Patch
    BY <2>3, <2>4, UpdateTypes DEF Call
  <2>6. \A f \in Fields : users'[u][f] = users[u][f] \/ call[r].patch[f] # None
    BY <2>4, <2>5, WrittenAccount, AccountFields DEF Fields, Patch
  <2> QED BY <2>3, <2>4, <2>6
<1>2. RequestInv /\ [Next]_vars
        => [\A u \in Users : users[u] # None /\ users'[u] # users[u] => Asked(u)]_accountVars
  BY <1>1
<1> QED BY <1>2, RequestInvariance, PTL DEF Spec, OnlyRequestedChanges
=============================================================================
