---------------------------- MODULE ListingProofs -----------------------------
(* Who sees, writes and comes to own a listing, and how the pages of a list  *)
(* fit together, for any number of accounts, requests and listings.          *)
EXTENDS AccessProofs, PagingProofs

(* What a page may show is what its list holds.                              *)
LEMMA PagesShowTheList ==
  ASSUME NEW column, NEW d, NEW place \in Orders(column, d), NEW page, NEW size
  PROVE  Slice(place, page, size) \subseteq DOMAIN column
  BY DEF Slice, Orders

(* Only the two saves leave the phase in which requests write listings.      *)
LEMMA ListingWriters ==
  ASSUME RequestInv, [Next]_vars, NEW r \in Requests,
         phase[r] = "writing", phase'[r] = "written", Writes(call[r])
  PROVE  SaveRow(r)
<1>1. PICK q \in Requests : StepOf(q)
  BY Steps, OutagesKeep DEF Keeps
<1>2. q = r
  BY <1>1, OthersKeep DEF Keeps
<1> USE <1>1, <1>2 DEF Enter, Answer, Refuse, RequestInv, TypeOK, SessionTypeOK
<1>3. ~Session(r)
  BY DEF Session, Arrive, Present, TokenDenied, TokenNotDenied, CallerInactive, CallerRefused,
         CallerAdmitted, Read, Logout, LoginRefused, LoginVerified, IssueToken, RequestBreaks
<1>4. ~Edit(r)
  BY DEF Edit, SelfLockout, UserNotFound, EmailExists, WriteClashes, Respond, CreateStart,
         UpdateLoad, EmailFree, WriteCreate, WriteUpdate, Commit, Writes
<1> QED BY <1>3, <1>4
  DEF StepOf, ListingStep, BrowseCount, BrowsePage, Open, NotOpened, RowNotFound, RowLoaded,
      ListStart, OwnerSettled, OwnerRefused, SaveNewRow, Store, Writes

(* Only the pages and the single listing that was asked for are shown.       *)
LEMMA Showing ==
  ASSUME RequestInv, [Next]_vars, NEW r \in Requests, shown'[r] # shown[r]
  PROVE  BrowsePage(r) \/ Open(r)
<1>1. PICK q \in Requests : StepOf(q)
  BY Steps, OutagesKeep DEF Keeps
<1>2. q = r
  BY <1>1, OthersKeep DEF Keeps
<1> USE <1>1, <1>2 DEF listingVars
<1> QED BY
  DEF StepOf, ListingStep, BrowseCount, NotOpened, RowNotFound, RowLoaded, ListStart, OwnerSettled,
      OwnerRefused, SaveRow, SaveNewRow, Store

(* Whichever requests run beside hers, no caller is shown a listing outside  *)
(* her scope, and the stored listing she replaces or withdraws is hers as an *)
(* agent unless she is an administrator, or the listing was handed to        *)
(* someone else between her load and her save.                               *)
THEOREM ScopesHold == Spec => WithinScope
<1> DEFINE
      InScope(r, p) ==
        \/ listings[p].status = "active"
        \/ caller[r].role = "admin"
        \/ caller[r].role = "agent" /\ listings[p].agent_id = CallerId(r)
      WritesHers(r) ==
        \/ caller[r].role = "admin"
        \/ caller[r].role = "agent" /\ listings[call[r].about].agent_id = CallerId(r)
        \/ HandedOn(r)
<1>1. ASSUME RequestInv, [Next]_vars, NEW r \in Requests, NEW p \in shown'[r] \ shown[r]
      PROVE  InScope(r, p)
  <2> USE <1>1 DEF RequestInv, TypeOK, SessionTypeOK
  <2>1. CASE BrowsePage(r)
    <3>1. PICK place \in Orders([q \in Listable(r) |-> listings[q].details], call[r].descending) :
            shown'[r] = Slice(place, call[r].page, call[r].size)
      BY <2>1 DEF BrowsePage
    <3>2. p \in Listable(r)
      BY <3>1, PagesShowTheList
    <3> QED BY <3>2 DEF Listable, Listed, Visible
  <2>2. CASE Open(r)
    BY <2>2 DEF Open, Finds, Visible
  <2> QED BY <2>1, <2>2, Showing
<1>2. ASSUME RequestInv, [Next]_vars, NEW r \in Requests,
             phase[r] = "writing", phase'[r] = "written", Writes(call[r])
      PROVE  WritesHers(r)
  <2>1. Editable(r, row[r]) /\ caller[r].role \in Allowed(call[r])
    BY <1>2 DEF RequestInv, RequestOK, RowOK, CallerOK, Served
  <2>2. caller[r].role \in {"admin", "agent"}
    BY <1>2, <2>1, AllowedRoles DEF Writes
  <2>3. caller[r].role = "agent" => row[r].agent_id = CallerId(r)
    BY <2>1 DEF Editable
  <2> QED BY <2>2, <2>3 DEF HandedOn
<1>3. RequestInv /\ [Next]_vars
        => [\A r \in Requests :
              /\ \A p \in shown'[r] \ shown[r] : InScope(r, p)
              /\ Writes(call[r]) /\ phase[r] = "writing" /\ phase'[r] = "written" =>
                   WritesHers(r)]_vars
  BY <1>1, <1>2
<1> QED BY <1>3, RequestInvariance, PTL DEF Spec, WithinScope

(* The owner a save leaves a listing with: the one it asks for where that is *)
(* not the owner that was loaded, else the one the listing has by now.       *)
LEMMA OwnerSaved ==
  ASSUME RequestInv, NEW r \in Requests, SaveRow(r)
  PROVE  /\ call[r].about \in Properties /\ listings[call[r].about] # None
         /\ listings' = [listings EXCEPT ![call[r].about] = Saved(r)]
         /\ \/ Saved(r).agent_id = listings[call[r].about].agent_id
            \/ /\ call[r].kind = "replace"
               /\ owner[r] # row[r].agent_id /\ Saved(r).agent_id = owner[r]
<1> DEFINE p == call[r].about
<1>1. /\ p \in Properties /\ row[r] \in Listing /\ listings[p] \in Listing
      /\ Replacement(r) \in Listing
      /\ listings' = [listings EXCEPT ![p] = Saved(r)]
  BY SaveTypes DEF SaveRow, Store, Writes
<1>2. Saved(r).agent_id = IF Replacement(r).agent_id # row[r].agent_id
                          THEN Replacement(r).agent_id ELSE listings[p].agent_id
  BY <1>1, SavedListing
<1>3. CASE call[r].kind = "deactivate"
  <2>1. Replacement(r).agent_id = row[r].agent_id
    BY <1>1, <1>3 DEF Replacement, Listing
  <2> QED BY <1>1, <1>2, <2>1, ListingAssumption DEF ListingAssumption
<1>4. CASE call[r].kind = "replace"
  <2>1. Replacement(r).agent_id = owner[r]
    BY <1>4 DEF Replacement, RequestInv, TypeOK, SessionTypeOK, Call, Body
  <2> QED BY <1>1, <1>2, <1>4, <2>1, ListingAssumption DEF ListingAssumption
<1> QED BY <1>3, <1>4 DEF SaveRow, Writes

(* An agent's save of a listing that was handed to someone else meanwhile    *)
(* does not take it back.                                                    *)
THEOREM ReassignmentsStand == Spec => ReassignmentStands
<1>1. ASSUME RequestInv, [Next]_vars, NEW r \in Requests,
             phase[r] = "writing", phase'[r] = "written", Writes(call[r]), caller[r].role = "agent"
      PROVE  listings'[call[r].about].agent_id = listings[call[r].about].agent_id
  <2>1. SaveRow(r)
    BY <1>1, ListingWriters
  <2>2. row[r].agent_id = CallerId(r)
    BY <1>1 DEF RequestInv, RequestOK, RowOK, Editable
  <2>3. call[r].kind = "replace" => owner[r] = CallerId(r)
    BY <1>1 DEF RequestInv, RequestOK, RowOK
  <2> QED BY <1>1, <2>1, <2>2, <2>3, OwnerSaved DEF RequestInv, TypeOK
<1>2. RequestInv /\ [Next]_vars
        => [\A r \in Requests :
              phase[r] = "writing" /\ phase'[r] = "written" /\ Writes(call[r])
                /\ caller[r].role = "agent" =>
                listings'[call[r].about].agent_id = listings[call[r].about].agent_id]_vars
  BY <1>1
<1> QED BY <1>2, RequestInvariance, PTL DEF Spec, ReassignmentStands

-----------------------------------------------------------------------------
(* What holds for a request while nothing is written.                        *)

LEMMA Undisturbed ==
  ASSUME RequestInv, NEW q \in Requests, StepOf(q)
  PROVE  /\ outrun \subseteq outrun'
         /\ \A r \in Requests \ {q} :
              r \notin outrun' /\ phase[r] # "idle" => UNCHANGED <<users, listings>>
<1> USE DEF RequestInv, TypeOK, SessionTypeOK, Begun
<1>1. CASE Session(q) /\ UNCHANGED <<overlapped, listingVars>>
  BY <1>1 DEF listingVars, Refuse, dataVars, Session, Arrive, Present, TokenDenied, TokenNotDenied,
              CallerInactive, CallerRefused, CallerAdmitted, Read, Logout, LoginRefused,
              LoginVerified, IssueToken, RequestBreaks
<1>2. CASE outrun' = (IF users' = users THEN outrun ELSE outrun \cup (Begun \ {q}))
           /\ UNCHANGED <<listings, row, owner, total, shown>>
  BY <1>2
<1>3. CASE ListingStep(q)
  BY <1>3 DEF ListingStep, BrowseCount, BrowsePage, Open, NotOpened, RowNotFound, RowLoaded,
              ListStart, OwnerSettled, OwnerRefused, SaveRow, SaveNewRow, Store, Refuse,
              dataVars, listingVars
<1> QED BY <1>1, <1>2, <1>3 DEF StepOf

(* The caller of a request that is under way is found through her token.     *)
LEMMA CallerOfToken ==
  ASSUME RequestInv, NEW t \in Tokens, issued[t] # None
  PROVE  issued[t].user \in Users /\ users[issued[t].user] # None
  BY DEF RequestInv, TokensOK, TypeOK, SessionTypeOK, Token

(* The owner that a request settles on can serve.                            *)
LEMMA OwnerCanServe ==
  ASSUME RequestInv, OwnerOK, NEW r \in Requests \ outrun, OwnerSettled(r), owner'[r] # None
  PROVE  users[owner'[r]] # None /\ users[owner'[r]].role \in {"agent", "admin"}
<1>1. /\ CallerId(r) \in Users /\ users[CallerId(r)] # None
      /\ caller[r] = users[CallerId(r)]
      /\ owner'[r] = IF caller[r].role = "agent" THEN CallerId(r) ELSE Requested(r)
      /\ OwnerAccepted(r)
  BY CallerOfToken
  DEF OwnerSettled, OwnerOK, RequestInv, RequestOK, TokenOK, TypeOK, Served, CallerId
<1>2. CASE caller[r].role = "agent"
  BY <1>1, <1>2
<1>3. CASE caller[r].role # "agent"
  <2>1. owner'[r] = Requested(r) /\ RoleOfOwner(r, Requested(r)) \in {"agent", "admin"}
    BY <1>1, <1>3 DEF OwnerAccepted, MayOwn
  <2>2. CASE Requested(r) = CallerId(r)
    BY <1>1, <2>1, <2>2 DEF RoleOfOwner
  <2>3. CASE Requested(r) # CallerId(r)
    BY <2>1, <2>3, SessionAssumption DEF RoleOfOwner, SessionAssumption, Roles
  <2> QED BY <2>2, <2>3
<1> QED BY <1>2, <1>3

LEMMA StepOwnerOK == RequestInv /\ OwnerOK /\ [Next]_vars => OwnerOK'
<1> DEFINE CallerStays(r) == phase[r] \in Served \ {"written"} => caller[r] = users[CallerId(r)]
           OwnerServes(r) ==
             phase[r] = "writing" /\ call[r].kind \in {"list", "replace"} /\ owner[r] # None =>
               users[owner[r]] # None /\ users[owner[r]].role \in {"agent", "admin"}
<1> SUFFICES ASSUME RequestInv, OwnerOK, [Next]_vars, NEW r \in Requests, r \notin outrun'
             PROVE  CallerStays(r)' /\ OwnerServes(r)'
  BY DEF OwnerOK
<1>1. CASE UNCHANGED <<users, outrun, issued>> /\ Keeps(r)
  BY <1>1 DEF OwnerOK, Keeps, CallerId
<1>2. ASSUME NEW q \in Requests, StepOf(q), q # r PROVE CallerStays(r)' /\ OwnerServes(r)'
  <2>1. Keeps(r) /\ Grows /\ r \notin outrun /\ (phase[r] # "idle" => UNCHANGED users)
    BY <1>2, OthersKeep, StepGrows, Undisturbed
  <2>2. phase[r] \in Served => CallerId(r)' = CallerId(r)
    BY <2>1 DEF RequestInv, RequestOK, TokenOK, Grows, Keeps, CallerId
  <2> QED BY <2>1, <2>2 DEF OwnerOK, Keeps, Served
<1>3. ASSUME StepOf(r) PROVE CallerStays(r)' /\ OwnerServes(r)'
  <2>1. r \notin outrun /\ CallerStays(r) /\ OwnerServes(r)
    BY <1>3, Undisturbed DEF OwnerOK
  <2> USE <1>3 DEF RequestInv, TypeOK, SessionTypeOK, Enter, Answer, Refuse, dataVars
  <2>2. CASE Session(r) /\ UNCHANGED <<overlapped, listingVars>>
    BY <2>2 DEF Session, Arrive, Present, TokenDenied, TokenNotDenied, CallerInactive, CallerRefused,
                CallerAdmitted, Read, Logout, LoginRefused, LoginVerified, IssueToken, RequestBreaks,
                CallerId, Served
  <2>3. CASE Edit(r) /\ UNCHANGED <<listings, row, owner, total, shown>>
    BY <2>1, <2>3 DEF Edit, SelfLockout, UserNotFound, EmailExists, WriteClashes, Respond, CreateStart,
                      UpdateLoad, EmailFree, WriteCreate, WriteUpdate, Commit, CallerId, Served,
                      RequestOK, KindOK
  <2>4. CASE OwnerSettled(r)
    <3>1. UNCHANGED <<users, issued, call, caller>> /\ phase[r] = "owning" /\ phase'[r] = "writing"
      BY <2>4 DEF OwnerSettled
    <3>2. CallerStays(r)'
      BY <2>1, <3>1 DEF CallerId, Served
    <3>3. OwnerServes(r)'
      BY <2>1, <2>4, <3>1, OwnerCanServe
    <3> QED BY <3>2, <3>3
  <2>5. CASE ListingStep(r) /\ ~OwnerSettled(r)
    BY <2>1, <2>5 DEF ListingStep, BrowseCount, BrowsePage, Open, NotOpened, RowNotFound, RowLoaded,
                ListStart, OwnerRefused, SaveRow, SaveNewRow, Store, CallerId, Served, Writes
  <2> QED BY <2>2, <2>3, <2>4, <2>5 DEF StepOf
<1> QED BY <1>1, <1>2, <1>3, Steps, OutagesKeep

LEMMA OwnerInvariance == Spec => [](RequestInv /\ OwnerOK)
<1>1. Init => RequestInv /\ OwnerOK
  BY InitRequestInv DEF Init, AccountInit, SessionInit, OwnerOK, Served
<1>2. RequestInv /\ OwnerOK /\ [Next]_vars => (RequestInv /\ OwnerOK)'
  BY StepRequestInv, StepOwnerOK
<1> QED BY <1>1, <1>2, PTL DEF Spec

(* A listing comes only to those who can serve it, unless an account or a    *)
(* listing was written while the request that gives it was under way.        *)
THEOREM OwnersServe == Spec => OwnersMayServe
<1> DEFINE Fits(p) ==
      LET u == listings'[p].agent_id
      IN  \/ u = None
          \/ listings[p] # None /\ listings[p].agent_id = u
          \/ users[u].role \in {"agent", "admin"}
          \/ \E r \in outrun : phase[r] = "writing" /\ phase'[r] = "written"
<1>1. ASSUME RequestInv, OwnerOK, [Next]_vars, NEW p \in Properties, listings'[p] # listings[p]
      PROVE  Fits(p)
  <2> USE <1>1 DEF RequestInv, TypeOK, SessionTypeOK
  <2>1. PICK r \in Requests : SaveRow(r) \/ SaveNewRow(r)
    BY Steps, Writers, OutagesKeep
  <2>2. phase[r] = "writing" /\ phase'[r] = "written"
    BY <2>1 DEF SaveRow, SaveNewRow, Store, Enter
  <2>3. r \notin outrun /\ call[r].kind \in {"list", "replace"} /\ owner[r] # None =>
          users[owner[r]].role \in {"agent", "admin"}
    BY <2>2 DEF OwnerOK
  <2>4. CASE SaveRow(r)
    <3>1. p = call[r].about /\ listings'[p] = Saved(r)
      BY <2>4, OwnerSaved
    <3> QED BY <2>2, <2>3, <2>4, <3>1, OwnerSaved
  <2>5. CASE SaveNewRow(r)
    <3>1. listings'[p] = Replacement(r) /\ call[r].kind = "list"
      BY <2>5 DEF SaveNewRow, Store
    <3>2. listings'[p].agent_id = owner[r]
      BY <3>1 DEF Replacement, Call, Body
    <3> QED BY <2>2, <2>3, <3>1, <3>2
  <2> QED BY <2>1, <2>4, <2>5
<1>2. RequestInv /\ OwnerOK /\ [Next]_vars
        => [\A p \in Properties : listings'[p] # listings[p] => Fits(p)]_vars
  BY <1>1
<1> QED BY <1>2, OwnerInvariance, PTL DEF Spec, OwnersMayServe
-----------------------------------------------------------------------------
(* Pages.                                                                    *)

(* A list that nobody writes to, of a caller who stays as she was loaded,    *)
(* stays as it was.                                                          *)
LEMMA ListStays ==
  ASSUME NEW r \in Requests, UNCHANGED listings,
         call'[r] = call[r], caller'[r] = caller[r], CallerId(r)' = CallerId(r)
  PROVE  Listable(r)' = Listable(r) /\ Column(r)' = Column(r)
<1>1. Listable(r)' = Listable(r)
  BY DEF Listable, Listed, Visible, Matches
<1> QED BY <1>1 DEF Column

(* What a browse holds on to at each of its steps.                           *)
Counted(r) == phase[r] = "slicing" => total[r] = Cardinality(Listable(r))

Paged(r) ==
  call[r].kind = "browse" /\ answer[r] = "ok" =>
    /\ phase[r] = "done" /\ call[r].token \in Tokens /\ issued[call[r].token] # None
    /\ caller[r] # None /\ caller[r] = users[CallerId(r)]
    /\ total[r] = Cardinality(Listable(r)) /\ ShowsPage(r)

LEMMA KeptPages ==
  ASSUME RequestInv, Grows, NEW r \in Requests, Keeps(r),
         phase[r] # "idle" => UNCHANGED <<users, listings>>,
         Counted(r), Paged(r), AnswersOK
  PROVE  Counted(r)' /\ Paged(r)'
<1>1. ASSUME phase[r] = "slicing" PROVE Counted(r)'
  <2>1. CallerId(r)' = CallerId(r) /\ UNCHANGED listings
    BY <1>1 DEF RequestInv, RequestOK, TokenOK, Served, Grows, Keeps, CallerId
  <2>2. Listable(r)' = Listable(r)
    BY <2>1, ListStays DEF Keeps
  <2> QED BY <1>1, <2>2 DEF Counted, Keeps
<1>2. ASSUME call[r].kind = "browse", answer[r] = "ok" PROVE Paged(r)'
  <2>1. CallerId(r)' = CallerId(r) /\ UNCHANGED <<users, listings>> /\ issued'[call[r].token] # None
    BY <1>2 DEF Paged, Grows, Keeps, CallerId
  <2>2. Listable(r)' = Listable(r) /\ Column(r)' = Column(r)
    BY <2>1, ListStays DEF Keeps
  <2>3. ShowsPage(r)'
    BY <1>2, <2>2 DEF Paged, ShowsPage, Keeps
  <2> QED BY <1>2, <2>1, <2>2, <2>3 DEF Paged, Keeps
<1> QED BY <1>1, <1>2 DEF Counted, Paged, Keeps

LEMMA StepBrowseOK ==
  RequestInv /\ AnswersOK /\ OwnerOK /\ BrowseOK /\ [Next]_vars => BrowseOK'
<1> SUFFICES ASSUME RequestInv, AnswersOK, OwnerOK, BrowseOK, [Next]_vars,
                    NEW r \in Requests, r \notin outrun'
             PROVE  Counted(r)' /\ Paged(r)'
  BY DEF BrowseOK, Counted, Paged
<1>1. CASE (Outages /\ UNCHANGED <<overlapped, listingVars>>) \/ UNCHANGED vars
  <2>1. /\ Grows /\ Keeps(r) /\ r \notin outrun
        /\ phase[r] # "idle" => UNCHANGED <<users, listings>>
    BY <1>1, OutagesKeep DEF Grows
  <2>2. Counted(r) /\ Paged(r)
    BY <2>1 DEF BrowseOK, Counted, Paged
  <2> QED BY <2>1, <2>2, KeptPages
<1>2. ASSUME NEW q \in Requests, StepOf(q), q # r PROVE Counted(r)' /\ Paged(r)'
  <2>1. /\ Grows /\ Keeps(r) /\ r \notin outrun
        /\ phase[r] # "idle" => UNCHANGED <<users, listings>>
    BY <1>2, OthersKeep, StepGrows, Undisturbed
  <2>2. Counted(r) /\ Paged(r)
    BY <2>1 DEF BrowseOK, Counted, Paged
  <2> QED BY <2>1, <2>2, KeptPages
<1>3. ASSUME StepOf(r) PROVE Counted(r)' /\ Paged(r)'
  <2>0. /\ r \notin outrun /\ phase[r] # "done" /\ answer[r] = "none"
        /\ phase \in [Requests -> Phases] /\ answer \in [Requests -> Answers]
        /\ call \in [Requests -> Call]
    BY <1>3, Undisturbed, OneAnswer DEF AnswersOK, RequestInv, TypeOK, SessionTypeOK
  <2>1. CASE BrowseCount(r)
    <3>1. /\ UNCHANGED <<users, issued, listings, call, caller, answer>>
          /\ total'[r] = Cardinality(Listable(r))
      BY <2>1 DEF BrowseCount, dataVars, RequestInv, TypeOK
    <3>2. Listable(r)' = Listable(r)
      BY <3>1, ListStays DEF CallerId
    <3> QED BY <2>0, <3>1, <3>2 DEF Counted, Paged
  <2>2. CASE BrowsePage(r)
    <3>1. /\ UNCHANGED <<users, issued, listings, call, caller, total>>
          /\ phase[r] = "slicing" /\ phase'[r] = "done"
      BY <2>0, <2>2 DEF BrowsePage, dataVars, Answer, Enter
    <3>2. PICK place \in Orders(Column(r), call[r].descending) :
            shown'[r] = Slice(place, call[r].page, call[r].size)
      BY <2>2 DEF BrowsePage, Column, RequestInv, TypeOK
    <3>3. /\ call[r].token \in Tokens /\ issued[call[r].token] # None
          /\ caller[r] # None /\ caller[r] = users[CallerId(r)]
          /\ total[r] = Cardinality(Listable(r))
      BY <2>0, <3>1 DEF RequestInv, RequestOK, TokenOK, CallerOK, OwnerOK, BrowseOK, Served
    <3>4. CallerId(r)' = CallerId(r)
      BY <3>1 DEF CallerId
    <3>5. Listable(r)' = Listable(r) /\ Column(r)' = Column(r)
      BY <3>1, <3>4, ListStays
    <3>6. ShowsPage(r)'
      BY <3>1, <3>2, <3>5 DEF ShowsPage
    <3> QED BY <3>1, <3>3, <3>4, <3>5, <3>6 DEF Counted, Paged
  <2>3. CASE ~BrowseCount(r) /\ ~BrowsePage(r)
    <3>1. phase'[r] # "slicing"
      BY <1>3, <2>0, <2>3
      DEF StepOf, Enter, Answer, Refuse, Session, Arrive, Present, TokenDenied, TokenNotDenied,
          CallerInactive, CallerRefused, CallerAdmitted, Read, Logout, LoginRefused, LoginVerified,
          IssueToken, RequestBreaks, Edit, SelfLockout, UserNotFound, EmailExists, WriteClashes,
          Respond, CreateStart, UpdateLoad, AfterLoad, EmailFree, WriteCreate, WriteUpdate, Commit,
          ListingStep, Open, NotOpened, RowNotFound, RowLoaded, ListStart, OwnerSettled,
          OwnerRefused, SaveRow, SaveNewRow, Store
    <3>2. answer'[r] = "ok" => call'[r].kind # "browse"
      <4> USE <2>0 DEF Enter, Answer, Refuse
      <4>1. CASE Session(r)
        BY <4>1 DEF Session, Arrive, Present, TokenDenied, TokenNotDenied, CallerInactive,
            CallerRefused, CallerAdmitted, Read, Logout, LoginRefused, LoginVerified, IssueToken,
            RequestBreaks, Outside, RequestInv, RequestOK, LoginOK
      <4>2. CASE Edit(r)
        BY <4>2 DEF Edit, SelfLockout, UserNotFound, EmailExists, WriteClashes, Respond, CreateStart,
            UpdateLoad, EmailFree, WriteCreate, WriteUpdate, Commit, RequestInv, RequestOK, KindOK
      <4>3. CASE ListingStep(r)
        BY <2>3, <4>3 DEF ListingStep, Open, NotOpened, RowNotFound, RowLoaded, ListStart, OwnerSettled,
            OwnerRefused, SaveRow, SaveNewRow, Store
      <4> QED BY <1>3, <4>1, <4>2, <4>3 DEF StepOf
    <3> QED BY <3>1, <3>2 DEF Counted, Paged
  <2> QED BY <2>1, <2>2, <2>3
<1> QED BY <1>1, <1>2, <1>3, Steps

(* Pages of one list that were read while nothing was written follow each    *)
(* other without a gap or a repetition, for any number of listings and any   *)
(* size of page.                                                             *)
THEOREM PagesFitTogether == Spec => []PagesPartition
<1>1. Init => BrowseOK
  BY DEF Init, SessionInit, BrowseOK, AccountInit
<1>2. RequestInv /\ AnswersOK /\ OwnerOK /\ BrowseOK /\ [Next]_vars => BrowseOK'
  BY StepBrowseOK
<1>3. RequestInv /\ BrowseOK => PagesPartition
  <2> DEFINE Whole == {r \in Requests : call[r].kind = "browse" /\ answer[r] = "ok" /\ r \notin outrun}
             Last(r) == TotalPages(total[r], call[r].size)
  <2> SUFFICES ASSUME RequestInv, BrowseOK,
                      \A p, q \in Properties :
                        listings[p] # None /\ listings[q] # None
                          /\ listings[p].details = listings[q].details => p = q
               PROVE  /\ \A r \in Whole :
                           /\ call[r].page < Last(r) => Cardinality(shown[r]) = call[r].size
                           /\ shown[r] # {} <=> call[r].page <= Last(r)
                      /\ \A r, s \in Whole :
                           [call[r] EXCEPT !.page = call[s].page] = call[s]
                             /\ call[r].page < call[s].page =>
                             \A p \in shown[r], q \in shown[s] :
                               Before(listings[p].details, listings[q].details, call[r].descending)
    BY DEF PagesPartition
  <2>1. ASSUME NEW r \in Whole
        PROVE  /\ call[r] \in Call /\ IsFiniteSet(Listable(r))
               /\ Column(r) \in [Listable(r) -> Int]
               /\ \A p, q \in Listable(r) : Column(r)[p] = Column(r)[q] => p = q
               /\ \A p \in Listable(r) : Column(r)[p] = listings[p].details
               /\ caller[r] = users[CallerId(r)]
               /\ total[r] = Cardinality(Listable(r)) /\ ShowsPage(r)
    <3>1. Listable(r) \subseteq Properties /\ \A p \in Listable(r) : listings[p] \in Listing
      BY DEF Listable, RequestInv, TypeOK
    <3>2. IsFiniteSet(Listable(r))
      BY <3>1, FS_Subset, SessionAssumption DEF SessionAssumption
    <3>3. /\ Column(r) \in [Listable(r) -> Int]
          /\ \A p \in Listable(r) : Column(r)[p] = listings[p].details
      <4>1. ASSUME NEW p \in Listable(r) PROVE listings[p].details \in Int
        <5>1. listings[p] \in Listing
          BY <3>1
        <5>2. listings[p].details \in Details
          BY <5>1 DEF Listing
        <5>3. \A d \in Details : d \in Int
          BY SessionAssumption DEF SessionAssumption
        <5> QED BY <5>2, <5>3
      <4> QED BY <4>1 DEF Column
    <3>4. \A p, q \in Listable(r) : Column(r)[p] = Column(r)[q] => p = q
      BY <3>1, <3>3, ListingAssumption DEF ListingAssumption
    <3> QED BY <3>2, <3>3, <3>4 DEF RequestInv, TypeOK, SessionTypeOK, BrowseOK
  <2>2. ASSUME NEW r \in Whole
        PROVE  /\ call[r].page < Last(r) => Cardinality(shown[r]) = call[r].size
               /\ shown[r] # {} <=> call[r].page <= Last(r)
    <3>1. PICK place \in Orders(Column(r), call[r].descending) :
            shown[r] = Slice(place, call[r].page, call[r].size)
      BY <2>1 DEF ShowsPage
    <3>2. /\ DOMAIN Column(r) = Listable(r) /\ call[r].page \in Nat \ {0} /\ call[r].size \in Nat \ {0}
          /\ IsFiniteSet(Listable(r)) /\ total[r] = Cardinality(Listable(r))
      BY <2>1 DEF Call
    <3> QED BY <3>1, <3>2, PagesAreFull
  <2>3. ASSUME NEW r \in Whole, NEW s \in Whole,
               [call[r] EXCEPT !.page = call[s].page] = call[s], call[r].page < call[s].page,
               NEW p \in shown[r], NEW q \in shown[s]
        PROVE  Before(listings[p].details, listings[q].details, call[r].descending)
    <3>1. /\ call[r] \in Call /\ call[s] \in Call
          /\ call[s].token = call[r].token /\ call[s].body = call[r].body
          /\ call[s].size = call[r].size /\ call[s].descending = call[r].descending
      BY <2>1, <2>3 DEF Call
    <3>2. CallerId(s) = CallerId(r) /\ caller[s] = caller[r]
      BY <2>1, <3>1 DEF CallerId
    <3>3. Listable(s) = Listable(r)
      BY <3>1, <3>2 DEF Listable, Listed, Visible, Matches
    <3>4. Column(s) = Column(r)
      BY <3>3 DEF Column
    <3>5. PICK one \in Orders(Column(r), call[r].descending) :
            shown[r] = Slice(one, call[r].page, call[r].size)
      BY <2>1 DEF ShowsPage
    <3>6. PICK other \in Orders(Column(r), call[r].descending) :
            shown[s] = Slice(other, call[s].page, call[r].size)
      BY <2>1, <3>1, <3>4 DEF ShowsPage
    <3>7. /\ call[r].page \in Nat \ {0} /\ call[s].page \in Nat \ {0}
          /\ call[r].size \in Nat \ {0} /\ call[r].descending \in BOOLEAN
      BY <3>1 DEF Call
    <3>8. /\ IsFiniteSet(Listable(r)) /\ Column(r) \in [Listable(r) -> Int]
          /\ \A x, y \in Listable(r) : Column(r)[x] = Column(r)[y] => x = y
      BY <2>1
    <3>9. /\ p \in Slice(one, call[r].page, call[r].size)
          /\ q \in Slice(other, call[s].page, call[r].size)
      BY <2>3, <3>5, <3>6
    <3>10. p \in Listable(r) /\ q \in Listable(r)
             /\ Before(Column(r)[p], Column(r)[q], call[r].descending)
      <4> HIDE DEF Whole
      <4> QED BY <2>3, <3>7, <3>8, <3>9, PagesFollow
    <3> QED BY <2>1, <3>10
  <2> QED BY <2>2, <2>3
<1> QED BY <1>1, <1>2, <1>3, AnswersInvariance, OwnerInvariance, PTL DEF Spec
=============================================================================
