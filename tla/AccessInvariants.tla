--------------------------- MODULE AccessInvariants ---------------------------
(* The inductive invariants of Listings: what its requests have loaded, and  *)
(* what follows from it for accounts and listings. They carry the proofs in  *)
(* AccessProofs and ListingProofs and are model-checked before.              *)
EXTENDS Listings

(* The phases at which a request has been admitted.                          *)
Served == {"admitted", "addressing", "owning", "writing", "written", "slicing"}

(* A token is for an account that exists.                                    *)
TokensOK == \A t \in Tokens : issued[t] # None => users[issued[t].user] # None

(* The token of a request that is being checked or served.                   *)
TokenOK(r) ==
  phase[r] \in Served \cup {"checking", "loading"} =>
    /\ call[r].kind # "login" /\ WellFormed(call[r])
    /\ call[r].token \in Tokens /\ issued[call[r].token] # None

LoginOK(r) ==
  phase[r] = "verifying" =>
    call[r].kind = "login" /\ call[r].target \in Users /\ users[call[r].target] # None /\ caller[r] # None

(* Whoever is served was admitted to what she asks for.                      *)
CallerOK(r) == phase[r] \in Served => caller[r] # None /\ caller[r].role \in Allowed(call[r])

KindOK(r) ==
  /\ phase[r] = "addressing" => call[r].kind \in {"create", "update"} /\ call[r].patch.email # None
  /\ phase[r] = "owning" => call[r].kind \in {"list", "replace"}
  /\ phase[r] \in {"writing", "written"} =>
       call[r].kind \in {"create", "update", "list", "replace", "deactivate"}
  /\ phase[r] = "slicing" => call[r].kind = "browse"

(* An edit of an account has its copy, and does not lock its caller out.     *)
CopyOK(r) ==
  phase[r] \in {"addressing", "writing"} /\ call[r].kind = "update" =>
    copy[r] # None /\ users[call[r].target] # None /\ ~LocksOut(r)

(* An edit of a listing has a row its caller may write, and an agent is the  *)
(* owner of what she writes.                                                 *)
RowOK(r) ==
  /\ phase[r] \in {"owning", "writing"} /\ Writes(call[r]) =>
       row[r] # None /\ Editable(r, row[r]) /\ listings[call[r].about] # None
  /\ phase[r] = "writing" /\ call[r].kind \in {"list", "replace"} /\ caller[r].role = "agent" =>
       owner[r] = CallerId(r)

RequestOK(r) ==
  TokenOK(r) /\ LoginOK(r) /\ CallerOK(r) /\ KindOK(r) /\ CopyOK(r) /\ RowOK(r)

RequestInv == TypeOK /\ TokensOK /\ \A r \in Requests : RequestOK(r)

(* A request is answered when it is over.                                    *)
AnswersOK == \A r \in Requests : phase[r] # "done" => answer[r] = "none"

(* A token that was logged out has its key until its last second.            *)
DenylistOK ==
  \A t \in Tokens :
    /\ denied[t] > 0 => t \in revoked
    /\ t \in revoked => /\ issued[t] # None
                        /\ \/ denied[t] > issued[t].exp - Second
                           \/ time > issued[t].exp - Second

(* A request whose caller never had standing has not been admitted.          *)
StandingOK ==
  \A r \in expelled :
    /\ phase[r] \in {"checking", "loading", "done"} /\ answer[r] # "ok"
    /\ phase[r] # "done" => ~HasStanding(call[r], users[CallerId(r)])

(* Unless edits overlapped, some administrator can act, and so can the       *)
(* caller of every edit that is under way.                                   *)
AdminOK ==
  ~overlapped =>
    /\ \E u \in Users : IsAdmin(users[u])
    /\ \A r \in Editing : IsAdmin(users[CallerId(r)])

AddressOK ==
  /\ \A u \in Users : users[u] # None => ~users[u].email.sloppy
  /\ Unique(users)

(* While nothing is written a request's caller is as she was loaded, and the *)
(* owner it has settled on can serve.                                        *)
OwnerOK ==
  \A r \in Requests \ outrun :
    /\ phase[r] \in Served \ {"written"} => caller[r] = users[CallerId(r)]
    /\ phase[r] = "writing" /\ call[r].kind \in {"list", "replace"} /\ owner[r] # None =>
         users[owner[r]] # None /\ users[owner[r]].role \in {"agent", "admin"}

(* What a list is sorted by, and a page of it as it is now, in some order.   *)
Column(r) == [p \in Listable(r) |-> listings[p].details]

ShowsPage(r) ==
  \E place \in Orders(Column(r), call[r].descending) :
    shown[r] = Slice(place, call[r].page, call[r].size)

(* A list that was read while nothing was written shows a page of the        *)
(* listings as they are now, and its count is theirs.                        *)
BrowseOK ==
  \A r \in Requests \ outrun :
    /\ phase[r] = "slicing" => total[r] = Cardinality(Listable(r))
    /\ call[r].kind = "browse" /\ answer[r] = "ok" =>
         /\ phase[r] = "done" /\ call[r].token \in Tokens /\ issued[call[r].token] # None
         /\ caller[r] # None /\ caller[r] = users[CallerId(r)]
         /\ total[r] = Cardinality(Listable(r)) /\ ShowsPage(r)
=============================================================================
