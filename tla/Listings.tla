------------------------------- MODULE Listings -------------------------------
(* properties.py and property/queries.py: who sees a listing, who may write  *)
(* it, and who comes to own it, while accounts are edited.                   *)
EXTENDS Accounts, Paging

VARIABLES listings,  \* the table, None for an id that is not taken yet
          row,       \* the listing a request works on, as loaded
          owner,     \* whom the listing will belong to
          total,     \* how many listings a request has counted
          shown,     \* the listings a request was answered with
          outrun     \* requests since which an account or listing was written

listingVars == <<listings, row, owner, total, shown, outrun>>
vars == <<accountVars, listingVars>>

Listing == [agent_id : Users \cup {None}, status : ListingStatuses, details : Details]

ASSUME ListingAssumption == None \notin Listing

(* Owners of the seed's listings can serve them.                             *)
Init ==
  /\ AccountInit
  /\ listings \in [Properties -> Listing \cup {None}]
  /\ \A p \in Properties : listings[p] # None /\ listings[p].agent_id # None =>
       users[listings[p].agent_id] # None /\ users[listings[p].agent_id].role # "client"
  /\ row = [r \in Requests |-> None]
  /\ owner = [r \in Requests |-> None]
  /\ total = [r \in Requests |-> 0]
  /\ shown = [r \in Requests |-> {}]
  /\ outrun = {}

(* All is visible to an administrator, what is active to anyone, to an agent *)
(* also her own.                                                             *)
Visible(r, l) ==
  \/ caller[r].role = "admin"
  \/ l.status = "active"
  \/ caller[r].role = "agent" /\ l.agent_id = CallerId(r)

Editable(r, l) == caller[r].role = "admin" \/ l.agent_id = CallerId(r)

Finds(r, p) == listings[p] # None /\ Visible(r, listings[p])
FindsEditable(r, p) == listings[p] # None /\ Editable(r, listings[p])

Matches(l, body) ==
  /\ body.agent_id # None => l.agent_id = body.agent_id
  /\ body.status # None => l.status = body.status

Listed(r, l) == Visible(r, l) /\ Matches(l, call[r].body)

Listable(r) == {p \in Properties : listings[p] # None /\ Listed(r, listings[p])}

(* Two statements: other requests may write between the count and the page.  *)
BrowseCount(r) ==
  /\ phase[r] = "admitted" /\ call[r].kind = "browse"
  /\ total' = [total EXCEPT ![r] = Cardinality(Listable(r))]
  /\ Enter(r, "slicing")
  /\ UNCHANGED <<dataVars, call, answer, caller, copy, expelled, overlapped,
                 listings, row, owner, shown, outrun>>

BrowsePage(r) ==
  /\ phase[r] = "slicing"
  /\ \E place \in Orders([p \in Listable(r) |-> listings[p].details], call[r].descending) :
       shown' = [shown EXCEPT ![r] = Slice(place, call[r].page, call[r].size)]
  /\ Answer(r, "ok")
  /\ UNCHANGED <<dataVars, call, caller, copy, expelled, overlapped,
                 listings, row, owner, total, outrun>>

Open(r) ==
  /\ phase[r] = "admitted" /\ call[r].kind = "open"
  /\ Finds(r, call[r].about)
  /\ shown' = [shown EXCEPT ![r] = {call[r].about}]
  /\ Answer(r, "ok")
  /\ UNCHANGED <<dataVars, call, caller, copy, expelled, overlapped,
                 listings, row, owner, total, outrun>>

(* What is hidden is as good as absent.                                      *)
NotOpened(r) ==
  /\ phase[r] = "admitted" /\ call[r].kind = "open"
  /\ ~Finds(r, call[r].about)
  /\ Refuse(r, "property_not_found")
  /\ UNCHANGED <<overlapped, listingVars>>

Writes(c) == c.kind \in {"replace", "deactivate"}

RowNotFound(r) ==
  /\ phase[r] = "admitted" /\ Writes(call[r])
  /\ ~FindsEditable(r, call[r].about)
  /\ Refuse(r, "property_not_found")
  /\ UNCHANGED <<overlapped, listingVars>>

RowLoaded(r) ==
  /\ phase[r] = "admitted" /\ Writes(call[r])
  /\ FindsEditable(r, call[r].about)
  /\ row' = [row EXCEPT ![r] = listings[call[r].about]]
  /\ Enter(r, IF call[r].kind = "replace" THEN "owning" ELSE "writing")
  /\ UNCHANGED <<dataVars, call, answer, caller, copy, expelled, overlapped,
                 listings, owner, total, shown, outrun>>

ListStart(r) ==
  /\ phase[r] = "admitted" /\ call[r].kind = "list"
  /\ Enter(r, "owning")
  /\ UNCHANGED <<dataVars, call, answer, caller, copy, expelled, overlapped, listingVars>>

(* One's own account is in the session already.                              *)
RoleOfOwner(r, u) ==
  IF u = CallerId(r) THEN caller[r].role ELSE IF users[u] = None THEN None ELSE users[u].role

(* Mutant: any account will do.                                              *)
AnyOwner(r, u) == RoleOfOwner(r, u) # None

MayOwn(r, u) == RoleOfOwner(r, u) \in {"agent", "admin"}

Requested(r) == call[r].body.agent_id

OwnerAccepted(r) ==
  \/ caller[r].role = "agent"
  \/ Requested(r) = None
  \/ Requested(r) # None /\ MayOwn(r, Requested(r))

(* An agent owns what she writes, whatever the request says.                 *)
OwnerSettled(r) ==
  /\ phase[r] = "owning"
  /\ OwnerAccepted(r)
  /\ owner' = [owner EXCEPT ![r] = IF caller[r].role = "agent" THEN CallerId(r) ELSE Requested(r)]
  /\ Enter(r, "writing")
  /\ UNCHANGED <<dataVars, call, answer, caller, copy, expelled, overlapped,
                 listings, row, total, shown, outrun>>

OwnerRefused(r) ==
  /\ phase[r] = "owning"
  /\ ~OwnerAccepted(r)
  /\ Refuse(r, "invalid_agent_id")
  /\ UNCHANGED <<overlapped, listingVars>>

(* The listing as the request has it. A deactivated one is a draft.          *)
Replacement(r) ==
  IF call[r].kind = "deactivate" THEN [row[r] EXCEPT !.status = "draft"]
  ELSE [call[r].body EXCEPT !.agent_id = owner[r]]

(* Mutant: the whole row is written.                                         *)
SavedWhole(r) == Replacement(r)

(* Columns that differ from the row as loaded: only these are written.       *)
Saved(r) ==
  [f \in {"agent_id", "status", "details"} |->
     IF Replacement(r)[f] # row[r][f] THEN Replacement(r)[f] ELSE listings[call[r].about][f]]

Begun == {r \in Requests : phase[r] # "idle"}

Store(r, p, l) ==
  /\ listings' = [listings EXCEPT ![p] = l]
  /\ outrun' = outrun \cup (Begun \ {r})
  /\ Enter(r, "written")
  /\ UNCHANGED <<dataVars, call, answer, caller, copy, expelled, overlapped, row, owner, total, shown>>

SaveRow(r) ==
  /\ phase[r] = "writing" /\ Writes(call[r])
  /\ Store(r, call[r].about, Saved(r))

SaveNewRow(r) ==
  /\ phase[r] = "writing" /\ call[r].kind = "list"
  /\ \E p \in Properties : listings[p] = None /\ Store(r, p, Replacement(r))

ListingStep(r) ==
  \/ BrowseCount(r) \/ BrowsePage(r) \/ Open(r) \/ NotOpened(r)
  \/ RowNotFound(r) \/ RowLoaded(r) \/ ListStart(r)
  \/ OwnerSettled(r) \/ OwnerRefused(r) \/ SaveRow(r) \/ SaveNewRow(r)

Next ==
  \/ Outages /\ UNCHANGED <<overlapped, listingVars>>
  \/ \E r \in Requests : Session(r) /\ UNCHANGED <<overlapped, listingVars>>
  \/ \E r \in Requests :
       /\ Edit(r)
       /\ outrun' = IF users' = users THEN outrun ELSE outrun \cup (Begun \ {r})
       /\ UNCHANGED <<listings, row, owner, total, shown>>
  \/ \E r \in Requests : ListingStep(r)

Spec == Init /\ [][Next]_vars

-----------------------------------------------------------------------------
(* Properties.                                                               *)

TypeOK ==
  /\ SessionTypeOK /\ overlapped \in BOOLEAN
  /\ listings \in [Properties -> Listing \cup {None}]
  /\ row \in [Requests -> Listing \cup {None}]
  /\ owner \in [Requests -> Users \cup {None}]
  /\ total \in [Requests -> 0..Cardinality(Properties)]
  /\ shown \in [Requests -> SUBSET Properties]
  /\ outrun \subseteq Requests

(* The listing was given to someone else since the request loaded it.        *)
HandedOn(r) == listings[call[r].about].agent_id # row[r].agent_id

(* Whatever a caller is shown is, at that moment, in the scope she reads     *)
(* through: filters only narrow it. Whatever listing she replaces or         *)
(* withdraws is, as it is stored when she writes, hers as an agent, or she   *)
(* is an administrator: the scope of the writes knows no role, and the role  *)
(* gate makes up for it. One race is left to the program, and excepted here: *)
(* the UPDATE names the listing by its id only, so a listing handed to       *)
(* someone else after it was loaded is written all the same.                 *)
WithinScope ==
  [][\A r \in Requests :
       /\ \A p \in shown'[r] \ shown[r] :
            \/ listings[p].status = "active"
            \/ caller[r].role = "admin"
            \/ caller[r].role = "agent" /\ listings[p].agent_id = CallerId(r)
       /\ Writes(call[r]) /\ phase[r] = "writing" /\ phase'[r] = "written" =>
            \/ caller[r].role = "admin"
            \/ caller[r].role = "agent" /\ listings[call[r].about].agent_id = CallerId(r)
            \/ HandedOn(r)]_vars

(* An agent's save never takes back a listing that an administrator handed   *)
(* to someone else since it was loaded.                                      *)
ReassignmentStands ==
  [][\A r \in Requests :
       phase[r] = "writing" /\ phase'[r] = "written" /\ Writes(call[r]) /\ caller[r].role = "agent" =>
         listings'[call[r].about].agent_id = listings[call[r].about].agent_id]_vars

(* A listing is only ever given to an agent or an administrator, unless an   *)
(* account or a listing was written while the request was under way.         *)
OwnersMayServe ==
  [][\A p \in Properties : listings'[p] # listings[p] =>
       LET u == listings'[p].agent_id
       IN  \/ u = None
           \/ listings[p] # None /\ listings[p].agent_id = u
           \/ users[u].role \in {"agent", "admin"}
           \/ \E r \in outrun : phase[r] = "writing" /\ phase'[r] = "written"]_vars

(* Pages of one list that were read while nothing was written follow each    *)
(* other without a gap or a repetition, provided no two listings are equal   *)
(* in the column it is sorted by: full up to the last one, empty after it.   *)
PagesPartition ==
  LET Whole == {r \in Requests : call[r].kind = "browse" /\ answer[r] = "ok" /\ r \notin outrun}
      Distinct == \A p, q \in Properties :
        listings[p] # None /\ listings[q] # None /\ listings[p].details = listings[q].details => p = q
      Last(r) == TotalPages(total[r], call[r].size)
  IN  Distinct =>
        /\ \A r \in Whole :
             /\ call[r].page < Last(r) => Cardinality(shown[r]) = call[r].size
             /\ shown[r] # {} <=> call[r].page <= Last(r)
        /\ \A r, s \in Whole :
             [call[r] EXCEPT !.page = call[s].page] = call[s] /\ call[r].page < call[s].page =>
               \A p \in shown[r], q \in shown[s] :
                 Before(listings[p].details, listings[q].details, call[r].descending)
=============================================================================
