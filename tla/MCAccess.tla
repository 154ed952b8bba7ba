------------------------------ MODULE MCAccess ------------------------------
(* An instance small enough for TLC. A behaviour has one of four plans,      *)
(* drawn at its start: accounts stay and sessions come and go while time     *)
(* passes and Redis fails; two administrators edit accounts at one moment;   *)
(* an administrator and an agent edit listings, and the agent's account; or  *)
(* two callers turn the pages of a list while a listing is withdrawn.        *)
EXTENDS Listings, TLC

CONSTANTS u1, u2, u3, k1, k2, m1, m2, m3, p1, p2, p3

VARIABLE plan

mcVars == <<vars, plan>>

Typed(m) == [address |-> m, sloppy |-> TRUE]
AsStored(m) == Normal(Typed(m))

SessionCalls ==
  {[NoCall EXCEPT !.kind = k, !.token = t, !.via = v] :
     k \in {"read", "logout"}, t \in Tokens \cup {None}, v \in Vias}
  \cup {[NoCall EXCEPT !.kind = "login", !.via = v, !.patch.email = e] :
     v \in {"bearer", "cookie"}, e \in {Typed(m1), AsStored(m2)}}

(* One field at a time, or two together.                                     *)
Patches ==
  {[NoPatch EXCEPT !.email = e] : e \in {AsStored(m1), Typed(m3)}}
  \cup {[NoPatch EXCEPT !.role = x] : x \in {"admin", "client"}}
  \cup {[NoPatch EXCEPT !.status = x] : x \in Standings}
  \cup {[NoPatch EXCEPT !.role = "client", !.email = AsStored(m3)]}

AccountCalls ==
  {[NoCall EXCEPT !.token = t] : t \in Tokens}
  \cup {[NoCall EXCEPT !.kind = "update", !.token = t, !.target = u, !.patch = p] :
     t \in Tokens, u \in Users, p \in Patches}
  \cup {[NoCall EXCEPT !.kind = "create", !.token = k1, !.via = v,
                       !.patch = [email |-> e, role |-> "client", status |-> "active"]] :
     v \in {"cookie", "cookie_with_csrf"},
     e \in {Typed(m2), Typed(m3), AsStored(m3)}}

(* The administrator edits the agent's account, or hands listings over.      *)
ListingCalls ==
  {[NoCall EXCEPT !.kind = "update", !.token = k1, !.target = u2, !.patch.role = x] : x \in Roles}
  \cup {[NoCall EXCEPT !.kind = "open", !.token = t, !.about = p1] : t \in Tokens}
  \cup {[NoCall EXCEPT !.kind = "browse", !.token = k2, !.size = 3,
                       !.body.agent_id = u, !.body.status = s] :
       u \in {None, u1, u2}, s \in {None, "draft"}}
  \cup {[NoCall EXCEPT !.kind = "deactivate", !.token = t, !.about = p1] : t \in Tokens}
  \cup {[NoCall EXCEPT !.kind = k, !.token = t, !.about = IF k = "list" THEN None ELSE p1,
                     !.body = [agent_id |-> u, status |-> "active", details |-> 2]] :
       k \in {"list", "replace"}, t \in Tokens, u \in {None, u2, u3}}

PageCalls ==
  {[NoCall EXCEPT !.kind = "deactivate", !.token = k1, !.about = p1]}
  \cup {[NoCall EXCEPT !.kind = "browse", !.token = t, !.page = n, !.size = s, !.descending = x] :
       t \in Tokens, n \in 1..3, s \in 1..2, x \in BOOLEAN}

SomeCalls == SessionCalls \cup AccountCalls \cup ListingCalls \cup PageCalls

Administrator(m, s) == [email |-> AsStored(m), role |-> "admin", status |-> s]
IssuedTo(u, c) == [user |-> u, role |-> "admin", exp |-> Life * Second, csrf |-> c]

InPlan ==
  CASE plan = "sessions" -> \A r \in Requests : phase[r] # "idle" => call[r].kind \in {"login", "read", "logout"}
    [] plan = "accounts" -> /\ time = 0 /\ storeUp
                            /\ \A r \in Requests : phase[r] # "idle" => call[r] \in AccountCalls
    [] plan = "listings" -> /\ time = 0 /\ storeUp
                            /\ \A r \in Requests : phase[r] # "idle" => call[r] \in ListingCalls
    [] plan = "pages" -> /\ time = 0 /\ storeUp
                         /\ \A r \in Requests : phase[r] # "idle" => call[r] \in PageCalls

MCInit ==
  /\ plan \in {"sessions", "accounts", "listings", "pages"}
  /\ \E s \in Standings :
       /\ plan # "sessions" => s = "active"
       /\ users = (u1 :> Administrator(m1, "active") @@ u3 :> None @@
                  u2 :> [Administrator(m2, s) EXCEPT
                           !.role = IF plan \in {"listings", "pages"} THEN "agent" ELSE "admin"])
  /\ IF plan # "sessions" THEN issued = (k1 :> IssuedTo(u1, TRUE) @@ k2 :> IssuedTo(u2, FALSE))
     ELSE \E u \in {u1, u2}, v \in {u1, u2, None}, c \in BOOLEAN :
            issued = (k1 :> IssuedTo(u, c) @@ k2 :> IF v = None THEN None ELSE IssuedTo(v, FALSE))
  /\ CASE plan = "listings" ->
            \E u \in {u1, u2}, s \in {"active", "draft"} :
              listings = (p1 :> [agent_id |-> u, status |-> s, details |-> 1] @@ p2 :> None @@ p3 :> None)
       [] plan = "pages" ->
            \E s \in {"active", "draft"}, n \in {2, 3} :
              listings = (p1 :> [agent_id |-> u2, status |-> "active", details |-> 1]
                          @@ p2 :> [agent_id |-> u1, status |-> s, details |-> 2]
                          @@ p3 :> [agent_id |-> None, status |-> "active", details |-> n])
       [] OTHER -> listings = [p \in Properties |-> None]
  /\ Init

MCNext == Next /\ UNCHANGED plan /\ InPlan'

MCSpec == MCInit /\ [][MCNext]_mcVars

(* Requests differ in what they ask for only.                                *)
Alike == Permutations(Requests)
=============================================================================
