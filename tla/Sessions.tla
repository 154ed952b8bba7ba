------------------------------- MODULE Sessions -------------------------------
(* Tokens, the denylist and the way a request comes in: deps.py, auth.py,    *)
(* security.py and revocation.py. A token is checked in three reads at three *)
(* moments: of the clock, of the denylist in Redis, of the account in the    *)
(* database. Time is counted in fractions of a second, expiry in seconds.    *)
EXTENDS Integers, FiniteSets

CONSTANTS None,      \* no value
          Users,     \* ids of accounts, created ones included
          Tokens, Requests, Addresses,
          Properties, Details, \* ids of listings, and what they say, as it sorts
          Calls,     \* what clients may send
          Second,    \* moments in a second
          Life,      \* seconds a token is good for: jwt_expire_minutes
          MaxTime    \* bound on the clock

Roles == {"admin", "agent", "client"}
Standings == {"active", "disabled"}

(* An address as it was typed: with capitals or spaces, or in normal form.   *)
Email == [address : Addresses, sloppy : BOOLEAN]
Account == [email : Email, role : Roles, status : Standings]

(* What a request sets; None is a field it omits.                            *)
Patch == [email : Email \cup {None}, role : Roles \cup {None}, status : Standings \cup {None}]

(* How a credential comes: in a header, or in the cookie, with or without    *)
(* the CSRF token of its session. A login asks for one or the other.         *)
Vias == {"bearer", "cookie", "cookie_with_csrf"}
Kinds == {"login", "read", "logout", "create", "update",
          "browse", "open", "list", "replace", "deactivate"}
ListingStatuses == {"active", "draft", "under_offer", "sold"}

(* What a listing request sets, or filters by.                               *)
Body == [agent_id : Users \cup {None}, status : ListingStatuses \cup {None},
         details : Details \cup {None}]

Call == [kind : Kinds, token : Tokens \cup {None}, via : Vias,
         target : Users \cup {None}, patch : Patch,
         about : Properties \cup {None}, body : Body,
         page : Nat \ {0}, size : Nat \ {0}, descending : BOOLEAN]

(* An update names an account, a creation sets every field, a login has an   *)
(* address; a client of the API or a browser logs in.                        *)
WellFormed(c) ==
  /\ c.kind = "update" <=> c.target # None
  /\ c.kind = "create" => None \notin {c.patch.email, c.patch.role, c.patch.status}
  /\ c.kind \in {"open", "replace", "deactivate"} <=> c.about # None
  /\ c.kind \in {"list", "replace"} => None \notin {c.body.status, c.body.details}
  /\ c.kind = "login" => c.patch.email # None /\ c.via \in {"bearer", "cookie"}

ASSUME SessionAssumption ==
  /\ None \notin Users /\ None \notin Tokens /\ None \notin Email /\ None \notin Account
  /\ None \notin Roles /\ None \notin Standings
  /\ None \notin Properties /\ Details \subseteq Nat /\ None \notin Details /\ None \notin ListingStatuses
  /\ IsFiniteSet(Properties)
  /\ Second \in Nat \ {0} /\ Life \in Nat \ {0} /\ MaxTime \in Nat
  /\ Calls \subseteq Call /\ \A c \in Calls : WellFormed(c)

Times == 0..(MaxTime + Life * Second)
Token == [user : Users, role : Roles, exp : Times, csrf : BOOLEAN]

Phases == {"idle", "checking", "loading", "verifying", "admitted",
           "addressing", "owning", "writing", "written", "slicing", "done"}
Answers == {"none", "ok", "no_content", "not_authenticated", "session_revoked",
            "invalid_credentials", "account_disabled", "csrf_rejected", "forbidden",
            "self_lockout_forbidden", "user_not_found", "email_already_exists",
            "property_not_found", "invalid_agent_id", "internal_error"}

VARIABLES users,     \* the table, None for an id that is not taken yet
          issued,    \* the claims of the tokens signed so far
          denied,    \* when the key of a token lapses in Redis, 0 without one
          storeUp,   \* Redis can be reached
          time,
          call, phase, answer,
          caller,    \* the account a request was admitted for, as loaded
          copy,      \* the account it works on, as loaded
          revoked,   \* tokens logged out while Redis could be reached
          expelled   \* requests whose caller lacked standing ever since they came

dataVars == <<users, issued, denied, storeUp, time, revoked>>
reqVars == <<call, phase, answer, caller, copy, expelled>>
sessionVars == <<dataVars, reqVars>>

NoPatch == [email |-> None, role |-> None, status |-> None]
NoBody == [agent_id |-> None, status |-> None, details |-> None]
NoCall == [kind |-> "read", token |-> None, via |-> "bearer", target |-> None, patch |-> NoPatch,
           about |-> None, body |-> NoBody, page |-> 1, size |-> 1, descending |-> TRUE]

Seconds(t) == (t \div Second) * Second

(* A lookup of a normalized address finds only accounts stored in that form. *)
Normal(e) == [e EXCEPT !.sloppy = FALSE]

SessionInit ==
  /\ denied = [t \in Tokens |-> 0]
  /\ storeUp = TRUE
  /\ time = 0
  /\ call = [r \in Requests |-> NoCall]
  /\ phase = [r \in Requests |-> "idle"]
  /\ answer = [r \in Requests |-> "none"]
  /\ caller = [r \in Requests |-> None]
  /\ copy = [r \in Requests |-> None]
  /\ revoked = {}
  /\ expelled = {}

Enter(r, p) == phase' = [phase EXCEPT ![r] = p]

Answer(r, code) ==
  /\ Enter(r, "done")
  /\ answer' = [answer EXCEPT ![r] = code]

Refuse(r, code) == Answer(r, code) /\ UNCHANGED <<dataVars, call, caller, copy, expelled>>

-----------------------------------------------------------------------------
(* The world outside.                                                        *)

Tick ==
  /\ time < MaxTime
  /\ time' = time + 1
  /\ UNCHANGED <<users, issued, denied, storeUp, revoked, reqVars>>

StoreFails ==
  /\ storeUp
  /\ storeUp' = FALSE
  /\ UNCHANGED <<users, issued, denied, time, revoked, reqVars>>

(* Redis is back, with its keys or, restarted, without.                      *)
StoreReturns ==
  /\ ~storeUp
  /\ storeUp' = TRUE
  /\ \/ UNCHANGED <<denied, revoked>>
     \/ denied' = [t \in Tokens |-> 0] /\ revoked' = {}
  /\ UNCHANGED <<users, issued, time, reqVars>>

-----------------------------------------------------------------------------
(* A request comes in.                                                       *)

(* Mutant: any role may write listings.                                      *)
AllowedToAll(c) == IF c.kind \in {"create", "update"} THEN {"admin"} ELSE Roles

(* Roles that may touch the endpoint.                                        *)
Allowed(c) ==
  CASE c.kind \in {"create", "update"} -> {"admin"}
    [] c.kind \in {"list", "replace", "deactivate"} -> {"admin", "agent"}
    [] OTHER -> Roles

Safe(c) == c.kind \in {"read", "browse", "open"}

Live(t) == time < issued[t].exp

(* The credential leads to no session: a logout is content with that.        *)
Outside(c, code) == IF c.kind = "logout" THEN "no_content" ELSE code

HasStanding(c, a) == a.status = "active" /\ a.role \in Allowed(c)

(* The token is decoded: it must be signed and not expired.                  *)
Present(r, c) ==
  /\ phase[r] = "idle" /\ c.kind # "login"
  /\ c.token # None => issued[c.token] # None
  /\ call' = [call EXCEPT ![r] = c]
  /\ IF c.token # None /\ Live(c.token)
     THEN /\ Enter(r, "checking")
          /\ expelled' = expelled \cup {q \in {r} : ~HasStanding(c, users[issued[c.token].user])}
          /\ UNCHANGED answer
     ELSE /\ Answer(r, Outside(c, "not_authenticated"))
          /\ UNCHANGED expelled
  /\ UNCHANGED <<dataVars, caller, copy>>

Arrive(r) == \E c \in Calls : Present(r, c)

(* The key is there, and Redis can be asked.                                 *)
Denied(t) == storeUp /\ time < denied[t]

TokenDenied(r) ==
  /\ phase[r] = "checking"
  /\ Denied(call[r].token)
  /\ Refuse(r, Outside(call[r], "not_authenticated"))

TokenNotDenied(r) ==
  /\ phase[r] = "checking"
  /\ ~Denied(call[r].token)
  /\ Enter(r, "loading")
  /\ UNCHANGED <<dataVars, call, answer, caller, copy, expelled>>

CsrfPasses(c) ==
  \/ Safe(c) \/ c.via = "bearer"
  \/ c.via = "cookie_with_csrf" /\ issued[c.token].csrf

(* Mutant: the role is the one the token was issued for.                     *)
RoleClaimed(r) == issued[call[r].token].role

(* The role is the account's own, whatever the token says.                   *)
RoleOf(r) == users[issued[call[r].token].user].role

Forbidden(r) == RoleOf(r) \notin Allowed(call[r])

CallerInactive(r) ==
  /\ phase[r] = "loading"
  /\ users[issued[call[r].token].user].status # "active"
  /\ Refuse(r, Outside(call[r], "session_revoked"))

(* First the account, then CSRF, then the role.                              *)
CallerRefused(r) ==
  /\ phase[r] = "loading"
  /\ users[issued[call[r].token].user].status = "active"
  /\ ~CsrfPasses(call[r]) \/ Forbidden(r)
  /\ Refuse(r, IF ~CsrfPasses(call[r]) THEN "csrf_rejected" ELSE "forbidden")

CallerAdmitted(r) ==
  /\ phase[r] = "loading"
  /\ users[issued[call[r].token].user].status = "active"
  /\ CsrfPasses(call[r]) /\ ~Forbidden(r)
  /\ caller' = [caller EXCEPT ![r] = users[issued[call[r].token].user]]
  /\ Enter(r, "admitted")
  /\ UNCHANGED <<dataVars, call, answer, copy, expelled>>

Read(r) ==
  /\ phase[r] = "admitted" /\ call[r].kind = "read"
  /\ Refuse(r, "ok")

(* Mutant: a second too few.                                                 *)
RemainingLess(t) == ((issued[t].exp - time) \div Second) - 1

(* Whole seconds the token still has.                                        *)
Remaining(t) == (issued[t].exp - time) \div Second

(* Mutant: all sessions of the user.                                         *)
SessionsOfUser(t) == {s \in Tokens : issued[s] # None /\ issued[s].user = issued[t].user}

(* Only the token that was presented.                                        *)
SessionsEnded(t) == {t}

(* A key is written for the seconds that remain, none for none. Redis may be *)
(* out of reach; the answer is the same.                                     *)
Logout(r) ==
  /\ phase[r] = "admitted" /\ call[r].kind = "logout"
  /\ LET t == call[r].token
         recorded == {s \in SessionsEnded(t) : storeUp /\ Remaining(t) > 0}
     IN  /\ denied' = [s \in Tokens |-> IF s \in recorded
                                       THEN time + Remaining(t) * Second ELSE denied[s]]
         /\ revoked' = revoked \cup {s \in {t} : storeUp}
  /\ Answer(r, "no_content")
  /\ UNCHANGED <<users, issued, storeUp, time, call, caller, copy, expelled>>

-----------------------------------------------------------------------------
(* Login: the account is looked up by its address; the password is checked   *)
(* before the status is.                                                     *)

Found(e) == {u \in Users : users[u] # None /\ users[u].email = Normal(e)}

Logins == {c \in Calls : c.kind = "login"}

LoginRefused(r) ==
  /\ phase[r] = "idle"
  /\ \E c \in Logins :
       /\ call' = [call EXCEPT ![r] = c]
       /\ \/ Answer(r, "invalid_credentials")
          \/ /\ \E u \in Found(c.patch.email) : users[u].status # "active"
             /\ Answer(r, "account_disabled")
  /\ UNCHANGED <<dataVars, caller, copy, expelled>>

LoginVerified(r) ==
  /\ phase[r] = "idle"
  /\ \E c \in Logins : \E u \in Found(c.patch.email) :
       /\ users[u].status = "active"
       /\ call' = [call EXCEPT ![r] = [c EXCEPT !.target = u]]
       /\ caller' = [caller EXCEPT ![r] = users[u]]
  /\ Enter(r, "verifying")
  /\ UNCHANGED <<dataVars, answer, copy, expelled>>

(* A token is signed for whole seconds, with a CSRF token for a browser.     *)
IssueToken(r) ==
  /\ phase[r] = "verifying"
  /\ \E t \in Tokens :
       /\ issued[t] = None
       /\ issued' = [issued EXCEPT ![t] =
            [user |-> call[r].target, role |-> caller[r].role,
             exp |-> Seconds(time + Life * Second), csrf |-> call[r].via = "cookie"]]
  /\ Answer(r, "ok")
  /\ UNCHANGED <<users, denied, storeUp, time, revoked, call, caller, copy, expelled>>

(* A statement fails or the process dies; what is committed stays.           *)
RequestBreaks(r) ==
  /\ phase[r] \notin {"idle", "done"}
  /\ Refuse(r, "internal_error")

Session(r) ==
  \/ Arrive(r) \/ TokenDenied(r) \/ TokenNotDenied(r)
  \/ CallerInactive(r) \/ CallerRefused(r) \/ CallerAdmitted(r)
  \/ Read(r) \/ Logout(r)
  \/ LoginRefused(r) \/ LoginVerified(r) \/ IssueToken(r)
  \/ RequestBreaks(r)

-----------------------------------------------------------------------------
(* Properties.                                                               *)

SessionTypeOK ==
  /\ users \in [Users -> Account \cup {None}]
  /\ issued \in [Tokens -> Token \cup {None}]
  /\ denied \in [Tokens -> Times]
  /\ storeUp \in BOOLEAN /\ time \in 0..MaxTime
  /\ call \in [Requests -> Call]
  /\ phase \in [Requests -> Phases]
  /\ answer \in [Requests -> Answers]
  /\ caller \in [Requests -> Account \cup {None}]
  /\ copy \in [Requests -> Account \cup {None}]
  /\ revoked \subseteq Tokens /\ expelled \subseteq Requests

(* A token that was logged out while Redis could be reached is let through   *)
(* only where Redis cannot be asked, or in the token's last second, when its *)
(* key may have lapsed: keys live whole seconds.                             *)
RevokedStaysOut ==
  [][\A r \in Requests :
       phase[r] = "checking" /\ phase'[r] = "loading" /\ call[r].token \in revoked =>
         ~storeUp \/ time > issued[call[r].token].exp - Second]_sessionVars

(* Only a token that was itself logged out is turned away by the denylist:   *)
(* the other sessions of its user go on.                                     *)
OthersStayIn ==
  [][\A r \in Requests :
       phase[r] = "checking" /\ answer'[r] = "not_authenticated" =>
         call[r].token \in revoked]_sessionVars
=============================================================================
