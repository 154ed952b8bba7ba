------------------------------- MODULE Accounts -------------------------------
(* users.py: administrators create and edit accounts, their own included.    *)
(* Each handler works on a copy it loaded and writes the columns it changed. *)
EXTENDS Sessions

VARIABLE overlapped  \* an edit was committed while another was under way

accountVars == <<sessionVars, overlapped>>

(* The seed has an active administrator and no two accounts of one address;  *)
(* some users have logged in.                                                *)
AccountInit ==
  /\ users \in [Users -> Account \cup {None}]
  /\ \E u \in Users : users[u] # None /\ users[u].role = "admin" /\ users[u].status = "active"
  /\ \A u, v \in Users : users[u] # None /\ users[v] # None =>
       /\ ~users[u].email.sloppy
       /\ users[u].email = users[v].email => u = v
  /\ issued \in [Tokens -> [user : {u \in Users : users[u] # None}, role : Roles,
                            exp : {Life * Second}, csrf : BOOLEAN] \cup {None}]
  /\ SessionInit
  /\ overlapped = FALSE

CallerId(r) == issued[call[r].token].user

(* Mutant: an administrator may demote, but not disable, herself.            *)
LocksOutByRole(r) ==
  call[r].target = CallerId(r) /\ call[r].patch.role \notin {None, "admin"}

(* An administrator would disable or demote herself.                         *)
LocksOut(r) ==
  /\ call[r].target = CallerId(r)
  /\ \/ call[r].patch.status = "disabled"
     \/ call[r].patch.role \notin {None, "admin"}

SelfLockout(r) ==
  /\ phase[r] = "admitted" /\ call[r].kind = "update"
  /\ LocksOut(r)
  /\ Refuse(r, "self_lockout_forbidden")

(* One's own account is already in the session, and is not read again.       *)
Loaded(r) == IF call[r].target = CallerId(r) THEN caller[r] ELSE users[call[r].target]

AfterLoad(r) == IF call[r].patch.email = None THEN "writing" ELSE "addressing"

UserNotFound(r) ==
  /\ phase[r] = "admitted" /\ call[r].kind = "update" /\ ~LocksOut(r)
  /\ Loaded(r) = None
  /\ Refuse(r, "user_not_found")

UpdateLoad(r) ==
  /\ phase[r] = "admitted" /\ call[r].kind = "update" /\ ~LocksOut(r)
  /\ Loaded(r) # None
  /\ copy' = [copy EXCEPT ![r] = Loaded(r)]
  /\ Enter(r, AfterLoad(r))
  /\ UNCHANGED <<dataVars, call, answer, caller, expelled, overlapped>>

CreateStart(r) ==
  /\ phase[r] = "admitted" /\ call[r].kind = "create"
  /\ Enter(r, "addressing")
  /\ UNCHANGED <<dataVars, call, answer, caller, copy, expelled, overlapped>>

(* Mutant: the address is stored as it was typed.                            *)
AsTyped(r) == call[r].patch.email

Address(r) == Normal(call[r].patch.email)

(* The other accounts that have the address.                                 *)
Holders(r) ==
  {u \in Users \ {call[r].target} : users[u] # None /\ users[u].email = Address(r)}

EmailExists(r) ==
  /\ phase[r] = "addressing"
  /\ Holders(r) # {}
  /\ Refuse(r, "email_already_exists")

EmailFree(r) ==
  /\ phase[r] = "addressing"
  /\ Holders(r) = {}
  /\ Enter(r, "writing")
  /\ UNCHANGED <<dataVars, call, answer, caller, copy, expelled, overlapped>>

Fields == {"email", "role", "status"}

(* Mutant: an omitted field is written too.                                  *)
WantedBlank(r) ==
  [f \in Fields |-> IF f = "email" /\ call[r].patch.email # None THEN Address(r)
                    ELSE call[r].patch[f]]

Wanted(r) ==
  [f \in Fields |-> IF call[r].patch[f] = None THEN copy[r][f]
                    ELSE IF f = "email" THEN Address(r) ELSE call[r].patch[f]]

AsAccount(a) == [email |-> a["email"], role |-> a["role"], status |-> a["status"]]

(* Mutant: the whole copy is written back.                                   *)
EveryField(r) == Fields

(* Columns that differ from the copy: only these are written.                *)
Changed(r) == {f \in Fields : Wanted(r)[f] # copy[r][f]}

Written(r) ==
  AsAccount([f \in Fields |-> IF f \in Changed(r) THEN Wanted(r)[f]
                              ELSE users[call[r].target][f]])

(* The unique index on the address.                                          *)
Unique(table) ==
  \A u, v \in Users :
    table[u] # None /\ table[v] # None /\ table[u].email = table[v].email => u = v

(* Requests that have been admitted to edit and have not committed.          *)
Editing == {r \in Requests :
  call[r].kind \in {"create", "update"} /\ phase[r] \in {"admitted", "addressing", "writing"}}

Commit(r, table) ==
  /\ users' = table
  /\ Enter(r, "written")
  /\ overlapped' = (overlapped \/ Editing \ {r} # {})
  /\ expelled' = {q \in expelled : ~HasStanding(call[q], table[issued[call[q].token].user])}
  /\ UNCHANGED <<issued, denied, storeUp, time, revoked, call, answer, caller, copy>>

WriteUpdate(r) ==
  /\ phase[r] = "writing" /\ call[r].kind = "update"
  /\ LET table == [users EXCEPT ![call[r].target] = Written(r)]
     IN  Unique(table) /\ Commit(r, table)

(* The row a creation inserts.                                               *)
Created(r) == AsAccount([call[r].patch EXCEPT !.email = Address(r)])

WriteCreate(r) ==
  /\ phase[r] = "writing" /\ call[r].kind = "create"
  /\ \E u \in Users :
       /\ users[u] = None
       /\ LET table == [users EXCEPT ![u] = Created(r)]
          IN  Unique(table) /\ Commit(r, table)

(* The address was taken since it was found free: the index refuses the row. *)
WriteClashes(r) ==
  /\ phase[r] = "writing" /\ call[r].kind \in {"create", "update"}
  /\ call[r].patch.email # None /\ Holders(r) # {}
  /\ Refuse(r, "internal_error")

Respond(r) ==
  /\ phase[r] = "written"
  /\ Refuse(r, "ok")

Edit(r) ==
  \/ SelfLockout(r) /\ UNCHANGED overlapped
  \/ UserNotFound(r) /\ UNCHANGED overlapped
  \/ EmailExists(r) /\ UNCHANGED overlapped
  \/ WriteClashes(r) /\ UNCHANGED overlapped
  \/ Respond(r) /\ UNCHANGED overlapped
  \/ CreateStart(r) \/ UpdateLoad(r) \/ EmailFree(r)
  \/ WriteCreate(r) \/ WriteUpdate(r)

Outages == Tick \/ StoreFails \/ StoreReturns

-----------------------------------------------------------------------------
(* Properties.                                                               *)

IsAdmin(a) == a # None /\ a.role = "admin" /\ a.status = "active"

(* Some administrator can always act, unless two edits were under way at     *)
(* once: each passes the test that it does not lock out its own caller.      *)
SomeAdmin == overlapped \/ \E u \in Users : IsAdmin(users[u])

(* A caller who lacked standing ever since a request came in has it refused: *)
(* a token does not carry its user past being disabled or demoted.           *)
NoStandingNoEffect ==
  \A r \in expelled : phase[r] \in {"checking", "loading", "done"} /\ answer[r] # "ok"

(* An address leads a login to one account at most, and to the account it    *)
(* was stored for, however it was typed.                                     *)
AddressesIdentify ==
  \A u \in Users : users[u] # None => Found(users[u].email) = {u}

(* A column of an account changes only to what a request about that account  *)
(* asks for: no edit takes back another one's.                               *)
OnlyRequestedChanges ==
  [][\A u \in Users : users[u] # None /\ users'[u] # users[u] =>
       \E r \in Requests :
         /\ phase[r] = "writing" /\ phase'[r] = "written" /\ call[r].target = u
         /\ \A f \in Fields :
              users'[u][f] = users[u][f] \/ call[r].patch[f] # None]_accountVars
=============================================================================
