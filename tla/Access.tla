-------------------------------- MODULE Access --------------------------------
(***************************************************************************)
(* service/auth_service.go and service/user_service.go: the row of a user  *)
(* with the roles, which requests read, change and save as a whole (a      *)
(* login saves it, too), and the refresh tokens in Redis, each of which    *)
(* is to be exchanged once.                                                *)
(***************************************************************************)
EXTENDS Naturals, FiniteSets

CONSTANTS Clients,        \* requests under way
          Tokens,         \* refresh tokens
          Roles,
          MaxCalls,       \* bound: requests
          MaxStoreErrors  \* bound: statements and Redis commands that fail

ASSUME AccessAssumption == MaxCalls \in Nat /\ MaxStoreErrors \in Nat

VARIABLES user,           \* NoUser, or the row and its roles: [live, active, password, roles]
          keys,           \* refresh tokens that are in Redis
          issued,         \* refresh tokens that have been made
          client,         \* Clients -> the request's progress
          want,           \* history: the user as the requests that wrote the row asked for
          overlapped,     \* history: the row was written between another request's read and write
          spent,          \* history: tokens exchanged or logged out
          honoured,       \* history: tokens exchanged for a pair
          twice,          \* history: tokens exchanged twice
          excused,        \* history: tokens that two requests used at once, or whose deletion failed
          accUsed         \* budget: [calls, errors]

accVars == <<user, keys, issued, client, want, overlapped, spent, honoured, twice, excused, accUsed>>
tokenHistory == <<spent, honoured, twice, excused>>

NoUser  == [live |-> FALSE, active |-> FALSE, password |-> 0, roles |-> {}]
Waiting == [pc |-> "waiting"]

AccInit == /\ user = NoUser /\ want = NoUser /\ keys = {} /\ issued = {}
           /\ client = [c \in Clients |-> Waiting] /\ overlapped = FALSE
           /\ spent = {} /\ honoured = {} /\ twice = {} /\ excused = {}
           /\ accUsed = [calls |-> 0, errors |-> 0]

Calls  == accUsed.calls < MaxCalls /\ accUsed' = [accUsed EXCEPT !.calls = @ + 1]
Breaks == accUsed.errors < MaxStoreErrors /\ accUsed' = [accUsed EXCEPT !.errors = @ + 1]

Moves(c, state) == client' = [client EXCEPT ![c] = state]
Returns(c)      == Moves(c, Waiting)

\* The requests that have read the row and not yet written it.
Holding == {c \in Clients : client[c].pc \in {"login", "update", "password", "assign"}}

\* Request c writes the row: u is what it becomes, w what was asked for.
Writes(c, u, w) == /\ user' = u /\ want' = w
                   /\ overlapped' = (overlapped \/ Holding \ {c} # {})

\* Save writes every column that was read and inserts the roles that were loaded with the row.
Save(copy) == [copy EXCEPT !.live = TRUE, !.roles = @ \cup user.roles]

----------------------------------------------------------------------------
(* Users *)

\* The row, active, without roles; the roles of the request follow one by one.
CreateUser(c) ==
    /\ client[c] = Waiting /\ accUsed.calls = 0 /\ Calls
    /\ LET u == [NoUser EXCEPT !.live = TRUE, !.active = TRUE] IN Writes(c, u, u)
    /\ \E rs \in SUBSET Roles : IF rs = {} THEN Returns(c) ELSE Moves(c, [pc |-> "roles", roles |-> rs])
    /\ UNCHANGED <<keys, issued, tokenHistory>>

\* A role that cannot be assigned is logged and left out.
CreateAssigns(c) ==
    /\ client[c].pc = "roles"
    /\ \E r \in client[c].roles :
          /\ IF client[c].roles = {r} THEN Returns(c) ELSE Moves(c, [client[c] EXCEPT !.roles = @ \ {r}])
          /\ \/ user.live /\ Writes(c, [user EXCEPT !.roles = @ \cup {r}], [want EXCEPT !.roles = @ \cup {r}])
                /\ UNCHANGED accUsed
             \/ Breaks /\ UNCHANGED <<user, want, overlapped>>
             \/ ~user.live /\ UNCHANGED <<user, want, overlapped, accUsed>>
    /\ UNCHANGED <<keys, issued, tokenHistory>>

\* Update, ChangePassword and AssignRole load the user with the roles.
Loads(c) ==
    /\ client[c] = Waiting /\ user.live /\ Calls
    /\ \/ \E b \in BOOLEAN : Moves(c, [pc |-> "update", copy |-> user, active |-> b])
       \/ Moves(c, [pc |-> "password", copy |-> user])
       \/ \E r \in Roles : Moves(c, [pc |-> "assign", copy |-> user, role |-> r])
    /\ UNCHANGED <<user, keys, issued, want, overlapped, tokenHistory>>

UpdateUser(c) ==
    /\ client[c].pc = "update" /\ Returns(c)
    /\ LET b == client[c].active
       IN  Writes(c, Save([client[c].copy EXCEPT !.active = b]), [want EXCEPT !.active = b])
    /\ UNCHANGED <<keys, issued, tokenHistory, accUsed>>

ChangePassword(c) ==
    /\ client[c].pc = "password" /\ Returns(c)
    /\ LET p == client[c].copy.password + 1
       IN  Writes(c, Save([client[c].copy EXCEPT !.password = p]), [want EXCEPT !.password = p])
    /\ UNCHANGED <<keys, issued, tokenHistory, accUsed>>

\* Mutant: the new role replaces the others.
Replaced(current, loaded, r) == {r}

\* The roles that were loaded are inserted with the new one.
Appended(current, loaded, r) == current \cup loaded \cup {r}

AssignRole(c) ==
    /\ client[c].pc = "assign" /\ Returns(c)
    /\ LET r == client[c].role
       IN  Writes(c, [user EXCEPT !.roles = Appended(@, client[c].copy.roles, r)],
                     [want EXCEPT !.roles = @ \cup {r}])
    /\ UNCHANGED <<keys, issued, tokenHistory, accUsed>>

\* Only the row that joins the user and the role is deleted.
RevokeRole(c) ==
    /\ client[c] = Waiting /\ user.live /\ Calls
    /\ \E r \in user.roles : Writes(c, [user EXCEPT !.roles = @ \ {r}], [want EXCEPT !.roles = @ \ {r}])
    /\ UNCHANGED <<keys, issued, client, tokenHistory>>

DeleteUser(c) ==
    /\ client[c] = Waiting /\ user.live /\ Calls
    /\ Writes(c, [user EXCEPT !.live = FALSE], [want EXCEPT !.live = FALSE])
    /\ UNCHANGED <<keys, issued, client, tokenHistory>>

\* The save of a request fails: it ends with an error.
WriteFails(c) ==
    /\ client[c].pc \in {"update", "password", "assign"} /\ Breaks /\ Returns(c)
    /\ UNCHANGED <<user, keys, issued, want, overlapped, tokenHistory>>

----------------------------------------------------------------------------
(* Tokens *)

\* Login: an active user with the right password, whose last login is then saved, or not.
LoginReads(c) ==
    /\ client[c] = Waiting /\ user.live /\ user.active /\ Calls
    /\ Moves(c, [pc |-> "login", copy |-> user])
    /\ UNCHANGED <<user, keys, issued, want, overlapped, tokenHistory>>

LoginSaves(c) ==
    /\ client[c].pc = "login" /\ Moves(c, [pc |-> "issue", from |-> {}])
    /\ \/ Writes(c, Save(client[c].copy), want) /\ UNCHANGED accUsed
       \/ Breaks /\ UNCHANGED <<user, want, overlapped>>
    /\ UNCHANGED <<keys, issued, tokenHistory>>

\* The new refresh token is stored; without it the request fails.
generateTokenPair(c) ==
    /\ client[c].pc = "issue" /\ Returns(c)
    /\ \/ /\ \E t \in Tokens \ issued : issued' = issued \cup {t} /\ keys' = keys \cup {t}
          /\ twice' = twice \cup (client[c].from \cap honoured) /\ honoured' = honoured \cup client[c].from
          /\ UNCHANGED accUsed
       \/ Breaks /\ UNCHANGED <<keys, issued, honoured, twice>>
    /\ UNCHANGED <<user, want, overlapped, spent, excused>>

\* The requests that exchange t and have not yet deleted it.
Exchanging(t) == {c \in Clients : client[c].pc \in {"load", "rotate"} /\ client[c].token = t}

RefreshReads(c, t) ==
    /\ client[c] = Waiting /\ t \in keys /\ Calls /\ Moves(c, [pc |-> "load", token |-> t])
    /\ excused' = IF Exchanging(t) # {} THEN excused \cup {t} ELSE excused
    /\ UNCHANGED <<user, keys, issued, want, overlapped, spent, honoured, twice>>

\* Any user that is not deleted will do, active or not.
RefreshLoads(c) ==
    /\ client[c].pc = "load"
    /\ IF user.live THEN Moves(c, [client[c] EXCEPT !.pc = "rotate"]) ELSE Returns(c)
    /\ UNCHANGED <<user, keys, issued, want, overlapped, tokenHistory, accUsed>>

\* Mutant: the old token stays until it expires.
KeepOld(t) == keys

Rotated(t) == keys \ {t}

\* An error of the deletion is ignored.
RefreshRotates(c) ==
    /\ client[c].pc = "rotate"
    /\ LET t == client[c].token IN
       /\ Moves(c, [pc |-> "issue", from |-> {t}]) /\ spent' = spent \cup {t}
       /\ \/ keys' = Rotated(t) /\ UNCHANGED <<excused, accUsed>>
          \/ Breaks /\ excused' = excused \cup {t} /\ UNCHANGED keys
    /\ UNCHANGED <<user, issued, want, overlapped, honoured, twice>>

Logout(c, t) ==
    /\ client[c] = Waiting /\ t \in issued /\ Calls
    /\ keys' = keys \ {t} /\ spent' = spent \cup {t}
    /\ excused' = IF Exchanging(t) # {} THEN excused \cup {t} ELSE excused
    /\ UNCHANGED <<user, issued, client, want, overlapped, honoured, twice>>

TokenExpires(t) ==
    /\ t \in keys /\ keys' = keys \ {t}
    /\ UNCHANGED <<user, issued, client, want, overlapped, tokenHistory, accUsed>>

----------------------------------------------------------------------------

AccNext == \/ \E c \in Clients :
                 \/ CreateUser(c) \/ CreateAssigns(c) \/ Loads(c) \/ UpdateUser(c) \/ ChangePassword(c)
                 \/ AssignRole(c) \/ RevokeRole(c) \/ DeleteUser(c) \/ WriteFails(c)
                 \/ LoginReads(c) \/ LoginSaves(c) \/ generateTokenPair(c) \/ RefreshLoads(c) \/ RefreshRotates(c)
                 \/ \E t \in Tokens : RefreshReads(c, t) \/ Logout(c, t)
           \/ \E t \in Tokens : TokenExpires(t)

AccSpec == AccInit /\ [][AccNext]_accVars

\* As long as no request wrote the user between another's read and write, the row is what the requests
\* asked for: a role that was revoked, an account that was disabled or deleted and a password that was
\* changed stay so, whatever logins save the row they read.
RevokedStaysRevoked == ~overlapped => user = want

\* A refresh token is exchanged at most once and not after a logout, unless two requests used it at the
\* same time (reading and deleting it are two commands) or Redis failed to delete it.
SpentStaysSpent == twice \subseteq excused /\ (spent \ excused) \cap keys = {}

=============================================================================
