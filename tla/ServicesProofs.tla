----------------------------- MODULE ServicesProofs -----------------------------
(***************************************************************************)
(* Proofs about the services that keep rows and counters of their own:     *)
(* users and tokens (module Access), the limits of requests, the           *)
(* inventory, the health of providers and the policies.  They share no     *)
(* state; each has its section, with the type of its variables, the        *)
(* inductive invariant that its property needs, and the theorems.          *)
(***************************************************************************)
EXTENDS Access, RequestLimits, Inventory, ProviderHealth, Policies,
        Integers, FiniteSetTheorems, SequenceTheorems, TLAPS

----------------------------------------------------------------------------
(* Access: the row of a user and the refresh tokens *)

Users == [live : BOOLEAN, active : BOOLEAN, password : Nat, roles : SUBSET Roles]

Assigning == [pc : {"roles"}, roles : SUBSET Roles]
Updating  == [pc : {"update"}, copy : Users, active : BOOLEAN]
Copying   == [pc : {"login", "password"}, copy : Users]
Granting  == [pc : {"assign"}, copy : Users, role : Roles]
Issuing   == [pc : {"issue"}, from : SUBSET Tokens]
Redeeming == [pc : {"load", "rotate"}, token : Tokens]

Requests == {Waiting} \cup Assigning \cup Updating \cup Copying \cup Granting \cup Issuing \cup Redeeming

\* The type of the variables of module Access.
AccType == /\ user \in Users /\ want \in Users /\ overlapped \in BOOLEAN
           /\ keys \in SUBSET Tokens /\ issued \in SUBSET Tokens
           /\ spent \in SUBSET Tokens /\ honoured \in SUBSET Tokens
           /\ twice \in SUBSET Tokens /\ excused \in SUBSET Tokens
           /\ client \in [Clients -> Requests]
           /\ accUsed \in [calls : Nat, errors : Nat]

Holds(c) == client[c].pc \in {"login", "update", "password", "assign"}

\* A request that holds a copy of the row read it live, and the copy is the row as long as nobody overlapped.
RowInv == /\ \A c \in Clients : Holds(c) => client[c].copy.live
          /\ ~overlapped => /\ user = want
                            /\ \A c \in Clients : Holds(c) => client[c].copy = user

Redeems(c, t) == client[c].pc \in {"load", "rotate"} /\ client[c].token = t
Cashes(c, t)  == client[c].pc = "issue" /\ t \in client[c].from

\* A token that is not excused goes one way: from Redis through one request that exchanges it to one
\* that has deleted it and issues the pair for it.
TokenInv ==
    /\ keys \subseteq issued /\ spent \subseteq issued /\ honoured \subseteq spent /\ twice \subseteq excused
    /\ \A c \in Clients, t \in Tokens : /\ Redeems(c, t) => t \in issued
                                        /\ Cashes(c, t) => t \in spent
    /\ \A t \in Tokens \ excused :
          /\ t \in spent => t \notin keys /\ \A c \in Clients : ~Redeems(c, t)
          /\ t \in honoured => \A c \in Clients : ~Cashes(c, t)
          /\ \A c, d \in Clients : /\ Redeems(c, t) /\ Redeems(d, t) => c = d
                                   /\ Cashes(c, t) /\ Cashes(d, t) => c = d

LEMMA AccInitial == AccInit => AccType /\ RowInv /\ TokenInv
<1> SUFFICES ASSUME AccInit PROVE AccType /\ RowInv /\ TokenInv
  OBVIOUS
<1>1. NoUser \in Users /\ Waiting \in Requests /\ Waiting.pc = "waiting"
  BY DEF NoUser, Users, Waiting, Requests
<1>2. AccType
  BY <1>1 DEF AccInit, AccType
<1>3. \A c \in Clients : client[c].pc = "waiting"
  BY <1>1 DEF AccInit
<1>4. RowInv
  BY <1>3 DEF AccInit, RowInv, Holds
<1>5. TokenInv
  BY <1>3 DEF AccInit, TokenInv, Redeems, Cashes
<1> QED
  BY <1>2, <1>4, <1>5

\* What a request is, by its program counter.
LEMMA RequestKinds ==
    ASSUME AccType, NEW c \in Clients
    PROVE  /\ client[c].pc = "roles" => client[c] \in Assigning
           /\ client[c].pc = "update" => client[c] \in Updating
           /\ client[c].pc \in {"login", "password"} => client[c] \in Copying
           /\ client[c].pc = "assign" => client[c] \in Granting
           /\ client[c].pc = "issue" => client[c] \in Issuing
           /\ client[c].pc \in {"load", "rotate"} => client[c] \in Redeeming
<1>1. client[c] \in Requests
  BY DEF AccType
<1> QED
  BY <1>1 DEF Requests, Waiting, Assigning, Updating, Copying, Granting, Issuing, Redeeming

LEMMA SaveTyped ==
    ASSUME user \in Users, NEW u \in Users
    PROVE  /\ Save(u) \in Users
           /\ Save(u).live = TRUE /\ Save(u).active = u.active /\ Save(u).password = u.password
           /\ Save(u).roles = u.roles \cup user.roles
  BY DEF Save, Users

LEMMA AccTypeNext == AccType /\ [AccNext]_accVars => AccType'
<1> SUFFICES ASSUME AccType, [AccNext]_accVars PROVE AccType'
  OBVIOUS
<1>1. ASSUME NEW c \in Clients, NEW st \in Requests, Moves(c, st) PROVE client' \in [Clients -> Requests]
  BY <1>1 DEF AccType, Moves
<1>2. Waiting \in Requests
  BY DEF Requests
<1>3. ASSUME NEW c \in Clients, Returns(c) PROVE client' \in [Clients -> Requests]
  BY <1>1, <1>2, <1>3 DEF Returns
<1>4. ASSUME NEW c \in Clients, NEW u \in Users, NEW w \in Users, Writes(c, u, w)
      PROVE  user' \in Users /\ want' \in Users /\ overlapped' \in BOOLEAN
  <2>1. (overlapped \/ Holding \ {c} # {}) \in BOOLEAN
    OBVIOUS
  <2> QED
    BY <1>4, <2>1 DEF Writes
<1>5. Calls \/ Breaks \/ UNCHANGED accUsed => accUsed' \in [calls : Nat, errors : Nat]
  BY DEF AccType, Calls, Breaks
<1>6. ASSUME UNCHANGED <<user, want, overlapped>>
      PROVE  user' \in Users /\ want' \in Users /\ overlapped' \in BOOLEAN
  BY <1>6 DEF AccType
<1>7. ASSUME UNCHANGED <<keys, issued, tokenHistory>>
      PROVE  /\ keys' \in SUBSET Tokens /\ issued' \in SUBSET Tokens
             /\ spent' \in SUBSET Tokens /\ honoured' \in SUBSET Tokens
             /\ twice' \in SUBSET Tokens /\ excused' \in SUBSET Tokens
  BY <1>7 DEF AccType, tokenHistory
<1>8. CASE UNCHANGED accVars
  BY <1>8 DEF AccType, accVars
<1>9. ASSUME NEW c \in Clients, CreateUser(c) PROVE AccType'
  <2>1. [NoUser EXCEPT !.live = TRUE, !.active = TRUE] \in Users
    BY DEF NoUser, Users
  <2>2. client' \in [Clients -> Requests]
    <3>1. PICK rs \in SUBSET Roles : IF rs = {} THEN Returns(c) ELSE Moves(c, [pc |-> "roles", roles |-> rs])
      BY <1>9 DEF CreateUser
    <3>2. [pc |-> "roles", roles |-> rs] \in Requests
      BY DEF Requests, Assigning
    <3> QED
      BY <1>1, <1>3, <3>1, <3>2
  <2> QED
    BY <1>4, <1>5, <1>7, <1>9, <2>1, <2>2 DEF AccType, CreateUser
<1>10. ASSUME NEW c \in Clients, CreateAssigns(c) PROVE AccType'
  <2>1. client[c] \in Assigning
    BY <1>10, RequestKinds DEF CreateAssigns
  <2>2. PICK r \in client[c].roles :
          /\ IF client[c].roles = {r} THEN Returns(c) ELSE Moves(c, [client[c] EXCEPT !.roles = @ \ {r}])
          /\ \/ user.live /\ Writes(c, [user EXCEPT !.roles = @ \cup {r}], [want EXCEPT !.roles = @ \cup {r}])
                /\ UNCHANGED accUsed
             \/ Breaks /\ UNCHANGED <<user, want, overlapped>>
             \/ ~user.live /\ UNCHANGED <<user, want, overlapped, accUsed>>
    BY <1>10 DEF CreateAssigns
  <2>3. [client[c] EXCEPT !.roles = @ \ {r}] \in Requests
    BY <2>1 DEF Requests, Assigning
  <2>4. r \in Roles
    BY <2>1 DEF Assigning
  <2>5. [user EXCEPT !.roles = @ \cup {r}] \in Users /\ [want EXCEPT !.roles = @ \cup {r}] \in Users
    BY <2>4 DEF AccType, Users
  <2>6. client' \in [Clients -> Requests]
    BY <1>1, <1>3, <2>2, <2>3
  <2>7. user' \in Users /\ want' \in Users /\ overlapped' \in BOOLEAN
    BY <1>4, <1>6, <2>2, <2>5
  <2>8. accUsed' \in [calls : Nat, errors : Nat]
    BY <1>5, <2>2
  <2> QED
    BY <1>7, <1>10, <2>6, <2>7, <2>8 DEF AccType, CreateAssigns
<1>11. ASSUME NEW c \in Clients, Loads(c) PROVE AccType'
  <2>1. user \in Users
    BY DEF AccType
  <2>2. \A b \in BOOLEAN : [pc |-> "update", copy |-> user, active |-> b] \in Requests
    BY <2>1 DEF Requests, Updating
  <2>3. [pc |-> "password", copy |-> user] \in Requests
    BY <2>1 DEF Requests, Copying
  <2>4. \A r \in Roles : [pc |-> "assign", copy |-> user, role |-> r] \in Requests
    BY <2>1 DEF Requests, Granting
  <2>5. client' \in [Clients -> Requests]
    BY <1>1, <1>11, <2>2, <2>3, <2>4 DEF Loads
  <2> QED
    BY <1>5, <1>6, <1>7, <1>11, <2>5 DEF AccType, Loads
<1>12. ASSUME NEW c \in Clients, UpdateUser(c) PROVE AccType'
  <2>1. client[c] \in Updating
    BY <1>12, RequestKinds DEF UpdateUser
  <2> DEFINE b == client[c].active
  <2>2. b \in BOOLEAN /\ client[c].copy \in Users
    BY <2>1 DEF Updating
  <2>3. [client[c].copy EXCEPT !.active = b] \in Users /\ [want EXCEPT !.active = b] \in Users
    BY <2>2 DEF AccType, Users
  <2>4. Save([client[c].copy EXCEPT !.active = b]) \in Users
    BY <2>3, SaveTyped DEF AccType
  <2> QED
    BY <1>3, <1>4, <1>5, <1>7, <1>12, <2>3, <2>4 DEF AccType, UpdateUser
<1>13. ASSUME NEW c \in Clients, ChangePassword(c) PROVE AccType'
  <2>1. client[c] \in Copying
    BY <1>13, RequestKinds DEF ChangePassword
  <2> DEFINE p == client[c].copy.password + 1
  <2>2. p \in Nat /\ client[c].copy \in Users
    BY <2>1 DEF Copying, Users
  <2>3. [client[c].copy EXCEPT !.password = p] \in Users /\ [want EXCEPT !.password = p] \in Users
    BY <2>2 DEF AccType, Users
  <2>4. Save([client[c].copy EXCEPT !.password = p]) \in Users
    BY <2>3, SaveTyped DEF AccType
  <2> QED
    BY <1>3, <1>4, <1>5, <1>7, <1>13, <2>3, <2>4 DEF AccType, ChangePassword
<1>14. ASSUME NEW c \in Clients, AssignRole(c) PROVE AccType'
  <2>1. client[c] \in Granting
    BY <1>14, RequestKinds DEF AssignRole
  <2> DEFINE r == client[c].role
  <2>2. r \in Roles /\ client[c].copy.roles \in SUBSET Roles
    BY <2>1 DEF Granting, Users
  <2>3. /\ [user EXCEPT !.roles = Appended(@, client[c].copy.roles, r)] \in Users
        /\ [want EXCEPT !.roles = @ \cup {r}] \in Users
    BY <2>2 DEF AccType, Users, Appended
  <2> QED
    BY <1>3, <1>4, <1>5, <1>7, <1>14, <2>3 DEF AccType, AssignRole
<1>15. ASSUME NEW c \in Clients, RevokeRole(c) \/ DeleteUser(c) PROVE AccType'
  <2>1. \A r : [user EXCEPT !.roles = @ \ {r}] \in Users /\ [want EXCEPT !.roles = @ \ {r}] \in Users
    BY DEF AccType, Users
  <2>2. [user EXCEPT !.live = FALSE] \in Users /\ [want EXCEPT !.live = FALSE] \in Users
    BY DEF AccType, Users
  <2>3. user' \in Users /\ want' \in Users /\ overlapped' \in BOOLEAN
    BY <1>4, <1>15, <2>1, <2>2 DEF RevokeRole, DeleteUser
  <2> QED
    BY <1>5, <1>7, <1>15, <2>3 DEF AccType, RevokeRole, DeleteUser
<1>16. ASSUME NEW c \in Clients, WriteFails(c) PROVE AccType'
  BY <1>3, <1>5, <1>6, <1>7, <1>16 DEF AccType, WriteFails
<1>17. ASSUME NEW c \in Clients, LoginReads(c) PROVE AccType'
  <2>1. [pc |-> "login", copy |-> user] \in Requests
    BY DEF AccType, Requests, Copying
  <2> QED
    BY <1>1, <1>5, <1>6, <1>7, <1>17, <2>1 DEF AccType, LoginReads
<1>18. ASSUME NEW c \in Clients, LoginSaves(c) PROVE AccType'
  <2>1. client[c] \in Copying
    BY <1>18, RequestKinds DEF LoginSaves
  <2>2. Save(client[c].copy) \in Users
    BY <2>1, SaveTyped DEF AccType, Copying
  <2>3. [pc |-> "issue", from |-> {}] \in Requests
    BY DEF Requests, Issuing
  <2>4. want \in Users
    BY DEF AccType
  <2>5. user' \in Users /\ want' \in Users /\ overlapped' \in BOOLEAN
    BY <1>4, <1>6, <1>18, <2>2, <2>4 DEF LoginSaves
  <2>6. client' \in [Clients -> Requests] /\ accUsed' \in [calls : Nat, errors : Nat]
    BY <1>1, <1>5, <1>18, <2>3 DEF LoginSaves
  <2> QED
    BY <1>7, <1>18, <2>5, <2>6 DEF AccType, LoginSaves
<1>19. ASSUME NEW c \in Clients, generateTokenPair(c) PROVE AccType'
  <2>1. client[c] \in Issuing
    BY <1>19, RequestKinds DEF generateTokenPair
  <2>2. client[c].from \in SUBSET Tokens
    BY <2>1 DEF Issuing
  <2>3. /\ keys' \in SUBSET Tokens /\ issued' \in SUBSET Tokens
        /\ honoured' \in SUBSET Tokens /\ twice' \in SUBSET Tokens
    BY <1>19, <2>2 DEF AccType, generateTokenPair
  <2>4. client' \in [Clients -> Requests] /\ accUsed' \in [calls : Nat, errors : Nat]
    BY <1>3, <1>5, <1>19 DEF generateTokenPair
  <2> QED
    BY <1>19, <2>3, <2>4 DEF AccType, generateTokenPair
<1>20. ASSUME NEW c \in Clients, NEW t \in Tokens, RefreshReads(c, t) PROVE AccType'
  <2>1. [pc |-> "load", token |-> t] \in Requests
    BY DEF Requests, Redeeming
  <2>2. excused' \in SUBSET Tokens
    BY <1>20 DEF AccType, RefreshReads
  <2>3. client' \in [Clients -> Requests] /\ accUsed' \in [calls : Nat, errors : Nat]
    BY <1>1, <1>5, <1>20, <2>1 DEF RefreshReads
  <2> QED
    BY <1>20, <2>2, <2>3 DEF AccType, RefreshReads
<1>21. ASSUME NEW c \in Clients, RefreshLoads(c) PROVE AccType'
  <2>1. client[c] \in Redeeming
    BY <1>21, RequestKinds DEF RefreshLoads
  <2>2. [client[c] EXCEPT !.pc = "rotate"] \in Requests
    BY <2>1 DEF Requests, Redeeming
  <2> QED
    BY <1>1, <1>3, <1>6, <1>7, <1>21, <2>2 DEF AccType, RefreshLoads
<1>22. ASSUME NEW c \in Clients, RefreshRotates(c) PROVE AccType'
  <2>1. client[c] \in Redeeming
    BY <1>22, RequestKinds DEF RefreshRotates
  <2> DEFINE t == client[c].token
  <2>2. t \in Tokens
    BY <2>1 DEF Redeeming
  <2>3. [pc |-> "issue", from |-> {t}] \in Requests
    BY <2>2 DEF Requests, Issuing
  <2>4. spent' \in SUBSET Tokens /\ keys' \in SUBSET Tokens /\ excused' \in SUBSET Tokens
    BY <1>22, <2>2 DEF AccType, RefreshRotates, Rotated
  <2>5. client' \in [Clients -> Requests] /\ accUsed' \in [calls : Nat, errors : Nat]
    BY <1>1, <1>5, <1>22, <2>3 DEF RefreshRotates
  <2> QED
    BY <1>22, <2>4, <2>5 DEF AccType, RefreshRotates
<1>23. ASSUME NEW c \in Clients, NEW t \in Tokens, Logout(c, t) PROVE AccType'
  <2>1. accUsed' \in [calls : Nat, errors : Nat]
    BY <1>5, <1>23 DEF Logout
  <2> QED
    BY <1>23, <2>1 DEF AccType, Logout
<1>24. ASSUME NEW t \in Tokens, TokenExpires(t) PROVE AccType'
  BY <1>24 DEF AccType, TokenExpires, tokenHistory
<1> QED
  BY <1>8, <1>9, <1>10, <1>11, <1>12, <1>13, <1>14, <1>15, <1>16, <1>17, <1>18, <1>19, <1>20, <1>21, <1>22,
     <1>23, <1>24 DEF AccNext

\* A request that only reads, or that is none of those that hold the row.
LEMMA RowKept ==
    ASSUME RowInv, UNCHANGED <<user, want, overlapped>>,
           \A c \in Clients : Holds(c)' => \/ Holds(c) /\ client'[c].copy = client[c].copy
                                           \/ user.live /\ client'[c].copy = user
    PROVE  RowInv'
  BY DEF RowInv

\* A request writes the row and holds it no longer.
LEMMA RowWritten ==
    ASSUME RowInv, NEW c \in Clients, NEW u, NEW w, Writes(c, u, w),
           ~overlapped => u = w,
           ~Holds(c)', \A d \in Clients \ {c} : client'[d] = client[d]
    PROVE  RowInv'
<1>1. \A d \in Clients : Holds(d)' => Holds(d) /\ client'[d] = client[d] /\ d # c
  BY DEF Holds
<1>2. ~overlapped' => ~overlapped /\ \A d \in Clients \ {c} : ~Holds(d)
  BY DEF Writes, Holding, Holds
<1> QED
  BY <1>1, <1>2 DEF RowInv, Writes

LEMMA RowNext == AccType /\ RowInv /\ [AccNext]_accVars => RowInv'
<1> SUFFICES ASSUME AccType, RowInv, [AccNext]_accVars PROVE RowInv'
  OBVIOUS
<1>1. ASSUME NEW c \in Clients, NEW st, Moves(c, st)
      PROVE  client'[c] = st /\ \A d \in Clients \ {c} : client'[d] = client[d]
  BY <1>1 DEF AccType, Moves
<1>2. ASSUME NEW c \in Clients, Returns(c)
      PROVE  ~Holds(c)' /\ \A d \in Clients \ {c} : client'[d] = client[d]
  BY <1>1, <1>2 DEF Returns, Waiting, Holds
<1>3. ASSUME NEW c \in Clients, NEW st, Moves(c, st), UNCHANGED <<user, want, overlapped>>,
             st.pc \in {"login", "update", "password", "assign"} => user.live /\ st.copy = user
      PROVE  RowInv'
  <2>1. \A d \in Clients : Holds(d)' => \/ Holds(d) /\ client'[d].copy = client[d].copy
                                        \/ user.live /\ client'[d].copy = user
    BY <1>1, <1>3 DEF Holds
  <2> QED
    BY <1>3, <2>1, RowKept
<1>4. ASSUME UNCHANGED <<user, want, overlapped, client>> PROVE RowInv'
  BY <1>4 DEF RowInv, Holds
<1>5. CASE UNCHANGED accVars
  BY <1>4, <1>5 DEF accVars
<1>6. ASSUME NEW c \in Clients, Returns(c), UNCHANGED <<user, want, overlapped>> PROVE RowInv'
  BY <1>3, <1>6 DEF Returns, Waiting
<1>7. ASSUME NEW c \in Clients, NEW u, NEW w, Writes(c, u, w), ~overlapped => u = w, Returns(c) PROVE RowInv'
  BY <1>2, <1>7, RowWritten
<1>8. ASSUME NEW c \in Clients, NEW u, NEW w, Writes(c, u, w), ~overlapped => u = w, NEW st, Moves(c, st),
             st.pc \notin {"login", "update", "password", "assign"}
      PROVE  RowInv'
  <2>1. ~Holds(c)' /\ \A d \in Clients \ {c} : client'[d] = client[d]
    BY <1>1, <1>8 DEF Holds
  <2> QED
    BY <1>8, <2>1, RowWritten
<1>9. ASSUME NEW c \in Clients, CreateUser(c) PROVE RowInv'
  <2>1. PICK rs \in SUBSET Roles : IF rs = {} THEN Returns(c) ELSE Moves(c, [pc |-> "roles", roles |-> rs])
    BY <1>9 DEF CreateUser
  <2> DEFINE u == [NoUser EXCEPT !.live = TRUE, !.active = TRUE]
  <2>2. Writes(c, u, u)
    BY <1>9 DEF CreateUser
  <2> QED
    BY <1>7, <1>8, <2>1, <2>2
<1>10. ASSUME NEW c \in Clients, CreateAssigns(c) PROVE RowInv'
  <2>1. client[c] \in Assigning
    BY <1>10, RequestKinds DEF CreateAssigns
  <2>2. PICK r \in client[c].roles :
          /\ IF client[c].roles = {r} THEN Returns(c) ELSE Moves(c, [client[c] EXCEPT !.roles = @ \ {r}])
          /\ \/ Writes(c, [user EXCEPT !.roles = @ \cup {r}], [want EXCEPT !.roles = @ \cup {r}])
             \/ UNCHANGED <<user, want, overlapped>>
    BY <1>10 DEF CreateAssigns
  <2> DEFINE st == [client[c] EXCEPT !.roles = @ \ {r}]
  <2>3. st.pc = "roles"
    BY <2>1 DEF Assigning
  <2>4. ~overlapped => [user EXCEPT !.roles = @ \cup {r}] = [want EXCEPT !.roles = @ \cup {r}]
    BY DEF RowInv
  <2>5. CASE Returns(c)
    BY <1>6, <1>7, <2>2, <2>4, <2>5
  <2>6. CASE Moves(c, st)
    BY <1>3, <1>8, <2>2, <2>3, <2>4, <2>6
  <2> QED
    BY <2>2, <2>5, <2>6
<1>11. ASSUME NEW c \in Clients, Loads(c) PROVE RowInv'
  BY <1>3, <1>11 DEF Loads
<1>12. ASSUME NEW c \in Clients, UpdateUser(c) PROVE RowInv'
  <2>1. client[c] \in Updating /\ Holds(c)
    BY <1>12, RequestKinds DEF UpdateUser, Holds
  <2> DEFINE b == client[c].active
             new == [client[c].copy EXCEPT !.active = b]
  <2>2. new \in Users /\ user \in Users /\ want \in Users
    BY <2>1 DEF Updating, Users, AccType
  <2>3. ~overlapped => Save(new) = [want EXCEPT !.active = b]
    <3> SUFFICES ASSUME ~overlapped PROVE Save(new) = [want EXCEPT !.active = b]
      OBVIOUS
    <3>1. client[c].copy = user /\ user = want /\ want.live
      BY <2>1 DEF RowInv
    <3> QED
      BY <2>2, <3>1 DEF Save, Users
  <2>4. Writes(c, Save(new), [want EXCEPT !.active = b]) /\ Returns(c)
    BY <1>12 DEF UpdateUser
  <2> QED
    BY <1>7, <2>3, <2>4
<1>13. ASSUME NEW c \in Clients, ChangePassword(c) PROVE RowInv'
  <2>1. client[c] \in Copying /\ Holds(c)
    BY <1>13, RequestKinds DEF ChangePassword, Holds
  <2> DEFINE p == client[c].copy.password + 1
             new == [client[c].copy EXCEPT !.password = p]
  <2>2. new \in Users /\ user \in Users /\ want \in Users
    BY <2>1 DEF Copying, Users, AccType
  <2>3. ~overlapped => Save(new) = [want EXCEPT !.password = p]
    <3> SUFFICES ASSUME ~overlapped PROVE Save(new) = [want EXCEPT !.password = p]
      OBVIOUS
    <3>1. client[c].copy = user /\ user = want /\ want.live
      BY <2>1 DEF RowInv
    <3> QED
      BY <2>2, <3>1 DEF Save, Users
  <2>4. Writes(c, Save(new), [want EXCEPT !.password = p]) /\ Returns(c)
    BY <1>13 DEF ChangePassword
  <2> QED
    BY <1>7, <2>3, <2>4
<1>14. ASSUME NEW c \in Clients, AssignRole(c) PROVE RowInv'
  <2>1. client[c] \in Granting /\ Holds(c)
    BY <1>14, RequestKinds DEF AssignRole, Holds
  <2> DEFINE r == client[c].role
             new == [user EXCEPT !.roles = Appended(@, client[c].copy.roles, r)]
  <2>2. ~overlapped => new = [want EXCEPT !.roles = @ \cup {r}]
    <3> SUFFICES ASSUME ~overlapped PROVE new = [want EXCEPT !.roles = @ \cup {r}]
      OBVIOUS
    <3>1. client[c].copy = user /\ user = want /\ want \in Users
      BY <2>1 DEF RowInv, AccType
    <3>2. want.roles \cup want.roles \cup {r} = want.roles \cup {r}
      OBVIOUS
    <3> QED
      BY <3>1, <3>2 DEF Appended
  <2>3. Writes(c, new, [want EXCEPT !.roles = @ \cup {r}]) /\ Returns(c)
    BY <1>14 DEF AssignRole
  <2> QED
    BY <1>7, <2>2, <2>3
<1>15. ASSUME NEW c \in Clients, RevokeRole(c) \/ DeleteUser(c) PROVE RowInv'
  <2>1. PICK u, w : Writes(c, u, w) /\ (~overlapped => u = w)
    BY <1>15 DEF RevokeRole, DeleteUser, RowInv
  <2>2. ~Holds(c)' /\ \A d \in Clients \ {c} : client'[d] = client[d]
    BY <1>15 DEF RevokeRole, DeleteUser, Holds, Waiting
  <2> QED
    BY <2>1, <2>2, RowWritten
<1>16. ASSUME NEW c \in Clients, WriteFails(c) PROVE RowInv'
  BY <1>6, <1>16 DEF WriteFails
<1>17. ASSUME NEW c \in Clients, LoginReads(c) PROVE RowInv'
  BY <1>3, <1>17 DEF LoginReads
<1>18. ASSUME NEW c \in Clients, LoginSaves(c) PROVE RowInv'
  <2>1. client[c] \in Copying /\ Holds(c)
    BY <1>18, RequestKinds DEF LoginSaves, Holds
  <2>2. ~overlapped => Save(client[c].copy) = want
    <3> SUFFICES ASSUME ~overlapped PROVE Save(client[c].copy) = want
      OBVIOUS
    <3>1. client[c].copy = user /\ user = want /\ want.live /\ want \in Users
      BY <2>1 DEF RowInv, AccType
    <3> QED
      BY <3>1 DEF Save, Users
  <2>3. Moves(c, [pc |-> "issue", from |-> {}])
    BY <1>18 DEF LoginSaves
  <2>4. CASE Writes(c, Save(client[c].copy), want)
    BY <1>8, <2>2, <2>3, <2>4
  <2>5. CASE UNCHANGED <<user, want, overlapped>>
    BY <1>3, <2>3, <2>5
  <2> QED
    BY <1>18, <2>4, <2>5 DEF LoginSaves
<1>19. ASSUME NEW c \in Clients, generateTokenPair(c) PROVE RowInv'
  BY <1>6, <1>19 DEF generateTokenPair
<1>20. ASSUME NEW c \in Clients, NEW t \in Tokens, RefreshReads(c, t) PROVE RowInv'
  BY <1>3, <1>20 DEF RefreshReads
<1>21. ASSUME NEW c \in Clients, RefreshLoads(c) PROVE RowInv'
  <2>1. client[c] \in Redeeming
    BY <1>21, RequestKinds DEF RefreshLoads
  <2>2. [client[c] EXCEPT !.pc = "rotate"].pc = "rotate"
    BY <2>1 DEF Redeeming
  <2> QED
    BY <1>3, <1>6, <1>21, <2>2 DEF RefreshLoads
<1>22. ASSUME NEW c \in Clients, RefreshRotates(c) PROVE RowInv'
  BY <1>3, <1>22 DEF RefreshRotates
<1>23. ASSUME NEW c \in Clients, NEW t \in Tokens, Logout(c, t) PROVE RowInv'
  BY <1>4, <1>23 DEF Logout
<1>24. ASSUME NEW t \in Tokens, TokenExpires(t) PROVE RowInv'
  BY <1>4, <1>24 DEF TokenExpires
<1> QED
  BY <1>5, <1>9, <1>10, <1>11, <1>12, <1>13, <1>14, <1>15, <1>16, <1>17, <1>18, <1>19, <1>20, <1>21, <1>22,
     <1>23, <1>24 DEF AccNext

\* A step that touches no token and puts no request in charge of one.
LEMMA TokensKept ==
    ASSUME TokenInv, UNCHANGED <<issued, spent, honoured, twice, excused>>, keys' \subseteq keys,
           \A c \in Clients, t \in Tokens : /\ Redeems(c, t)' => Redeems(c, t)
                                            /\ Cashes(c, t)' => Cashes(c, t)
    PROVE  TokenInv'
  BY DEF TokenInv

LEMMA TokenNext == AccType /\ TokenInv /\ [AccNext]_accVars => TokenInv'
<1> SUFFICES ASSUME AccType, TokenInv, [AccNext]_accVars PROVE TokenInv'
  OBVIOUS
<1>1. ASSUME NEW c \in Clients, NEW st, Moves(c, st)
      PROVE  client'[c] = st /\ \A d \in Clients \ {c} : client'[d] = client[d]
  BY <1>1 DEF AccType, Moves
<1>2. ASSUME NEW c \in Clients, NEW st, Moves(c, st), UNCHANGED <<keys, issued, tokenHistory>>,
             st.pc \notin {"load", "rotate", "issue"}
      PROVE  TokenInv'
  <2>1. \A d \in Clients, t \in Tokens : (Redeems(d, t)' => Redeems(d, t)) /\ (Cashes(d, t)' => Cashes(d, t))
    BY <1>1, <1>2 DEF Redeems, Cashes
  <2> QED
    BY <1>2, <2>1, TokensKept DEF tokenHistory
<1>3. ASSUME NEW c \in Clients, Returns(c), UNCHANGED <<keys, issued, tokenHistory>> PROVE TokenInv'
  BY <1>2, <1>3 DEF Returns, Waiting
<1>4. ASSUME UNCHANGED <<issued, client, tokenHistory>>, keys' \subseteq keys PROVE TokenInv'
  <2>1. \A d \in Clients, t \in Tokens : (Redeems(d, t)' => Redeems(d, t)) /\ (Cashes(d, t)' => Cashes(d, t))
    BY <1>4 DEF Redeems, Cashes
  <2> QED
    BY <1>4, <2>1, TokensKept DEF tokenHistory
<1>5. CASE UNCHANGED accVars
  BY <1>4, <1>5 DEF accVars, tokenHistory
<1>6. ASSUME NEW c \in Clients, CreateUser(c) PROVE TokenInv'
  BY <1>2, <1>3, <1>6 DEF CreateUser
<1>7. ASSUME NEW c \in Clients, CreateAssigns(c) PROVE TokenInv'
  <2>1. client[c] \in Assigning
    BY <1>7, RequestKinds DEF CreateAssigns
  <2>2. \A r : [client[c] EXCEPT !.roles = @ \ {r}].pc = "roles"
    BY <2>1 DEF Assigning
  <2>3. UNCHANGED <<keys, issued, tokenHistory>>
    BY <1>7 DEF CreateAssigns
  <2>4. \E r : Returns(c) \/ Moves(c, [client[c] EXCEPT !.roles = @ \ {r}])
    BY <1>7 DEF CreateAssigns
  <2> QED
    BY <1>2, <1>3, <2>2, <2>3, <2>4
<1>8. ASSUME NEW c \in Clients, Loads(c) PROVE TokenInv'
  BY <1>2, <1>8 DEF Loads
<1>9. ASSUME NEW c \in Clients, UpdateUser(c) \/ ChangePassword(c) \/ AssignRole(c) \/ WriteFails(c) PROVE TokenInv'
  BY <1>3, <1>9 DEF UpdateUser, ChangePassword, AssignRole, WriteFails
<1>10. ASSUME NEW c \in Clients, RevokeRole(c) \/ DeleteUser(c) PROVE TokenInv'
  BY <1>4, <1>10 DEF RevokeRole, DeleteUser
<1>11. ASSUME NEW c \in Clients, LoginReads(c) PROVE TokenInv'
  BY <1>2, <1>11 DEF LoginReads
<1>12. ASSUME NEW c \in Clients, LoginSaves(c) PROVE TokenInv'
  <2>1. Moves(c, [pc |-> "issue", from |-> {}]) /\ UNCHANGED <<keys, issued, tokenHistory>>
    BY <1>12 DEF LoginSaves
  <2>2. \A d \in Clients, t \in Tokens : (Redeems(d, t)' => Redeems(d, t)) /\ (Cashes(d, t)' => Cashes(d, t))
    BY <1>1, <2>1 DEF Redeems, Cashes
  <2> QED
    BY <2>1, <2>2, TokensKept DEF tokenHistory
<1>13. ASSUME NEW c \in Clients, generateTokenPair(c) PROVE TokenInv'
  <2>1. client[c] \in Issuing
    BY <1>13, RequestKinds DEF generateTokenPair
  <2>2. client[c].from \in SUBSET Tokens /\ \A t \in Tokens : Cashes(c, t) <=> t \in client[c].from
    BY <1>13, <2>1 DEF Issuing, Cashes, generateTokenPair
  <2>3. Moves(c, Waiting) /\ UNCHANGED <<spent, excused>>
    BY <1>13 DEF generateTokenPair, Returns
  <2>4. \A d \in Clients, t \in Tokens : /\ Redeems(d, t)' => Redeems(d, t)
                                         /\ Cashes(d, t)' => Cashes(d, t) /\ d # c
    BY <1>1, <2>3 DEF Redeems, Cashes, Waiting
  <2>5. CASE UNCHANGED <<keys, issued, honoured, twice>>
    BY <2>3, <2>4, <2>5, TokensKept
  <2>6. CASE /\ \E t \in Tokens \ issued : issued' = issued \cup {t} /\ keys' = keys \cup {t}
             /\ twice' = twice \cup (client[c].from \cap honoured) /\ honoured' = honoured \cup client[c].from
    <3>1. PICK n \in Tokens \ issued : issued' = issued \cup {n} /\ keys' = keys \cup {n}
      BY <2>6
    <3>2. keys' \subseteq issued' /\ spent' \subseteq issued' /\ honoured' \subseteq spent'
      BY <2>2, <2>3, <2>6, <3>1 DEF TokenInv
    <3>3. twice' \subseteq excused'
      <4>1. \A t \in client[c].from \cap honoured : t \in excused
        BY <2>2 DEF TokenInv
      <4> QED
        BY <2>3, <2>6, <4>1 DEF TokenInv
    <3>4. ASSUME NEW d \in Clients, NEW t \in Tokens
          PROVE  (Redeems(d, t)' => t \in issued') /\ (Cashes(d, t)' => t \in spent')
      BY <2>3, <2>4, <3>1 DEF TokenInv
    <3>5. ASSUME NEW t \in Tokens \ excused'
          PROVE  /\ t \in spent' => t \notin keys' /\ \A d \in Clients : ~Redeems(d, t)'
                 /\ t \in honoured' => \A d \in Clients : ~Cashes(d, t)'
                 /\ \A d, e \in Clients : /\ Redeems(d, t)' /\ Redeems(e, t)' => d = e
                                          /\ Cashes(d, t)' /\ Cashes(e, t)' => d = e
      <4>1. t \in spent' => t \notin keys' /\ \A d \in Clients : ~Redeems(d, t)'
        BY <2>3, <2>4, <3>1 DEF TokenInv
      <4>2. t \in honoured' => \A d \in Clients : ~Cashes(d, t)'
        BY <2>2, <2>3, <2>4, <2>6 DEF TokenInv
      <4> QED
        BY <2>3, <2>4, <4>1, <4>2 DEF TokenInv
    <3> QED
      BY <3>2, <3>3, <3>4, <3>5 DEF TokenInv
  <2> QED
    BY <1>13, <2>5, <2>6 DEF generateTokenPair
<1>14. ASSUME NEW c \in Clients, NEW t \in Tokens, RefreshReads(c, t) PROVE TokenInv'
  <2>1. /\ Moves(c, [pc |-> "load", token |-> t]) /\ t \in keys
        /\ UNCHANGED <<keys, issued, spent, honoured, twice>>
    BY <1>14 DEF RefreshReads
  <2>2. \A d \in Clients, x \in Tokens : /\ Redeems(d, x)' => Redeems(d, x) \/ (d = c /\ x = t)
                                         /\ Cashes(d, x)' => Cashes(d, x)
    BY <1>1, <2>1 DEF Redeems, Cashes
  <2>3. excused \subseteq excused' /\ (t \notin excused' => \A d \in Clients : ~Redeems(d, t))
    BY <1>14 DEF RefreshReads, Exchanging, Redeems
  <2> QED
    BY <2>1, <2>2, <2>3 DEF TokenInv
<1>15. ASSUME NEW c \in Clients, RefreshLoads(c) PROVE TokenInv'
  <2>1. client[c] \in Redeeming
    BY <1>15, RequestKinds DEF RefreshLoads
  <2>2. UNCHANGED <<keys, issued, tokenHistory>>
    BY <1>15 DEF RefreshLoads
  <2>3. CASE Returns(c)
    BY <1>3, <2>2, <2>3
  <2>4. CASE Moves(c, [client[c] EXCEPT !.pc = "rotate"])
    <3>1. client'[c].pc = "rotate" /\ client'[c].token = client[c].token
      BY <1>1, <2>1, <2>4 DEF Redeeming
    <3>2. client[c].pc = "load"
      BY <1>15 DEF RefreshLoads
    <3>3. \A d \in Clients, t \in Tokens : (Redeems(d, t)' => Redeems(d, t)) /\ (Cashes(d, t)' => Cashes(d, t))
      BY <1>1, <2>4, <3>1, <3>2 DEF Redeems, Cashes
    <3> QED
      BY <2>2, <3>3, TokensKept DEF tokenHistory
  <2> QED
    BY <1>15, <2>3, <2>4 DEF RefreshLoads
<1>16. ASSUME NEW c \in Clients, RefreshRotates(c) PROVE TokenInv'
  <2>1. client[c] \in Redeeming
    BY <1>16, RequestKinds DEF RefreshRotates
  <2> DEFINE t == client[c].token
  <2>2. t \in Tokens /\ Redeems(c, t)
    BY <1>16, <2>1 DEF Redeeming, Redeems, RefreshRotates
  <2>3. /\ Moves(c, [pc |-> "issue", from |-> {t}]) /\ spent' = spent \cup {t}
        /\ UNCHANGED <<issued, honoured, twice>>
    BY <1>16 DEF RefreshRotates
  <2>4. excused \subseteq excused' /\ keys' \subseteq keys /\ (t \notin excused' => t \notin keys')
    BY <1>16 DEF RefreshRotates, Rotated
  <2>5. \A d \in Clients, x \in Tokens : /\ Redeems(d, x)' => Redeems(d, x) /\ d # c
                                         /\ Cashes(d, x)' => Cashes(d, x) \/ (d = c /\ x = t)
    BY <1>1, <2>3 DEF Redeems, Cashes
  <2>6. t \in issued
    BY <2>2 DEF TokenInv
  <2>7. /\ keys' \subseteq issued' /\ spent' \subseteq issued' /\ honoured' \subseteq spent' /\ twice' \subseteq excused'
        /\ \A d \in Clients, x \in Tokens : (Redeems(d, x)' => x \in issued') /\ (Cashes(d, x)' => x \in spent')
    BY <2>3, <2>4, <2>5, <2>6 DEF TokenInv
  <2>8. ASSUME NEW x \in Tokens \ excused'
        PROVE  /\ x \in spent' => x \notin keys' /\ \A d \in Clients : ~Redeems(d, x)'
               /\ x \in honoured' => \A d \in Clients : ~Cashes(d, x)'
               /\ \A d, e \in Clients : /\ Redeems(d, x)' /\ Redeems(e, x)' => d = e
                                        /\ Cashes(d, x)' /\ Cashes(e, x)' => d = e
    <3>1. CASE x = t
      <4>1. x \notin spent /\ x \notin honoured /\ \A d \in Clients : ~Cashes(d, x)
        BY <2>2, <2>4, <3>1 DEF TokenInv
      <4>2. \A d \in Clients : Redeems(d, x) => d = c
        BY <2>2, <2>4, <3>1 DEF TokenInv
      <4> QED
        BY <2>3, <2>4, <2>5, <3>1, <4>1, <4>2
    <3>2. CASE x # t
      BY <2>3, <2>4, <2>5, <3>2 DEF TokenInv
    <3> QED
      BY <3>1, <3>2
  <2> QED
    BY <2>7, <2>8 DEF TokenInv
<1>17. ASSUME NEW c \in Clients, NEW t \in Tokens, Logout(c, t) PROVE TokenInv'
  <2>1. /\ t \in issued /\ keys' = keys \ {t} /\ spent' = spent \cup {t}
        /\ UNCHANGED <<issued, client, honoured, twice>>
    BY <1>17 DEF Logout
  <2>2. \A d \in Clients, x \in Tokens : (Redeems(d, x)' <=> Redeems(d, x)) /\ (Cashes(d, x)' <=> Cashes(d, x))
    BY <2>1 DEF Redeems, Cashes
  <2>3. excused \subseteq excused' /\ (t \notin excused' => \A d \in Clients : ~Redeems(d, t))
    BY <1>17 DEF Logout, Exchanging, Redeems
  <2> QED
    BY <2>1, <2>2, <2>3 DEF TokenInv
<1>18. ASSUME NEW t \in Tokens, TokenExpires(t) PROVE TokenInv'
  BY <1>4, <1>18 DEF TokenExpires
<1> QED
  BY <1>5, <1>6, <1>7, <1>8, <1>9, <1>10, <1>11, <1>12, <1>13, <1>14, <1>15, <1>16, <1>17, <1>18 DEF AccNext

\* Type correctness of module Access, for any number of requests, tokens and roles.
THEOREM AccTypeCorrect == AccSpec => []AccType
  BY AccInitial, AccTypeNext, PTL DEF AccSpec

\* What the requests of user_service.go and auth_service.go asked for is what the row says as long as
\* none wrote it between another's read and write.
THEOREM RevokedStaysRevokedCorrect == AccSpec => []RevokedStaysRevoked
<1>1. RowInv => RevokedStaysRevoked
  BY DEF RowInv, RevokedStaysRevoked
<1> QED
  BY <1>1, AccInitial, AccTypeNext, RowNext, PTL DEF AccSpec

\* RefreshToken and Logout of auth_service.go: a token is exchanged at most once and never after a logout,
\* unless two requests used it at once or Redis failed to delete it.
THEOREM SpentStaysSpentCorrect == AccSpec => []SpentStaysSpent
<1>1. AccType /\ TokenInv => SpentStaysSpent
  BY DEF AccType, TokenInv, SpentStaysSpent
<1> QED
  BY <1>1, AccInitial, AccTypeNext, TokenNext, PTL DEF AccSpec

----------------------------------------------------------------------------
(* RequestLimits: the limiters and the marker of synchronisations *)

Buckets == [count : Nat, resetAt : Nat]
Entries == [at : Nat, swept : BOOLEAN]

\* The type of the variables of module RequestLimits; a request inside has an address.
LimType == /\ now \in Nat /\ now > 0
           /\ bucket \in [LayerNames -> [Keys -> Buckets]]
           /\ arrival \in [Arrivals -> [at : 0..Handler, from : Addresses \cup {"nowhere"}, of : Nat]]
           /\ \A a \in Arrivals : arrival[a].at # 0 => arrival[a].from \in Addresses
           /\ marker \in [at : Nat, of : Nat] /\ timers \subseteq [due : Nat, of : Nat]
           /\ arrived \in Nat /\ swept \in BOOLEAN
           /\ passes \in Seq(Nat) /\ synced \in Seq(Entries)

\* The marker is that of the last synchronisation; when it is missing, either it was swept or its time
\* is over.  No timer is due before the time of its own synchronisation is over.
MarkInv == /\ marker = NoMarker \/ (Len(synced) > 0 /\ marker = [at |-> synced[Len(synced)].at, of |-> Len(synced)])
           /\ \A i \in 1..Len(synced) : synced[i].at <= now
           /\ \A a \in Arrivals : arrival[a].at = Handler => arrival[a].of \in 1..Len(synced)
           /\ \A t \in timers : t.of \in 1..Len(synced) /\ synced[t.of].at + SyncWindow <= t.due
           /\ Len(synced) > 0 /\ marker = NoMarker /\ ~swept => synced[Len(synced)].at + SyncWindow <= now
           /\ \A i \in 2..Len(synced) : synced[i-1].at + SyncWindow <= synced[i].at \/ synced[i].swept

\* The passes from the f-th on fall into the last window of the hypervisor's limiter, which began at s: they are at
\* most as many as the limit, and those a limit or more before them lie a whole window before s.
LastWindow(f, s) ==
    LET limit == Limit["provider"]
        b     == bucket["provider"]["all"]
        n     == Len(passes)
    IN  /\ f <= n + 1 /\ n + 1 - f <= limit /\ s <= now
        /\ \A i \in 1..n : IF i < f THEN passes[i] < s ELSE s <= passes[i] /\ passes[i] <= s + Window
        /\ \A i \in 1..n : i + limit < f => passes[i] + Window < s
        /\ \/ now > s + Window /\ now > b.resetAt
           \/ b.resetAt = s + Window /\ n + 1 - f <= b.count

PassInv == /\ \A i \in 1..Len(passes) : passes[i] <= now
           /\ \A i \in 1..Len(passes) : LET j == i + 2 * Limit["provider"]
                                        IN  j <= Len(passes) => passes[i] + Window < passes[j]
           /\ IF "provider" \in LayerNames THEN \E f \in Nat \ {0}, s \in Int : LastWindow(f, s) ELSE passes = << >>

LEMMA LimInitial == LimInit => LimType /\ MarkInv /\ PassInv
<1> SUFFICES ASSUME LimInit PROVE LimType /\ MarkInv /\ PassInv
  OBVIOUS
<1>1. Len(Layers) \in Nat
  BY LimitsAssumption
<1>2. NoBucket \in Buckets
  BY DEF NoBucket, Buckets
<1>3. Away \in [at : 0..Handler, from : Addresses \cup {"nowhere"}, of : Nat]
  BY <1>1 DEF Away, Handler, Sync
<1>4. NoMarker \in [at : Nat, of : Nat]
  BY DEF NoMarker
<1>5. passes = << >> /\ synced = << >> /\ passes \in Seq(Nat) /\ synced \in Seq(Entries)
  BY DEF LimInit
<1>6. bucket \in [LayerNames -> [Keys -> Buckets]]
  BY <1>2 DEF LimInit
<1>7. LimType
  <2>1. arrival \in [Arrivals -> [at : 0..Handler, from : Addresses \cup {"nowhere"}, of : Nat]]
    BY <1>3 DEF LimInit
  <2>2. \A a \in Arrivals : arrival[a].at = 0
    BY DEF LimInit, Away
  <2>3. now \in Nat /\ now > 0 /\ arrived \in Nat
    BY DEF LimInit
  <2>5. timers \subseteq [due : Nat, of : Nat]
    BY DEF LimInit
  <2>6. swept \in BOOLEAN
    BY DEF LimInit
  <2>4. marker \in [at : Nat, of : Nat]
    BY <1>4 DEF LimInit
  <2> QED
    BY <1>5, <1>6, <2>1, <2>2, <2>3, <2>4, <2>5, <2>6 DEF LimType
<1>8. Len(synced) = 0 /\ Len(passes) = 0
  BY <1>5
<1>9. MarkInv
  BY <1>1, <1>5, <1>8 DEF LimInit, MarkInv, Away, Handler, Sync
<1>10. "provider" \in LayerNames => \E f \in Nat \ {0}, s \in Int : LastWindow(f, s)
  <2> SUFFICES ASSUME "provider" \in LayerNames PROVE LastWindow(1, 0 - Window)
    BY LimitsAssumption
  <2>1. Limit["provider"] \in Nat \ {0} /\ Window \in Nat
    BY LimitsAssumption
  <2>2. bucket["provider"]["all"].resetAt = 0 /\ bucket["provider"]["all"].count = 0
    BY DEF LimInit, Keys, NoBucket
  <2>3. now = 1
    BY DEF LimInit
  <2> QED
    BY <1>8, <2>1, <2>2, <2>3 DEF LastWindow
<1>11. PassInv
  BY <1>5, <1>8, <1>10 DEF PassInv
<1> QED
  BY <1>7, <1>9, <1>11

\* What RateLimit does to the state, by the bucket of the request's layer and key.
LEMMA RateLimitEffect ==
    ASSUME LimType, NEW a \in Arrivals, RateLimit(a)
    PROVE  \E layer \in LayerNames, key \in Keys, b \in Buckets :
              LET ok == b.count <= Limit[layer] IN
              /\ layer = "provider" => key = "all"
              /\ b = Allow(bucket[layer][key], Limit[layer])
              /\ arrival[a].at \in 1..Len(Layers)
              /\ bucket' = [bucket EXCEPT ![layer][key] = b]
              /\ arrival' = IF ok THEN [arrival EXCEPT ![a] = [arrival[a] EXCEPT !.at = arrival[a].at + 1]]
                            ELSE [arrival EXCEPT ![a] = Away]
              /\ passes' = IF ok /\ layer = "provider" THEN Append(passes, now) ELSE passes
<1> DEFINE layer == Layers[arrival[a].at]
           key   == KeyIn(layer, arrival[a].from)
           b     == Allow(bucket[layer][key], Limit[layer])
<1>1. arrival[a].at \in 1..Len(Layers)
  BY DEF RateLimit
<1>2. layer \in LayerNames
  BY <1>1 DEF LayerNames
<1>3. key \in Keys /\ (layer = "provider" => key = "all")
  <2>1. arrival[a].from \in Addresses
    BY <1>1 DEF LimType
  <2> QED
    BY <2>1 DEF KeyIn, Keys
<1>4. bucket[layer][key] \in Buckets
  BY <1>2, <1>3 DEF LimType
<1>5. b \in Buckets
  <2>1. now \in Nat /\ Window \in Nat /\ bucket[layer][key].count \in Nat
    BY <1>4, LimitsAssumption DEF LimType, Buckets
  <2>2. [count |-> 1, resetAt |-> now + Window] \in Buckets
    BY <2>1 DEF Buckets
  <2>3. [bucket[layer][key] EXCEPT !.count = @ + 1] \in Buckets
    <3>1. ASSUME NEW b0 \in Buckets PROVE [b0 EXCEPT !.count = @ + 1] \in Buckets
      BY DEF Buckets
    <3> QED
      BY <1>4, <3>1
  <2> QED
    BY <2>2, <2>3 DEF Allow
<1>6. /\ bucket' = [bucket EXCEPT ![layer][key] = b]
      /\ passes' = IF b.count <= Limit[layer] /\ layer = "provider" THEN Append(passes, now) ELSE passes
  BY DEF RateLimit
<1>7. arrival' = IF b.count <= Limit[layer] THEN [arrival EXCEPT ![a] = [arrival[a] EXCEPT !.at = arrival[a].at + 1]]
                 ELSE [arrival EXCEPT ![a] = Away]
  BY DEF RateLimit, LimType
<1> QED
  BY <1>1, <1>2, <1>3, <1>5, <1>6, <1>7

LEMMA LimTypeNext == LimType /\ [LimNext]_limVars => LimType'
<1> SUFFICES ASSUME LimType, [LimNext]_limVars PROVE LimType'
  OBVIOUS
<1> DEFINE Arriving == [at : 0..Handler, from : Addresses \cup {"nowhere"}, of : Nat]
<1>1. Len(Layers) \in Nat /\ Sync \in Nat /\ Handler \in Nat /\ Sync <= Handler /\ Len(Layers) < Sync /\ Sync > 0
  BY LimitsAssumption DEF Handler, Sync
<1>2. Away \in Arriving /\ Away.at = 0
  BY <1>1 DEF Away
<1>3. ASSUME NEW a \in Arrivals, NEW st \in Arriving, arrival' = [arrival EXCEPT ![a] = st],
             st.at # 0 => st.from \in Addresses
      PROVE  /\ arrival' \in [Arrivals -> Arriving]
             /\ \A x \in Arrivals : arrival'[x].at # 0 => arrival'[x].from \in Addresses
  BY <1>3 DEF LimType
<1>4. CASE UNCHANGED limVars
  BY <1>4 DEF LimType, limVars
<1>5. CASE Tick
  <2>1. now' \in Nat /\ now' > 0
    BY <1>5 DEF LimType, Tick
  <2> QED
    BY <1>5, <2>1 DEF LimType, Tick
<1>6. CASE cleanup
  <2>1. NoBucket \in Buckets
    BY DEF NoBucket, Buckets
  <2>2. bucket' \in [LayerNames -> [Keys -> Buckets]]
    BY <1>6, <2>1 DEF LimType, cleanup
  <2> QED
    BY <1>6, <2>2 DEF LimType, cleanup
<1>7. CASE TimerFires
  <2>1. NoMarker \in [at : Nat, of : Nat]
    BY DEF NoMarker
  <2>2. swept' \in BOOLEAN
    <3>1. PICK t \in timers : swept' = (swept \/ marker.of \notin {0, t.of})
      BY <1>7 DEF TimerFires
    <3>2. (swept \/ marker.of \notin {0, t.of}) \in BOOLEAN
      OBVIOUS
    <3> QED
      BY <3>1, <3>2
  <2> QED
    BY <1>7, <2>1, <2>2 DEF LimType, TimerFires
<1>8. ASSUME NEW a \in Arrivals, Arrive(a) PROVE LimType'
  <2>1. PICK x \in Addresses : arrival' = [arrival EXCEPT ![a] = [at |-> 1, from |-> x, of |-> 0]]
    BY <1>8 DEF Arrive
  <2>2. [at |-> 1, from |-> x, of |-> 0] \in Arriving
    BY <1>1
  <2>3. arrived' \in Nat
    BY <1>8 DEF LimType, Arrive
  <2> QED
    BY <1>3, <1>8, <2>1, <2>2, <2>3 DEF LimType, Arrive
<1>9. ASSUME NEW a \in Arrivals, RateLimit(a) PROVE LimType'
  <2>1. PICK layer \in LayerNames, key \in Keys, b \in Buckets :
              LET ok == b.count <= Limit[layer] IN
              /\ layer = "provider" => key = "all"
              /\ b = Allow(bucket[layer][key], Limit[layer])
              /\ arrival[a].at \in 1..Len(Layers)
              /\ bucket' = [bucket EXCEPT ![layer][key] = b]
              /\ arrival' = IF ok THEN [arrival EXCEPT ![a] = [arrival[a] EXCEPT !.at = arrival[a].at + 1]]
                            ELSE [arrival EXCEPT ![a] = Away]
              /\ passes' = IF ok /\ layer = "provider" THEN Append(passes, now) ELSE passes
    BY <1>9, RateLimitEffect
  <2>2. bucket' \in [LayerNames -> [Keys -> Buckets]]
    BY <2>1 DEF LimType
  <2>3. passes' \in Seq(Nat)
    BY <2>1 DEF LimType
  <2> DEFINE st == [arrival[a] EXCEPT !.at = arrival[a].at + 1]
  <2>4. st \in Arriving /\ st.from = arrival[a].from /\ arrival[a].at # 0
    <3>1. arrival[a] \in Arriving /\ arrival[a].at \in 1..Len(Layers)
      BY <2>1 DEF LimType
    <3>2. arrival[a].at + 1 \in 0..Handler /\ arrival[a].at # 0
      BY <1>1, <3>1
    <3> HIDE DEF Arriving
    <3>3. ASSUME NEW r \in Arriving, NEW n \in 0..Handler
          PROVE  [r EXCEPT !.at = n] \in Arriving /\ [r EXCEPT !.at = n].from = r.from
      BY DEF Arriving
    <3> QED
      BY <3>1, <3>2, <3>3
  <2>5. st.from \in Addresses
    BY <2>4 DEF LimType
  <2>6. /\ arrival' \in [Arrivals -> Arriving]
        /\ \A x \in Arrivals : arrival'[x].at # 0 => arrival'[x].from \in Addresses
    <3>1. CASE b.count <= Limit[layer]
      BY <1>3, <2>1, <2>4, <2>5, <3>1
    <3>2. CASE ~(b.count <= Limit[layer])
      BY <1>2, <1>3, <2>1, <3>2
    <3> QED
      BY <3>1, <3>2
  <2> QED
    BY <1>9, <2>2, <2>3, <2>6 DEF LimType, RateLimit
<1>10. ASSUME NEW a \in Arrivals, DeduplicateSync(a) PROVE LimType'
  <2>1. CASE InFlight
    BY <1>2, <1>3, <1>10, <2>1 DEF LimType, DeduplicateSync
  <2>2. CASE ~InFlight
    <3> DEFINE n == Len(synced) + 1
               st == [[arrival[a] EXCEPT !.at = Handler] EXCEPT !.of = n]
    <3>1. n \in Nat
      BY DEF LimType
    <3>2. arrival' = [arrival EXCEPT ![a] = st]
      BY <1>10, <2>2 DEF DeduplicateSync, LimType
    <3>3. arrival[a].at = Sync /\ arrival[a] \in Arriving
      BY <1>10 DEF DeduplicateSync, LimType
    <3>4. st \in Arriving /\ st.from = arrival[a].from
      <4>1. Handler \in 0..Handler
        BY <1>1
      <4> HIDE DEF n
      <4> QED
        BY <3>1, <3>3, <4>1
    <3>5. arrival[a].from \in Addresses
      <4>1. arrival[a].at # 0
        BY <1>1, <3>3
      <4> QED
        BY <4>1 DEF LimType
    <3>6. marker' \in [at : Nat, of : Nat]
      BY <1>10, <2>2, <3>1 DEF DeduplicateSync, LimType
    <3>7. [at |-> now, swept |-> swept] \in Entries
      BY DEF LimType, Entries
    <3>8. synced' \in Seq(Entries)
      <4>1. synced' = Append(synced, [at |-> now, swept |-> swept]) /\ synced \in Seq(Entries)
        BY <1>10, <2>2 DEF DeduplicateSync, LimType
      <4> QED
        BY <3>7, <4>1, AppendProperties
    <3> QED
      BY <1>3, <1>10, <2>2, <3>2, <3>4, <3>5, <3>6, <3>8 DEF LimType, DeduplicateSync
  <2> QED
    BY <2>1, <2>2
<1>11. ASSUME NEW a \in Arrivals, HandlerReturns(a) PROVE LimType'
  <2>1. [due |-> now + SyncWindow, of |-> arrival[a].of] \in [due : Nat, of : Nat]
    BY LimitsAssumption DEF LimType
  <2> QED
    BY <1>2, <1>3, <1>11, <2>1 DEF LimType, HandlerReturns
<1> QED
  BY <1>4, <1>5, <1>6, <1>7, <1>8, <1>9, <1>10, <1>11 DEF LimNext

LEMMA EntryTimes == LimType => \A i \in 1..Len(synced) : synced[i].at \in Nat
<1> SUFFICES ASSUME LimType, NEW i \in 1..Len(synced) PROVE synced[i].at \in Nat
  OBVIOUS
<1>1. synced[i] \in Entries
  BY ElementOfSeq DEF LimType
<1> QED
  BY <1>1 DEF Entries

LEMMA MarkNext == LimType /\ MarkInv /\ [LimNext]_limVars => MarkInv'
<1> SUFFICES ASSUME LimType, MarkInv, [LimNext]_limVars PROVE MarkInv'
  OBVIOUS
<1>1. Len(Layers) \in Nat /\ Sync \in Nat /\ Handler \in Nat /\ Sync < Handler /\ Len(Layers) < Sync /\ Sync > 0
  BY LimitsAssumption DEF Handler, Sync
<1>2. now \in Nat /\ SyncWindow \in Nat /\ Len(synced) \in Nat
  BY LimitsAssumption DEF LimType
<1>3. ASSUME UNCHANGED <<now, marker, timers, synced, swept>>,
             \A a \in Arrivals : arrival'[a].at = Handler => arrival[a].at = Handler /\ arrival'[a].of = arrival[a].of
      PROVE  MarkInv'
  BY <1>3 DEF MarkInv
<1>4. ASSUME NEW a \in Arrivals, NEW st, arrival' = [arrival EXCEPT ![a] = st]
      PROVE  arrival'[a] = st /\ \A x \in Arrivals \ {a} : arrival'[x] = arrival[x]
  BY <1>4 DEF LimType
<1>5. Away.at # Handler
  BY <1>1 DEF Away
<1>6. CASE UNCHANGED limVars
  BY <1>3, <1>6 DEF limVars
<1>7. CASE Tick
  <2>1. now' = now + 1 /\ UNCHANGED <<arrival, marker, timers, synced, swept>>
    BY <1>7 DEF Tick
  <2>2. \A i \in 1..Len(synced) : synced[i].at \in Nat
    BY EntryTimes
  <2>3. \A i \in 1..Len(synced) : synced[i].at <= now'
    <3> SUFFICES ASSUME NEW i \in 1..Len(synced) PROVE synced[i].at <= now'
      OBVIOUS
    <3>1. synced[i].at <= now /\ synced[i].at \in Nat
      BY <2>2 DEF MarkInv
    <3> QED
      BY <1>2, <2>1, <3>1
  <2>4. Len(synced) > 0 /\ marker = NoMarker /\ ~swept => synced[Len(synced)].at + SyncWindow <= now'
    <3> SUFFICES ASSUME Len(synced) > 0, marker = NoMarker, ~swept PROVE synced[Len(synced)].at + SyncWindow <= now'
      OBVIOUS
    <3>1. synced[Len(synced)].at + SyncWindow <= now
      BY DEF MarkInv
    <3>2. synced[Len(synced)].at \in Nat
      BY <1>2, <2>2
    <3> QED
      BY <1>2, <2>1, <3>1, <3>2
  <2> QED
    BY <2>1, <2>3, <2>4 DEF MarkInv
<1>8. CASE cleanup
  BY <1>3, <1>8 DEF cleanup
<1>9. CASE TimerFires
  <2>1. PICK t \in timers : /\ t.due <= now /\ timers' = timers \ {t}
                            /\ swept' = (swept \/ marker.of \notin {0, t.of})
    BY <1>9 DEF TimerFires
  <2>2. marker' = NoMarker /\ UNCHANGED <<now, arrival, synced>>
    BY <1>9 DEF TimerFires
  <2>3. t.due \in Nat
    BY DEF LimType
  <2>4. ASSUME Len(synced) > 0, ~swept' PROVE synced[Len(synced)].at + SyncWindow <= now
    <3>1. ~swept /\ marker.of \in {0, t.of}
      BY <2>1, <2>4
    <3>2. CASE marker = NoMarker
      BY <2>4, <3>1, <3>2 DEF MarkInv
    <3>3. CASE marker # NoMarker
      <4>1. marker.of = Len(synced)
        BY <3>3 DEF MarkInv
      <4>2. t.of = Len(synced)
        BY <2>4, <3>1, <4>1
      <4>3. synced[Len(synced)].at \in Nat
        BY <1>2, <2>4, EntryTimes
      <4> QED
        BY <1>2, <2>1, <2>3, <4>2, <4>3 DEF MarkInv
    <3> QED
      BY <3>2, <3>3
  <2> QED
    BY <2>1, <2>2, <2>4 DEF MarkInv
<1>10. ASSUME NEW a \in Arrivals, Arrive(a) PROVE MarkInv'
  <2>1. PICK x \in Addresses : arrival' = [arrival EXCEPT ![a] = [at |-> 1, from |-> x, of |-> 0]]
    BY <1>10 DEF Arrive
  <2>2. 1 # Handler
    BY <1>1
  <2>3. \A y \in Arrivals : arrival'[y].at = Handler => arrival[y].at = Handler /\ arrival'[y].of = arrival[y].of
    BY <1>4, <2>1, <2>2
  <2> QED
    BY <1>3, <1>10, <2>3 DEF Arrive
<1>11. ASSUME NEW a \in Arrivals, RateLimit(a) PROVE MarkInv'
  <2>1. PICK layer \in LayerNames, key \in Keys, b \in Buckets :
              LET ok == b.count <= Limit[layer] IN
              /\ layer = "provider" => key = "all"
              /\ b = Allow(bucket[layer][key], Limit[layer])
              /\ arrival[a].at \in 1..Len(Layers)
              /\ bucket' = [bucket EXCEPT ![layer][key] = b]
              /\ arrival' = IF ok THEN [arrival EXCEPT ![a] = [arrival[a] EXCEPT !.at = arrival[a].at + 1]]
                            ELSE [arrival EXCEPT ![a] = Away]
              /\ passes' = IF ok /\ layer = "provider" THEN Append(passes, now) ELSE passes
    BY <1>11, RateLimitEffect
  <2>2. arrival[a] \in [at : 0..Handler, from : Addresses \cup {"nowhere"}, of : Nat]
    BY DEF LimType
  <2>3. [arrival[a] EXCEPT !.at = arrival[a].at + 1].at = arrival[a].at + 1
    BY <2>2
  <2>4. arrival[a].at + 1 # Handler
    BY <1>1, <2>1
  <2>5. \A y \in Arrivals : arrival'[y].at = Handler => arrival[y].at = Handler /\ arrival'[y].of = arrival[y].of
    BY <1>4, <1>5, <2>1, <2>3, <2>4
  <2> QED
    BY <1>3, <1>11, <2>5 DEF RateLimit
<1>12. ASSUME NEW a \in Arrivals, DeduplicateSync(a) PROVE MarkInv'
  <2>1. CASE InFlight
    <3>1. arrival' = [arrival EXCEPT ![a] = Away] /\ UNCHANGED <<now, marker, timers, synced, swept>>
      BY <1>12, <2>1 DEF DeduplicateSync
    <3>2. \A y \in Arrivals : arrival'[y].at = Handler => arrival[y].at = Handler /\ arrival'[y].of = arrival[y].of
      BY <1>4, <1>5, <3>1
    <3> QED
      BY <1>3, <3>1, <3>2
  <2>2. CASE ~InFlight
    <3> DEFINE n == Len(synced)
               e == [at |-> now, swept |-> swept]
    <3>1. /\ marker' = [at |-> now, of |-> n + 1] /\ synced' = Append(synced, e) /\ UNCHANGED <<now, timers>>
          /\ arrival' = [arrival EXCEPT ![a].at = Handler, ![a].of = n + 1]
      BY <1>12, <2>2 DEF DeduplicateSync
    <3>2. e \in Entries /\ synced \in Seq(Entries)
      BY DEF LimType, Entries
    <3>3. Len(synced') = n + 1 /\ synced'[n + 1] = e /\ \A i \in 1..n : synced'[i] = synced[i]
      BY <3>1, <3>2, AppendProperties
    <3>4. \A i \in 1..n : synced[i].at \in Nat
      BY EntryTimes
    <3>5. \A i \in 1..n : synced'[i].at = synced[i].at /\ synced'[i].swept = synced[i].swept
      BY <3>3
    <3>6. synced'[n + 1].at = now /\ synced'[n + 1].swept = swept
      BY <3>3
    <3>7. n > 0 => synced[n].at + SyncWindow <= now \/ swept
      <4> SUFFICES ASSUME n > 0, ~swept PROVE synced[n].at + SyncWindow <= now
        OBVIOUS
      <4>1. CASE marker = NoMarker
        BY <4>1 DEF MarkInv
      <4>2. CASE marker # NoMarker
        <5>1. marker.at = synced[n].at
          BY <4>2 DEF MarkInv
        <5>2. ~(now - marker.at < SyncWindow)
          BY <2>2, <4>2 DEF InFlight
        <5>3. synced[n].at \in Nat
          BY <1>2, <3>4
        <5> QED
          BY <1>2, <5>1, <5>2, <5>3
      <4> QED
        BY <4>1, <4>2
    <3>8. \A i \in 2..n+1 : synced'[i-1].at + SyncWindow <= synced'[i].at \/ synced'[i].swept
      <4> SUFFICES ASSUME NEW i \in 2..n+1 PROVE synced'[i-1].at + SyncWindow <= synced'[i].at \/ synced'[i].swept
        OBVIOUS
      <4>1. CASE i = n + 1
        <5>1. i - 1 = n /\ n \in 1..n /\ n > 0
          BY <1>2, <4>1
        <5> QED
          BY <3>5, <3>6, <3>7, <4>1, <5>1
      <4>2. CASE i # n + 1
        <5>1. i \in 2..n /\ i \in 1..n /\ i - 1 \in 1..n
          BY <1>2, <4>2
        <5> QED
          BY <3>5, <5>1 DEF MarkInv
      <4> QED
        BY <4>1, <4>2
    <3>9. \A i \in 1..n+1 : synced'[i].at <= now
      <4> SUFFICES ASSUME NEW i \in 1..n+1 PROVE synced'[i].at <= now
        OBVIOUS
      <4>1. i = n + 1 \/ i \in 1..n
        BY <1>2
      <4> QED
        BY <1>2, <3>5, <3>6, <4>1 DEF MarkInv
    <3>10. \A y \in Arrivals : arrival'[y].at = Handler => arrival'[y].of \in 1..n+1
      <4> SUFFICES ASSUME NEW y \in Arrivals, arrival'[y].at = Handler PROVE arrival'[y].of \in 1..n+1
        OBVIOUS
      <4>1. CASE y = a
        <5>1. arrival[a] \in [at : 0..Handler, from : Addresses \cup {"nowhere"}, of : Nat]
          BY DEF LimType
        <5>2. arrival'[a].of = n + 1
          BY <3>1, <5>1 DEF LimType
        <5> QED
          BY <1>2, <4>1, <5>2
      <4>2. CASE y # a
        <5>1. arrival'[y] = arrival[y]
          BY <3>1, <4>2 DEF LimType
        <5>2. arrival[y].of \in 1..n
          BY <5>1 DEF MarkInv
        <5> QED
          BY <1>2, <5>1, <5>2
      <4> QED
        BY <4>1, <4>2
    <3>11. \A t \in timers : t.of \in 1..n+1 /\ synced'[t.of].at + SyncWindow <= t.due
      <4> SUFFICES ASSUME NEW t \in timers PROVE t.of \in 1..n+1 /\ synced'[t.of].at + SyncWindow <= t.due
        OBVIOUS
      <4>1. t.of \in 1..n /\ synced[t.of].at + SyncWindow <= t.due
        BY DEF MarkInv
      <4> QED
        BY <1>2, <3>5, <4>1
    <3>12. /\ n + 1 > 0 /\ marker' = [at |-> synced'[n + 1].at, of |-> n + 1]
           /\ marker' # NoMarker
      BY <1>2, <3>1, <3>6 DEF NoMarker
    <3> QED
      BY <3>1, <3>3, <3>8, <3>9, <3>10, <3>11, <3>12 DEF MarkInv
  <2> QED
    BY <2>1, <2>2
<1>13. ASSUME NEW a \in Arrivals, HandlerReturns(a) PROVE MarkInv'
  <2>1. /\ timers' = timers \cup {[due |-> now + SyncWindow, of |-> arrival[a].of]}
        /\ arrival' = [arrival EXCEPT ![a] = Away] /\ UNCHANGED <<now, marker, synced, swept>>
    BY <1>13 DEF HandlerReturns
  <2>2. arrival[a].of \in 1..Len(synced)
    BY <1>13 DEF HandlerReturns, MarkInv
  <2>3. \A y \in Arrivals : arrival'[y].at = Handler => arrival[y].at = Handler /\ arrival'[y].of = arrival[y].of
    BY <1>4, <1>5, <2>1
  <2>4. synced[arrival[a].of].at \in Nat /\ synced[arrival[a].of].at <= now
    BY <2>2, EntryTimes DEF MarkInv
  <2>5. synced[arrival[a].of].at + SyncWindow <= now + SyncWindow
    BY <1>2, <2>4
  <2>6. \A t \in timers' : t.of \in 1..Len(synced) /\ synced[t.of].at + SyncWindow <= t.due
    BY <2>1, <2>2, <2>5 DEF MarkInv
  <2> QED
    BY <2>1, <2>3, <2>6 DEF MarkInv
<1> QED
  BY <1>6, <1>7, <1>8, <1>9, <1>10, <1>11, <1>12, <1>13 DEF LimNext

\* The state of the hypervisor's limiter alone decides the passes that PassInv speaks of.
LEMMA PassNext == LimType /\ PassInv /\ [LimNext]_limVars => PassInv'
<1> SUFFICES ASSUME LimType, PassInv, [LimNext]_limVars PROVE PassInv'
  OBVIOUS
<1> DEFINE L == Limit["provider"]
           n == Len(passes)
           b == bucket["provider"]["all"]
<1>1. now \in Nat /\ now > 0 /\ Window \in Nat /\ n \in Nat /\ passes \in Seq(Nat)
  BY LimitsAssumption DEF LimType
<1>2. \A i \in 1..n : passes[i] \in Nat
  BY <1>1, ElementOfSeq
<1>3. "provider" \in LayerNames => L \in Nat /\ L > 0 /\ b \in Buckets
  BY LimitsAssumption DEF LimType, Keys
<1>4. b \in Buckets => b.count \in Nat /\ b.resetAt \in Nat
  BY DEF Buckets
<1>5. ASSUME UNCHANGED <<now, passes>>, "provider" \in LayerNames => b' = b PROVE PassInv'
  <2>1. ASSUME NEW f, NEW s, LastWindow(f, s), "provider" \in LayerNames PROVE LastWindow(f, s)'
    BY <1>5, <2>1 DEF LastWindow
  <2> QED
    BY <1>5, <2>1 DEF PassInv
<1>6. CASE UNCHANGED limVars
  BY <1>5, <1>6 DEF limVars
<1>7. CASE Tick
  <2>1. now' = now + 1 /\ UNCHANGED <<bucket, passes>>
    BY <1>7 DEF Tick
  <2>2. ASSUME NEW f \in Nat \ {0}, NEW s \in Int, LastWindow(f, s), "provider" \in LayerNames PROVE LastWindow(f, s)'
    <3>1. s <= now' /\ (now > s + Window => now' > s + Window) /\ (now > b.resetAt => now' > b.resetAt)
      <4>1. s <= now /\ b.resetAt \in Nat
        BY <1>3, <1>4, <2>2 DEF LastWindow
      <4> QED
        BY <1>1, <2>1, <2>2, <4>1
    <3>2. UNCHANGED <<bucket, passes>>
      BY <2>1
    <3> HIDE DEF L, n, b
    <3> QED
      BY <2>2, <3>1, <3>2 DEF LastWindow, b
  <2>3. \A i \in 1..n : passes[i] <= now'
    BY <1>1, <1>2, <2>1 DEF PassInv
  <2> QED
    BY <2>1, <2>2, <2>3 DEF PassInv
<1>8. CASE cleanup
  <2>1. /\ UNCHANGED <<now, passes>>
        /\ bucket' = [l \in LayerNames |-> [k \in Keys |->
                            IF now > bucket[l][k].resetAt THEN NoBucket ELSE bucket[l][k]]]
    BY <1>8 DEF cleanup
  <2>2. CASE "provider" \in LayerNames
    <3>1. b' = IF now > b.resetAt THEN NoBucket ELSE b
      BY <2>1, <2>2 DEF Keys
    <3>2. CASE ~(now > b.resetAt)
      BY <1>5, <2>1, <3>1, <3>2
    <3>3. CASE now > b.resetAt
      <4>1. b'.resetAt = 0 /\ b'.count = 0
        BY <3>1, <3>3 DEF NoBucket
      <4>2. ASSUME NEW f \in Nat \ {0}, NEW s \in Int, LastWindow(f, s) PROVE LastWindow(f, s)'
        <5>1. now > s + Window
          BY <1>1, <1>3, <1>4, <2>2, <3>3, <4>2 DEF LastWindow
        <5> QED
          BY <1>1, <2>1, <4>1, <4>2, <5>1 DEF LastWindow
      <4> QED
        BY <2>1, <2>2, <4>2 DEF PassInv
    <3> QED
      BY <3>2, <3>3
  <2>3. CASE "provider" \notin LayerNames
    BY <1>5, <2>1, <2>3
  <2> QED
    BY <2>2, <2>3
<1>9. ASSUME NEW a \in Arrivals, RateLimit(a) PROVE PassInv'
  <2>1. PICK layer \in LayerNames, key \in Keys, c \in Buckets :
              LET ok == c.count <= Limit[layer] IN
              /\ layer = "provider" => key = "all"
              /\ c = Allow(bucket[layer][key], Limit[layer])
              /\ arrival[a].at \in 1..Len(Layers)
              /\ bucket' = [bucket EXCEPT ![layer][key] = c]
              /\ arrival' = IF ok THEN [arrival EXCEPT ![a] = [arrival[a] EXCEPT !.at = arrival[a].at + 1]]
                            ELSE [arrival EXCEPT ![a] = Away]
              /\ passes' = IF ok /\ layer = "provider" THEN Append(passes, now) ELSE passes
    BY <1>9, RateLimitEffect
  <2>2. now' = now
    BY <1>9 DEF RateLimit
  <2>3. CASE layer # "provider"
    <3>1. "provider" \in LayerNames => bucket'["provider"] = bucket["provider"]
      BY <2>1, <2>3 DEF LimType
    <3>2. passes' = passes
      BY <2>1, <2>3
    <3> QED
      BY <1>5, <2>2, <3>1, <3>2
  <2>4. CASE layer = "provider"
    <3>1. b' = c /\ c = Allow(b, L) /\ passes' = IF c.count <= L THEN Append(passes, now) ELSE passes
      BY <2>1, <2>4 DEF LimType
    <3>2. L \in Nat /\ L > 0 /\ b.count \in Nat /\ b.resetAt \in Nat /\ "provider" \in LayerNames
      BY <1>3, <1>4, <2>1, <2>4
    <3>3. PICK f \in Nat \ {0}, s \in Int : LastWindow(f, s)
      BY <3>2 DEF PassInv
    <3>4. c.count = (IF now > b.resetAt THEN 1 ELSE b.count + 1) /\ c.resetAt = IF now > b.resetAt THEN now + Window ELSE b.resetAt
      <4>1. b \in Buckets
        BY <1>3, <3>2
      <4> QED
        BY <3>1, <4>1 DEF Allow, Buckets
    <3>5. CASE ~(c.count <= L)
      <4>1. passes' = passes /\ ~(now > b.resetAt)
        BY <3>1, <3>2, <3>4, <3>5
      <4>2. c.resetAt = b.resetAt /\ c.count = b.count + 1
        BY <3>4, <4>1
      <4>3. LastWindow(f, s)'
        BY <1>1, <2>2, <3>1, <3>2, <3>3, <4>1, <4>2 DEF LastWindow
      <4> QED
        BY <2>2, <3>2, <4>1, <4>3 DEF PassInv
    <3>6. CASE c.count <= L
      <4>1. passes' = Append(passes, now)
        BY <3>1, <3>6
      <4>2. Len(passes') = n + 1 /\ passes'[n + 1] = now /\ \A i \in 1..n : passes'[i] = passes[i]
        BY <1>1, <4>1, AppendProperties
      <4>3. \A i \in 1..n+1 : i = n + 1 \/ i \in 1..n
        BY <1>1
      <4>4. \A i \in 1..n+1 : passes'[i] <= now'
        BY <1>1, <2>2, <4>2, <4>3 DEF PassInv
      <4>5. \E g \in Nat \ {0}, r \in Int : /\ LastWindow(g, r)'
                                            /\ \A i \in 1..n : i + 2 * L = n + 1 => passes[i] + Window < now
        <5>1. CASE now > b.resetAt
          <6>1. now > s + Window /\ s <= now
            BY <1>1, <3>2, <3>3, <5>1 DEF LastWindow
          <6>2. f <= n + 1 /\ n + 1 - f <= L
            BY <3>3 DEF LastWindow
          <6>3. ASSUME NEW i \in 1..n PROVE passes[i] < now /\ (i + L < n + 1 => passes[i] + Window < now)
            <7>1. passes[i] \in Nat
              BY <1>2
            <7>2. CASE i < f
              <8>1. passes[i] < s
                BY <3>3, <7>2 DEF LastWindow
              <8> QED
                BY <1>1, <6>1, <7>1, <8>1
            <7>3. CASE ~(i < f)
              <8>1. passes[i] <= s + Window
                BY <3>3, <7>3 DEF LastWindow
              <8>2. ~(i + L < n + 1)
                BY <1>1, <3>2, <6>2, <7>3
              <8> QED
                BY <1>1, <6>1, <7>1, <8>1, <8>2
            <7> QED
              BY <7>2, <7>3
          <6>4. b'.resetAt = now + Window /\ b'.count = 1
            BY <3>1, <3>4, <5>1
          <6>5. \A i \in 1..n+1 : IF i < n + 1 THEN passes'[i] < now ELSE now <= passes'[i] /\ passes'[i] <= now + Window
            BY <1>1, <4>2, <4>3, <6>3
          <6>6. \A i \in 1..n+1 : i + L < n + 1 => passes'[i] + Window < now
            <7> SUFFICES ASSUME NEW i \in 1..n+1, i + L < n + 1 PROVE passes'[i] + Window < now
              OBVIOUS
            <7>1. i \in 1..n
              BY <1>1, <3>2
            <7>2. passes'[i] = passes[i]
              BY <4>2, <4>3, <7>1
            <7> QED
              BY <6>3, <7>1, <7>2
          <6>10. PICK m \in Nat, r \in Int : m = n + 1 /\ r = now
            BY <1>1
          <6>7. LastWindow(m, r)'
            <7>1. m <= n + 2 /\ n + 2 - m <= L /\ n + 2 - m = 1
              BY <1>1, <3>2, <6>10
            <7> QED
              BY <1>1, <2>2, <4>2, <6>4, <6>5, <6>6, <6>10, <7>1 DEF LastWindow
          <6>8. \A i \in 1..n : i + 2 * L = n + 1 => i + L < n + 1
            BY <1>1, <3>2
          <6>9. m \in Nat \ {0}
            BY <1>1, <6>10
          <6> QED
            BY <6>3, <6>7, <6>8, <6>9
        <5>2. CASE ~(now > b.resetAt)
          <6>1. b.resetAt = s + Window /\ n + 1 - f <= b.count /\ s <= now /\ f <= n + 1
            BY <3>3, <5>2 DEF LastWindow
          <6>2. b'.resetAt = s + Window /\ b'.count = b.count + 1 /\ b.count + 1 <= L
            BY <3>1, <3>4, <3>6, <5>2, <6>1
          <6>3. now <= s + Window
            BY <1>1, <3>2, <5>2, <6>1
          <6>4. \A i \in 1..n+1 : IF i < f THEN passes'[i] < s ELSE s <= passes'[i] /\ passes'[i] <= s + Window
            <7> SUFFICES ASSUME NEW i \in 1..n+1
                         PROVE  IF i < f THEN passes'[i] < s ELSE s <= passes'[i] /\ passes'[i] <= s + Window
              OBVIOUS
            <7>1. CASE i = n + 1
              BY <1>1, <4>2, <6>1, <6>3, <7>1
            <7>2. CASE i \in 1..n
              BY <3>3, <4>2, <7>2 DEF LastWindow
            <7> QED
              BY <4>3, <7>1, <7>2
          <6>5. \A i \in 1..n+1 : i + L < f => passes'[i] + Window < s
            <7> SUFFICES ASSUME NEW i \in 1..n+1, i + L < f PROVE passes'[i] + Window < s
              OBVIOUS
            <7>1. i \in 1..n
              BY <1>1, <3>2, <6>1
            <7> QED
              BY <3>3, <4>2, <7>1 DEF LastWindow
          <6>6. f <= n + 2 /\ n + 2 - f <= L /\ n + 2 - f <= b.count + 1
            BY <1>1, <3>2, <6>1, <6>2
          <6>7. n + 1 + 1 = n + 2
            BY <1>1
          <6>8. LastWindow(f, s)'
            BY <2>2, <4>2, <6>1, <6>2, <6>4, <6>5, <6>6, <6>7 DEF LastWindow
          <6>9. ASSUME NEW i \in 1..n, i + 2 * L = n + 1 PROVE passes[i] + Window < now
            <7>1. i + L < f
              BY <1>1, <3>2, <6>6, <6>9
            <7>2. passes[i] + Window < s /\ passes[i] \in Nat
              BY <1>2, <3>3, <7>1 DEF LastWindow
            <7> QED
              BY <1>1, <6>1, <7>2
          <6> QED
            BY <6>8, <6>9
        <5> QED
          BY <5>1, <5>2
      <4>6. \A i \in 1..n+1 : i + 2 * L <= n + 1 => passes'[i] + Window < passes'[i + 2 * L]
        <5> SUFFICES ASSUME NEW i \in 1..n+1, i + 2 * L <= n + 1 PROVE passes'[i] + Window < passes'[i + 2 * L]
          OBVIOUS
        <5>1. i \in 1..n /\ (i + 2 * L = n + 1 \/ i + 2 * L \in 1..n)
          <6> HIDE DEF n, L
          <6> QED
            BY <1>1, <3>2
        <5>2. CASE i + 2 * L = n + 1
          BY <4>2, <4>5, <5>1, <5>2
        <5>3. CASE i + 2 * L \in 1..n
          <6>1. i + 2 * L <= n
            BY <1>1, <5>3
          <6>2. passes[i] + Window < passes[i + 2 * L]
            BY <5>1, <6>1 DEF PassInv
          <6> QED
            BY <4>2, <5>1, <5>3, <6>2
        <5> QED
          BY <5>1, <5>2, <5>3
      <4> QED
        BY <3>2, <4>2, <4>4, <4>5, <4>6 DEF PassInv
    <3> QED
      BY <3>5, <3>6
  <2> QED
    BY <2>3, <2>4
<1>10. ASSUME NEW a \in Arrivals, Arrive(a) \/ DeduplicateSync(a) \/ HandlerReturns(a) PROVE PassInv'
  <2>1. UNCHANGED <<now, bucket, passes>>
    BY <1>10 DEF Arrive, DeduplicateSync, HandlerReturns
  <2> QED
    BY <1>5, <2>1
<1>11. CASE TimerFires
  BY <1>5, <1>11 DEF TimerFires
<1> QED
  BY <1>6, <1>7, <1>8, <1>9, <1>10, <1>11 DEF LimNext

\* Type correctness of module RequestLimits, for any layers, limits, windows and number of requests.
THEOREM LimTypeCorrect == LimSpec => []LimType
  BY LimInitial, LimTypeNext, PTL DEF LimSpec

\* DeduplicateSync and RateLimit of api/middleware: synchronisations are SyncWindow apart unless an older
\* request's timer swept the marker, and within a window the limiter lets through twice its limit at most.
THEOREM SyncsSpacedCorrect == LimSpec => []SyncsSpaced
<1>1. LimType /\ MarkInv /\ PassInv => SyncsSpaced
  <2> SUFFICES ASSUME LimType, MarkInv, PassInv PROVE SyncsSpaced
    OBVIOUS
  <2>1. SyncWindow \in Nat /\ Window \in Nat /\ Len(synced) \in Nat /\ Len(passes) \in Nat
    BY LimitsAssumption DEF LimType
  <2>2. ASSUME NEW i \in 2..Len(synced) PROVE synced[i].at - synced[i-1].at >= SyncWindow \/ synced[i].swept
    <3>1. i \in 1..Len(synced) /\ i - 1 \in 1..Len(synced)
      BY <2>1
    <3>2. synced[i].at \in Nat /\ synced[i-1].at \in Nat
      BY <3>1, EntryTimes
    <3>3. synced[i-1].at + SyncWindow <= synced[i].at \/ synced[i].swept
      BY DEF MarkInv
    <3> QED
      BY <2>1, <3>2, <3>3
  <2>3. ASSUME NEW i \in 1..Len(passes), i + 2 * Limit["provider"] <= Len(passes)
        PROVE  passes[i + 2 * Limit["provider"]] - passes[i] > Window
    <3> DEFINE j == i + 2 * Limit["provider"]
    <3>1. "provider" \in LayerNames
      BY <2>1, <2>3 DEF PassInv
    <3>2. Limit["provider"] \in Nat
      BY <3>1, LimitsAssumption
    <3>3. j \in 1..Len(passes)
      BY <2>1, <2>3, <3>2
    <3>4. passes[i] \in Nat /\ passes[j] \in Nat
      BY <3>3, ElementOfSeq DEF LimType
    <3>5. passes[i] + Window < passes[j]
      BY <2>3 DEF PassInv
    <3> QED
      BY <2>1, <3>4, <3>5
  <2> QED
    BY <2>2, <2>3 DEF SyncsSpaced
<1> QED
  BY <1>1, LimInitial, LimTypeNext, MarkNext, PassNext, PTL DEF LimSpec

----------------------------------------------------------------------------
(* Inventory: synchronisations of a hypervisor *)

Early   == {"idle", "queued", "connect", "fetch", "upsert", "failed"}
Listed  == {"datastores", "networks", "clusters", "hosts", "count", "publish", "done"}
Hyps    == {"none", "deleted", "unknown", "connected", "error"}
SyncRec == [pc : Early \cup {"mark"} \cup Listed, list : SUBSET VMs, clean : BOOLEAN]

\* The type of the variables of module Inventory.
InvType == /\ hyp \in Hyps /\ copy \in Hyps /\ there \in SUBSET VMs /\ removed \in SUBSET VMs
           /\ vmRow \in [VMs -> {"none", "new", "live", "gone"}] /\ infra \in SUBSET Tables
           /\ hostRow \in [count : Nat, linked : BOOLEAN, row : BOOLEAN]
           /\ sync \in [Syncs -> SyncRec] /\ alone \in [Syncs -> BOOLEAN]
           /\ invUsed \in [changes : Nat, errors : Nat]

\* Sync s has met no error, has listed VMs, and nobody else has written since it began.
Quiet(s) == alone[s] /\ sync[s].clean /\ sync[s].list # {}

\* What a quiet synchronisation has achieved at its place.
Achieved(s) ==
    LET pc == sync[s].pc IN
    /\ pc \in Listed \cup {"mark"} => \A v \in sync[s].list : vmRow[v] \in {"live", "gone"}
    /\ pc \in Listed => \A v \in VMs \ sync[s].list : vmRow[v] \in {"none", "gone"}
    /\ pc \in Listed \ {"datastores"} => "datastores" \in infra
    /\ pc \in Listed \ {"datastores", "networks"} => "networks" \in infra
    /\ pc \in {"hosts", "count", "publish", "done"} => "clusters" \in infra
    /\ pc = "count" => hostRow.linked /\ hostRow.row
    /\ pc \in {"publish", "done"} => hostRow = [count |-> Cardinality(Rows({"live"})), linked |-> TRUE, row |-> TRUE]

MirrorInv == /\ \A v \in VMs : vmRow[v] = "gone" <=> v \in removed
             /\ \A s \in Syncs : Quiet(s) => Achieved(s)

LEMMA InvInitial == InvInit => InvType /\ MirrorInv
<1> SUFFICES ASSUME InvInit PROVE InvType /\ MirrorInv
  OBVIOUS
<1>1. Idle \in SyncRec /\ Idle.list = {}
  BY DEF Idle, SyncRec, Early
<1>2. NoHost \in [count : Nat, linked : BOOLEAN, row : BOOLEAN]
  BY DEF NoHost
<1>3. sync \in [Syncs -> SyncRec] /\ alone \in [Syncs -> BOOLEAN]
  BY <1>1 DEF InvInit
<1>4. vmRow \in [VMs -> {"none", "new", "live", "gone"}] /\ \A v \in VMs : vmRow[v] = "none"
  BY DEF InvInit
<1>5. InvType
  BY <1>2, <1>3, <1>4 DEF InvInit, InvType, Hyps
<1>6. \A s \in Syncs : ~Quiet(s)
  BY <1>1 DEF InvInit, Quiet
<1> QED
  BY <1>4, <1>5, <1>6 DEF InvInit, MirrorInv

\* The steps of a synchronisation, as changes of its record.
LEMMA SyncStep ==
    ASSUME InvType, NEW s \in Syncs, NEW pc \in Early \cup {"mark"} \cup Listed
    PROVE  /\ Goes(s, pc) => /\ sync' \in [Syncs -> SyncRec]
                             /\ sync'[s].pc = pc /\ sync'[s].list = sync[s].list /\ sync'[s].clean = sync[s].clean
                             /\ \A x \in Syncs \ {s} : sync'[x] = sync[x]
           /\ Errs(s, pc) => /\ sync' \in [Syncs -> SyncRec] /\ invUsed' \in [changes : Nat, errors : Nat]
                             /\ sync'[s].pc = pc /\ sync'[s].clean = FALSE
                             /\ \A x \in Syncs \ {s} : sync'[x] = sync[x]
<1>1. sync \in [Syncs -> SyncRec] /\ sync[s] \in SyncRec
  BY DEF InvType
<1>2. [sync[s] EXCEPT !.pc = pc] \in SyncRec /\ [[sync[s] EXCEPT !.pc = pc] EXCEPT !.clean = FALSE] \in SyncRec
  BY <1>1 DEF SyncRec
<1>3. Goes(s, pc) => sync' = [sync EXCEPT ![s] = [sync[s] EXCEPT !.pc = pc]]
  BY <1>1 DEF Goes
<1>4. Errs(s, pc) => sync' = [sync EXCEPT ![s] = [[sync[s] EXCEPT !.pc = pc] EXCEPT !.clean = FALSE]]
  BY <1>1 DEF Errs
<1>5. Errs(s, pc) => invUsed' \in [changes : Nat, errors : Nat]
  BY DEF Errs, Failing, InvType
<1>6. [sync[s] EXCEPT !.pc = pc].pc = pc /\ [sync[s] EXCEPT !.pc = pc].list = sync[s].list /\ [sync[s] EXCEPT !.pc = pc].clean = sync[s].clean
  BY <1>1 DEF SyncRec
<1>7. [[sync[s] EXCEPT !.pc = pc] EXCEPT !.clean = FALSE].pc = pc /\ [[sync[s] EXCEPT !.pc = pc] EXCEPT !.clean = FALSE].clean = FALSE
  BY <1>1 DEF SyncRec
<1>8. ASSUME NEW r \in SyncRec, sync' = [sync EXCEPT ![s] = r]
      PROVE  sync' \in [Syncs -> SyncRec] /\ sync'[s] = r /\ \A x \in Syncs \ {s} : sync'[x] = sync[x]
  BY <1>1, <1>8
<1>9. ASSUME Goes(s, pc)
      PROVE  /\ sync' \in [Syncs -> SyncRec]
             /\ sync'[s].pc = pc /\ sync'[s].list = sync[s].list /\ sync'[s].clean = sync[s].clean
             /\ \A x \in Syncs \ {s} : sync'[x] = sync[x]
  BY <1>2, <1>3, <1>6, <1>8, <1>9
<1>10. ASSUME Errs(s, pc)
       PROVE  /\ sync' \in [Syncs -> SyncRec] /\ sync'[s].pc = pc /\ sync'[s].clean = FALSE
              /\ \A x \in Syncs \ {s} : sync'[x] = sync[x]
  BY <1>2, <1>4, <1>7, <1>8, <1>10
<1> QED
  BY <1>5, <1>9, <1>10

LEMMA WrittenAlone ==
    ASSUME InvType, NEW w, Written(w)
    PROVE  alone' \in [Syncs -> BOOLEAN] /\ \A x \in Syncs : alone'[x] => alone[x] /\ x = w
<1>1. \A x \in Syncs : (alone[x] /\ x = w) \in BOOLEAN
  OBVIOUS
<1> QED
  BY <1>1 DEF Written

LEMMA InvTypeNext == InvType /\ [InvNext]_invVars => InvType'
<1> SUFFICES ASSUME InvType, [InvNext]_invVars PROVE InvType'
  OBVIOUS
<1>1. Changing => invUsed' \in [changes : Nat, errors : Nat]
  BY DEF Changing, InvType
<1>2. \A w : Written(w) => alone' \in [Syncs -> BOOLEAN]
  BY WrittenAlone
<1>3. ASSUME NEW s \in Syncs, NEW pc \in Early \cup {"mark"} \cup Listed, Goes(s, pc) PROVE sync' \in [Syncs -> SyncRec]
  BY <1>3, SyncStep
<1>4. ASSUME NEW s \in Syncs, NEW pc \in Early \cup {"mark"} \cup Listed, Errs(s, pc)
      PROVE  sync' \in [Syncs -> SyncRec] /\ invUsed' \in [changes : Nat, errors : Nat]
  BY <1>4, SyncStep
<1>5. ASSUME NEW st \in {"connected", "error"}, UpdateConnectionStatus(st) PROVE hyp' \in Hyps
  BY <1>5 DEF UpdateConnectionStatus, InvType, Hyps
<1>6. CASE UNCHANGED invVars
  BY <1>6 DEF InvType, invVars
<1>7. CASE Register
  BY <1>7 DEF InvType, Register, Hyps
<1>8. CASE UpdateReads
  BY <1>1, <1>8 DEF InvType, UpdateReads
<1>9. CASE UpdateSaves
  BY <1>9 DEF InvType, UpdateSaves, Hyps
<1>10. CASE Delete
  <2>1. vmRow' \in [VMs -> {"none", "new", "live", "gone"}] /\ hostRow' \in [count : Nat, linked : BOOLEAN, row : BOOLEAN]
    BY <1>10 DEF Delete, NoHost
  <2> QED
    BY <1>1, <1>2, <1>10, <2>1 DEF InvType, Delete, Hyps
<1>11. CASE TestConnection
  <2>1. hyp' \in Hyps
    BY <1>5, <1>11 DEF TestConnection
  <2> QED
    BY <1>1, <1>11, <2>1 DEF InvType, TestConnection
<1>12. ASSUME NEW v \in VMs, VMMade(v) \/ VMDestroyed(v) PROVE InvType'
  BY <1>1, <1>12 DEF InvType, VMMade, VMDestroyed
<1>13. ASSUME NEW v \in VMs, RowInserted(v) PROVE InvType'
  BY <1>1, <1>2, <1>13 DEF InvType, RowInserted
<1>14. ASSUME NEW v \in VMs, RowDeleted(v) PROVE InvType'
  BY <1>1, <1>2, <1>14 DEF InvType, RowDeleted
<1>15. ASSUME NEW s \in Syncs, SyncInventory(s) \/ SyncEnds(s) PROVE InvType'
  <2>1. sync' \in [Syncs -> SyncRec]
    BY <1>3, <1>15 DEF SyncInventory, SyncEnds, Early, Listed
  <2> QED
    BY <1>15, <2>1 DEF InvType, SyncInventory, SyncEnds
<1>16. ASSUME NEW s \in Syncs, SyncBegins(s) PROVE InvType'
  <2>1. sync' \in [Syncs -> SyncRec]
    BY <1>3, <1>16 DEF SyncBegins, Early
  <2> QED
    BY <1>16, <2>1 DEF InvType, SyncBegins
<1>17. ASSUME NEW s \in Syncs, SyncConnects(s) PROVE InvType'
  <2>1. sync' \in [Syncs -> SyncRec] /\ hyp' \in Hyps /\ invUsed' \in [changes : Nat, errors : Nat]
    BY <1>3, <1>4, <1>5, <1>17 DEF SyncConnects, Early, InvType
  <2> QED
    BY <1>17, <2>1 DEF InvType, SyncConnects
<1>18. ASSUME NEW s \in Syncs, SyncFetches(s) PROVE InvType'
  <2>1. CASE /\ sync' = [sync EXCEPT ![s].list = there, ![s].pc = IF there = {} THEN "datastores" ELSE "upsert"]
             /\ UNCHANGED <<hyp, invUsed>>
    <3>1. \A pc \in {"datastores", "upsert"} : [[sync[s] EXCEPT !.list = there] EXCEPT !.pc = pc] \in SyncRec
      <4>1. sync[s] \in SyncRec /\ there \in SUBSET VMs
        BY DEF InvType
      <4>2. [sync[s] EXCEPT !.list = there] \in SyncRec
        BY <4>1 DEF SyncRec
      <4> QED
        BY <4>2 DEF SyncRec, Early, Listed
    <3>2. sync' \in [Syncs -> SyncRec]
      BY <2>1, <3>1 DEF InvType
    <3> QED
      BY <1>18, <2>1, <3>2 DEF InvType, SyncFetches
  <2>2. CASE Errs(s, "failed") /\ UpdateConnectionStatus("error")
    <3>1. sync' \in [Syncs -> SyncRec] /\ hyp' \in Hyps /\ invUsed' \in [changes : Nat, errors : Nat]
      BY <1>4, <1>5, <2>2 DEF Early
    <3> QED
      BY <1>18, <3>1 DEF InvType, SyncFetches
  <2> QED
    BY <1>18, <2>1, <2>2 DEF SyncFetches
<1>19. ASSUME NEW s \in Syncs, SyncUpserts(s) PROVE InvType'
  <2>1. sync' \in [Syncs -> SyncRec] /\ invUsed' \in [changes : Nat, errors : Nat] /\ alone' \in [Syncs -> BOOLEAN]
    BY <1>2, <1>3, <1>4, <1>19 DEF SyncUpserts, InvType
  <2>2. vmRow' \in [VMs -> {"none", "new", "live", "gone"}]
    BY <1>19 DEF SyncUpserts, BulkUpsert, Upserted, InvType
  <2> QED
    BY <1>19, <2>1, <2>2 DEF InvType, SyncUpserts
<1>20. ASSUME NEW s \in Syncs, MarkDeletedByProviderIDs(s) PROVE InvType'
  <2>1. sync' \in [Syncs -> SyncRec] /\ invUsed' \in [changes : Nat, errors : Nat] /\ alone' \in [Syncs -> BOOLEAN]
    BY <1>2, <1>3, <1>4, <1>20 DEF MarkDeletedByProviderIDs, InvType, Listed
  <2>2. vmRow' \in [VMs -> {"none", "new", "live", "gone"}] /\ removed' \in SUBSET VMs
    BY <1>20 DEF MarkDeletedByProviderIDs, Missing, Rows, InvType
  <2> QED
    BY <1>20, <2>1, <2>2 DEF InvType, MarkDeletedByProviderIDs
<1>21. ASSUME NEW s \in Syncs, NEW table \in Tables, UpsertTable(s, table) PROVE InvType'
  <2>1. NextTable[table] \in Listed
    BY DEF NextTable, Tables, Listed
  <2>2. sync' \in [Syncs -> SyncRec] /\ invUsed' \in [changes : Nat, errors : Nat] /\ alone' \in [Syncs -> BOOLEAN]
    BY <1>2, <1>3, <1>4, <1>21, <2>1 DEF UpsertTable, InvType
  <2>3. infra' \in SUBSET Tables
    BY <1>21 DEF UpsertTable, TableUpserted, InvType
  <2> QED
    BY <1>21, <2>2, <2>3 DEF InvType, UpsertTable
<1>22. ASSUME NEW s \in Syncs, UpsertHosts(s) PROVE InvType'
  <2>1. sync' \in [Syncs -> SyncRec] /\ invUsed' \in [changes : Nat, errors : Nat] /\ alone' \in [Syncs -> BOOLEAN]
    BY <1>2, <1>3, <1>4, <1>22 DEF UpsertHosts, InvType, Listed
  <2>2. \A b \in BOOLEAN : HostUpserted(b) \in [count : Nat, linked : BOOLEAN, row : BOOLEAN]
    BY DEF HostUpserted
  <2>3. ("clusters" \in infra) \in BOOLEAN
    OBVIOUS
  <2>4. hostRow' \in [count : Nat, linked : BOOLEAN, row : BOOLEAN]
    BY <1>22, <2>2, <2>3 DEF UpsertHosts, InvType
  <2> QED
    BY <1>22, <2>1, <2>4 DEF InvType, UpsertHosts
<1>23. ASSUME NEW s \in Syncs, UpdateVMCount(s) PROVE InvType'
  <2>1. sync' \in [Syncs -> SyncRec] /\ invUsed' \in [changes : Nat, errors : Nat] /\ alone' \in [Syncs -> BOOLEAN]
    BY <1>2, <1>3, <1>4, <1>23 DEF UpdateVMCount, InvType, Listed
  <2>2. Cardinality(Counted) \in Nat
    <3>1. Counted \subseteq VMs
      BY DEF Counted, Rows
    <3> QED
      BY <3>1, InventoryAssumption, FS_Subset, FS_CardinalityType
  <2>3. \A n \in Nat : [hostRow EXCEPT !.count = n] \in [count : Nat, linked : BOOLEAN, row : BOOLEAN]
    BY DEF InvType
  <2>4. hostRow' \in [count : Nat, linked : BOOLEAN, row : BOOLEAN]
    <3>1. (IF hostRow.row THEN Cardinality(Counted) ELSE 0) \in Nat
      BY <2>2
    <3> QED
      BY <1>23, <2>3, <3>1 DEF UpdateVMCount, InvType
  <2> QED
    BY <1>23, <2>1, <2>4 DEF InvType, UpdateVMCount
<1>24. ASSUME NEW s \in Syncs, SyncAgain(s) PROVE InvType'
  <2>1. Idle \in SyncRec
    BY DEF Idle, SyncRec, Early
  <2> QED
    BY <1>1, <1>24, <2>1 DEF InvType, SyncAgain
<1> QED
  BY <1>6, <1>7, <1>8, <1>9, <1>10, <1>11, <1>12, <1>13, <1>14, <1>15, <1>16, <1>17, <1>18, <1>19, <1>20, <1>21,
     <1>22, <1>23, <1>24 DEF InvNext

\* A step that leaves the rows alone: each synchronisation stays where it is, or is early, or not quiet.
LEMMA MirrorKept ==
    ASSUME InvType, MirrorInv, UNCHANGED <<vmRow, infra, hostRow, removed>>,
           \A s \in Syncs : \/ ~Quiet(s)' \/ sync'[s].pc \in Early
                            \/ Quiet(s) /\ sync'[s].pc = sync[s].pc /\ sync'[s].list = sync[s].list
    PROVE  MirrorInv'
<1>1. \A v \in VMs : vmRow'[v] = "gone" <=> v \in removed'
  BY DEF MirrorInv
<1>2. ASSUME NEW s \in Syncs, Quiet(s)' PROVE Achieved(s)'
  <2>1. CASE sync'[s].pc \in Early
    BY <2>1 DEF Achieved, Early, Listed
  <2>2. CASE Quiet(s) /\ sync'[s].pc = sync[s].pc /\ sync'[s].list = sync[s].list
    BY <2>2 DEF MirrorInv, Achieved, Rows
  <2> QED
    BY <1>2, <2>1, <2>2
<1> QED
  BY <1>1, <1>2 DEF MirrorInv

\* Somebody writes rows: only the writer may still be quiet.
LEMMA MirrorWritten ==
    ASSUME InvType, MirrorInv, NEW w, Written(w),
           \A v \in VMs : vmRow'[v] = "gone" <=> v \in removed',
           w \in Syncs /\ Quiet(w)' /\ alone[w] => Achieved(w)'
    PROVE  MirrorInv'
<1>1. \A s \in Syncs : Quiet(s)' => s = w /\ alone[w]
  BY WrittenAlone DEF Quiet
<1> QED
  BY <1>1 DEF MirrorInv

LEMMA MirrorNext == InvType /\ MirrorInv /\ [InvNext]_invVars => MirrorInv'
<1> SUFFICES ASSUME InvType, MirrorInv, [InvNext]_invVars PROVE MirrorInv'
  OBVIOUS
<1>1. \A v \in VMs : vmRow[v] \in {"none", "new", "live", "gone"} /\ (vmRow[v] = "gone" <=> v \in removed)
  BY DEF InvType, MirrorInv
<1>2. ASSUME UNCHANGED <<vmRow, infra, hostRow, removed, sync, alone>> PROVE MirrorInv'
  BY <1>2, MirrorKept DEF Quiet
<1>3. ASSUME NEW s \in Syncs, NEW pc \in Early \cup {"mark"} \cup Listed, Goes(s, pc)
      PROVE  /\ sync'[s].pc = pc /\ sync'[s].list = sync[s].list /\ sync'[s].clean = sync[s].clean
             /\ \A x \in Syncs \ {s} : sync'[x] = sync[x]
  BY <1>3, SyncStep
<1>4. ASSUME NEW s \in Syncs, NEW pc \in Early \cup {"mark"} \cup Listed, Errs(s, pc),
             UNCHANGED <<vmRow, infra, hostRow, removed, alone>>
      PROVE  MirrorInv'
  <2>1. sync'[s].clean = FALSE /\ \A x \in Syncs \ {s} : sync'[x] = sync[x]
    BY <1>4, SyncStep
  <2>2. \A x \in Syncs : ~Quiet(x)' \/ (Quiet(x) /\ sync'[x].pc = sync[x].pc /\ sync'[x].list = sync[x].list)
    BY <1>4, <2>1 DEF Quiet
  <2> QED
    BY <1>4, <2>2, MirrorKept
<1>5. ASSUME NEW s \in Syncs, NEW pc \in Early, Goes(s, pc), UNCHANGED <<vmRow, infra, hostRow, removed>>,
             \A x \in Syncs \ {s} : alone'[x] = alone[x]
      PROVE  MirrorInv'
  <2>1. sync'[s].pc \in Early /\ \A x \in Syncs \ {s} : sync'[x] = sync[x]
    BY <1>3, <1>5
  <2>2. \A x \in Syncs : sync'[x].pc \in Early \/ ~Quiet(x)' \/ (Quiet(x) /\ sync'[x].pc = sync[x].pc /\ sync'[x].list = sync[x].list)
    BY <1>5, <2>1 DEF Quiet
  <2> QED
    BY <1>5, <2>2, MirrorKept
<1>6. CASE UNCHANGED invVars
  BY <1>2, <1>6 DEF invVars
<1>7. CASE Register \/ UpdateReads \/ UpdateSaves \/ TestConnection
  BY <1>2, <1>7 DEF Register, UpdateReads, UpdateSaves, TestConnection
<1>8. ASSUME NEW w \in {"request", "provision", "delete"}, Written(w),
             \A v \in VMs : vmRow'[v] = "gone" <=> v \in removed'
      PROVE  MirrorInv'
  <2>1. w \notin Syncs
    BY InventoryAssumption
  <2> QED
    BY <1>8, <2>1, MirrorWritten
<1>9. CASE Delete
  <2>1. \A v \in VMs : vmRow'[v] = "gone" <=> v \in removed'
    BY <1>9 DEF Delete
  <2> QED
    BY <1>8, <1>9, <2>1 DEF Delete
<1>10. ASSUME NEW v \in VMs, VMMade(v) \/ VMDestroyed(v) PROVE MirrorInv'
  BY <1>2, <1>10 DEF VMMade, VMDestroyed
<1>11. ASSUME NEW v \in VMs, RowInserted(v) PROVE MirrorInv'
  <2>1. \A x \in VMs : vmRow'[x] = "gone" <=> x \in removed'
    BY <1>1, <1>11 DEF RowInserted, InvType
  <2> QED
    BY <1>8, <1>11, <2>1 DEF RowInserted
<1>12. ASSUME NEW v \in VMs, RowDeleted(v) PROVE MirrorInv'
  <2>1. \A x \in VMs : vmRow'[x] = "gone" <=> x \in removed'
    BY <1>1, <1>12 DEF RowDeleted, InvType
  <2> QED
    BY <1>8, <1>12, <2>1 DEF RowDeleted
<1>13. ASSUME NEW s \in Syncs, SyncInventory(s) PROVE MirrorInv'
  BY <1>5, <1>13 DEF SyncInventory, Early
<1>14. ASSUME NEW s \in Syncs, SyncBegins(s) PROVE MirrorInv'
  <2>1. \A x \in Syncs \ {s} : alone'[x] = alone[x]
    BY <1>14 DEF SyncBegins, InvType
  <2>2. (IF Exists THEN "connect" ELSE "failed") \in Early
    BY DEF Early
  <2> QED
    BY <1>5, <1>14, <2>1, <2>2 DEF SyncBegins
<1>15. ASSUME NEW s \in Syncs, SyncConnects(s) PROVE MirrorInv'
  BY <1>4, <1>5, <1>15 DEF SyncConnects, Early
<1>16. ASSUME NEW s \in Syncs, SyncFetches(s) PROVE MirrorInv'
  <2>1. CASE sync' = [sync EXCEPT ![s].list = there, ![s].pc = IF there = {} THEN "datastores" ELSE "upsert"]
    <3>1. sync[s] \in SyncRec
      BY DEF InvType
    <3>2. sync'[s].list = there /\ sync'[s].pc = (IF there = {} THEN "datastores" ELSE "upsert")
      BY <2>1, <3>1 DEF InvType, SyncRec
    <3>3. \A x \in Syncs \ {s} : sync'[x] = sync[x]
      BY <2>1 DEF InvType
    <3>4. ~Quiet(s)' \/ sync'[s].pc \in Early
      BY <3>2 DEF Quiet, Early
    <3>5. UNCHANGED <<vmRow, infra, hostRow, removed, alone>>
      BY <1>16 DEF SyncFetches
    <3>6. \A x \in Syncs : sync'[x].pc \in Early \/ ~Quiet(x)' \/ (Quiet(x) /\ sync'[x].pc = sync[x].pc /\ sync'[x].list = sync[x].list)
      BY <3>3, <3>4, <3>5 DEF Quiet
    <3> QED
      BY <3>5, <3>6, MirrorKept
  <2>2. CASE Errs(s, "failed")
    BY <1>4, <1>16, <2>2 DEF SyncFetches, Early
  <2> QED
    BY <1>16, <2>1, <2>2 DEF SyncFetches
<1>17. ASSUME NEW s \in Syncs, SyncUpserts(s) PROVE MirrorInv'
  <2>1. CASE Errs(s, "mark") /\ UNCHANGED <<vmRow, alone>>
    BY <1>4, <1>17, <2>1 DEF SyncUpserts
  <2>2. CASE BulkUpsert(s) /\ Goes(s, "mark") /\ Written(s)
    <3>1. sync'[s].pc = "mark" /\ sync'[s].list = sync[s].list
      BY <1>3, <2>2
    <3>2. sync[s].list \subseteq VMs /\ removed' = removed
      BY <1>17 DEF InvType, SyncRec, SyncUpserts
    <3>3. \A v \in VMs : vmRow'[v] = IF v \in sync[s].list THEN Upserted(vmRow[v]) ELSE vmRow[v]
      BY <2>2 DEF BulkUpsert
    <3>4. \A v \in VMs : vmRow'[v] = "gone" <=> v \in removed'
      BY <1>1, <3>2, <3>3 DEF Upserted
    <3>5. \A v \in sync[s].list : vmRow'[v] \in {"live", "gone"}
      BY <3>2, <3>3 DEF Upserted
    <3>6. Achieved(s)'
      BY <3>1, <3>5 DEF Achieved, Listed
    <3> QED
      BY <2>2, <3>4, <3>6, MirrorWritten
  <2> QED
    BY <1>17, <2>1, <2>2 DEF SyncUpserts
<1>18. ASSUME NEW s \in Syncs, Quiet(s)', alone[s], sync'[s].list = sync[s].list, sync'[s].clean = sync[s].clean
       PROVE  Achieved(s)
  BY <1>18 DEF Quiet, MirrorInv
<1>19. ASSUME NEW s \in Syncs, MarkDeletedByProviderIDs(s) PROVE MirrorInv'
  <2>1. CASE Errs(s, "datastores") /\ UNCHANGED <<vmRow, alone, removed>>
    BY <1>4, <1>19, <2>1 DEF MarkDeletedByProviderIDs, Listed
  <2>2. CASE /\ vmRow' = [v \in VMs |-> IF v \in Missing(s) THEN "gone" ELSE vmRow[v]]
             /\ removed' = removed \cup Missing(s) /\ Written(s) /\ Goes(s, "datastores")
    <3>1. sync'[s].pc = "datastores" /\ sync'[s].list = sync[s].list /\ sync'[s].clean = sync[s].clean
      BY <1>3, <2>2 DEF Listed
    <3>2. \A v \in VMs : vmRow'[v] = "gone" <=> v \in removed'
      BY <1>1, <2>2
    <3>3. ASSUME Quiet(s)', alone[s] PROVE Achieved(s)'
      <4>1. Achieved(s) /\ sync[s].pc = "mark"
        BY <1>18, <1>19, <3>1, <3>3 DEF MarkDeletedByProviderIDs, At
      <4>2. sync[s].list \subseteq VMs
        BY DEF InvType, SyncRec
      <4>3. \A v \in sync[s].list : vmRow'[v] \in {"live", "gone"}
        BY <2>2, <4>1, <4>2 DEF Achieved
      <4>4. \A v \in VMs \ sync[s].list : vmRow'[v] \in {"none", "gone"}
        BY <1>1, <2>2 DEF Missing, Rows
      <4> QED
        BY <3>1, <4>3, <4>4 DEF Achieved
    <3> QED
      BY <2>2, <3>2, <3>3, MirrorWritten
  <2> QED
    BY <1>19, <2>1, <2>2 DEF MarkDeletedByProviderIDs
<1>20. ASSUME NEW s \in Syncs, NEW table \in Tables, UpsertTable(s, table) PROVE MirrorInv'
  <2>1. NextTable[table] \in Listed
    BY DEF NextTable, Tables, Listed
  <2>2. CASE Errs(s, NextTable[table]) /\ UNCHANGED <<infra, alone>>
    BY <1>4, <1>20, <2>1, <2>2 DEF UpsertTable
  <2>3. CASE infra' = TableUpserted(table) /\ Goes(s, NextTable[table]) /\ Written(s)
    <3>1. sync'[s].pc = NextTable[table] /\ sync'[s].list = sync[s].list /\ sync'[s].clean = sync[s].clean
      BY <1>3, <2>1, <2>3
    <3>2. UNCHANGED <<vmRow, removed>>
      BY <1>20 DEF UpsertTable
    <3>3. ASSUME Quiet(s)', alone[s] PROVE Achieved(s)'
      <4>1. Achieved(s) /\ sync[s].pc = table
        BY <1>18, <1>20, <3>1, <3>3 DEF UpsertTable, At
      <4>2. infra' = infra \cup {table}
        BY <2>3 DEF TableUpserted
      <4>3. CASE table = "datastores"
        BY <3>1, <3>2, <4>1, <4>2, <4>3 DEF Achieved, NextTable, Listed
      <4>4. CASE table = "networks"
        BY <3>1, <3>2, <4>1, <4>2, <4>4 DEF Achieved, NextTable, Listed
      <4>5. CASE table = "clusters"
        BY <3>1, <3>2, <4>1, <4>2, <4>5 DEF Achieved, NextTable, Listed
      <4> QED
        BY <4>3, <4>4, <4>5 DEF Tables
    <3> QED
      BY <1>1, <2>3, <3>2, <3>3, MirrorWritten
  <2> QED
    BY <1>20, <2>2, <2>3 DEF UpsertTable
<1>21. ASSUME NEW s \in Syncs, UpsertHosts(s) PROVE MirrorInv'
  <2>1. CASE Errs(s, "publish") /\ UNCHANGED <<hostRow, alone>>
    BY <1>4, <1>21, <2>1 DEF UpsertHosts, Listed
  <2>2. CASE hostRow' = HostUpserted("clusters" \in infra) /\ Goes(s, "count") /\ Written(s)
    <3>1. sync'[s].pc = "count" /\ sync'[s].list = sync[s].list /\ sync'[s].clean = sync[s].clean
      BY <1>3, <2>2 DEF Listed
    <3>2. UNCHANGED <<vmRow, removed, infra>>
      BY <1>21 DEF UpsertHosts
    <3>3. ASSUME Quiet(s)', alone[s] PROVE Achieved(s)'
      <4>1. Achieved(s) /\ sync[s].pc = "hosts"
        BY <1>18, <1>21, <3>1, <3>3 DEF UpsertHosts, At
      <4>2. "clusters" \in infra
        BY <4>1 DEF Achieved
      <4>3. hostRow'.linked /\ hostRow'.row
        BY <2>2, <4>2 DEF HostUpserted
      <4> QED
        BY <3>1, <3>2, <4>1, <4>3 DEF Achieved, Listed
    <3> QED
      BY <1>1, <2>2, <3>2, <3>3, MirrorWritten
  <2> QED
    BY <1>21, <2>1, <2>2 DEF UpsertHosts
<1>22. ASSUME NEW s \in Syncs, UpdateVMCount(s) PROVE MirrorInv'
  <2>1. CASE Errs(s, "publish") /\ UNCHANGED <<hostRow, alone>>
    BY <1>4, <1>22, <2>1 DEF UpdateVMCount, Listed
  <2>2. CASE /\ hostRow' = [hostRow EXCEPT !.count = IF hostRow.row THEN Cardinality(Counted) ELSE 0]
             /\ Goes(s, "publish") /\ Written(s)
    <3>1. sync'[s].pc = "publish" /\ sync'[s].list = sync[s].list /\ sync'[s].clean = sync[s].clean
      BY <1>3, <2>2 DEF Listed
    <3>2. UNCHANGED <<vmRow, removed, infra>>
      BY <1>22 DEF UpdateVMCount
    <3>3. ASSUME Quiet(s)', alone[s] PROVE Achieved(s)'
      <4>1. Achieved(s) /\ sync[s].pc = "count"
        BY <1>18, <1>22, <3>1, <3>3 DEF UpdateVMCount, At
      <4>2. hostRow.linked = TRUE /\ hostRow.row = TRUE
        BY <4>1 DEF Achieved, InvType
      <4>3. hostRow' = [count |-> Cardinality(Counted), linked |-> TRUE, row |-> TRUE]
        BY <2>2, <4>2 DEF InvType
      <4>4. Rows({"live"})' = Counted
        BY <3>2 DEF Rows, Counted
      <4> QED
        BY <3>1, <3>2, <4>1, <4>3, <4>4 DEF Achieved, Listed
    <3> QED
      BY <1>1, <2>2, <3>2, <3>3, MirrorWritten
  <2> QED
    BY <1>22, <2>1, <2>2 DEF UpdateVMCount
<1>23. ASSUME NEW s \in Syncs, SyncEnds(s) PROVE MirrorInv'
  <2>1. sync'[s].pc = "done" /\ sync'[s].list = sync[s].list /\ sync'[s].clean = sync[s].clean
    BY <1>3, <1>23 DEF SyncEnds, Listed
  <2>2. UNCHANGED <<vmRow, removed, infra, hostRow, alone>> /\ sync[s].pc = "publish"
    BY <1>23 DEF SyncEnds, At
  <2>3. \A x \in Syncs \ {s} : sync'[x] = sync[x]
    BY <1>3, <1>23 DEF SyncEnds, Listed
  <2>4. ASSUME NEW x \in Syncs, Quiet(x)' PROVE Achieved(x)'
    <3>1. Quiet(x) /\ Achieved(x)
      BY <2>1, <2>2, <2>3, <2>4 DEF Quiet, MirrorInv
    <3>2. Rows({"live"})' = Rows({"live"})
      BY <2>2 DEF Rows
    <3>3. CASE x = s
      BY <2>1, <2>2, <3>1, <3>2, <3>3 DEF Achieved, Listed
    <3>4. CASE x # s
      BY <2>2, <2>3, <3>1, <3>2, <3>4 DEF Achieved
    <3> QED
      BY <3>3, <3>4
  <2> QED
    BY <1>1, <2>2, <2>4 DEF MirrorInv
<1>24. ASSUME NEW s \in Syncs, SyncAgain(s) PROVE MirrorInv'
  <2>1. sync'[s] = Idle /\ \A x \in Syncs \ {s} : sync'[x] = sync[x]
    BY <1>24 DEF SyncAgain, InvType
  <2>2. UNCHANGED <<vmRow, infra, hostRow, removed, alone>>
    BY <1>24 DEF SyncAgain
  <2>3. \A x \in Syncs : ~Quiet(x)' \/ (Quiet(x) /\ sync'[x].pc = sync[x].pc /\ sync'[x].list = sync[x].list)
    BY <2>1, <2>2 DEF Quiet, Idle
  <2> QED
    BY <2>2, <2>3, MirrorKept
<1> QED
  BY <1>6, <1>7, <1>9, <1>10, <1>11, <1>12, <1>13, <1>14, <1>15, <1>16, <1>17, <1>19, <1>20, <1>21, <1>22, <1>23,
     <1>24 DEF InvNext

\* Type correctness of module Inventory, for any number of VMs, synchronisations and failures.
THEOREM InvTypeCorrect == InvSpec => []InvType
  BY InvInitial, InvTypeNext, PTL DEF InvSpec

\* SyncInventoryNow of hypervisor_service.go: a synchronisation that met no error, and that nobody else
\* wrote the rows during, leaves the rows of the VMs it listed, their host and its count.
THEOREM QuietSyncMirrorsCorrect == InvSpec => []QuietSyncMirrors
<1>1. InvType /\ MirrorInv => QuietSyncMirrors
  <2> SUFFICES ASSUME InvType, MirrorInv, NEW s \in Syncs,
                      At(s, "done"), alone[s], sync[s].clean, sync[s].list # {}
               PROVE  LET live == Rows({"new", "live"})
                      IN  /\ live = sync[s].list \ removed
                          /\ infra = Tables
                          /\ hostRow = [count |-> Cardinality(live), linked |-> TRUE, row |-> TRUE]
    BY DEF QuietSyncMirrors
  <2>1. Achieved(s) /\ sync[s].pc = "done"
    BY DEF MirrorInv, Quiet, At
  <2>2. sync[s].list \subseteq VMs /\ infra \subseteq Tables
    BY DEF InvType, SyncRec
  <2>3. /\ \A v \in sync[s].list : vmRow[v] \in {"live", "gone"}
        /\ \A v \in VMs \ sync[s].list : vmRow[v] \in {"none", "gone"}
        /\ {"datastores", "networks", "clusters"} \subseteq infra
        /\ hostRow = [count |-> Cardinality(Rows({"live"})), linked |-> TRUE, row |-> TRUE]
    BY <2>1 DEF Achieved, Listed
  <2>4. Rows({"new", "live"}) = Rows({"live"})
    BY <2>2, <2>3 DEF Rows
  <2>5. \A v \in VMs : vmRow[v] = "gone" <=> v \in removed
    BY DEF MirrorInv
  <2>6. Rows({"new", "live"}) = sync[s].list \ removed
    BY <2>2, <2>3, <2>5 DEF Rows
  <2>7. infra = Tables
    BY <2>2, <2>3 DEF Tables
  <2> QED
    BY <2>3, <2>4, <2>6, <2>7
<1> QED
  BY <1>1, InvInitial, InvTypeNext, MirrorNext, PTL DEF InvSpec

----------------------------------------------------------------------------
(* ProviderHealth: the health row of a hypervisor *)

Rates     == [total : Nat, failed : Nat]
Outcomes  == [at : Nat, status : {"none", "success", "failed"}, failures : Nat]
HealthRow == [row : {TRUE}, online : BOOLEAN, fails : Nat, seen : BOOLEAN, avg : Nat, sync : Outcomes, rate : Rates,
              auth : Nat, stale : BOOLEAN, score : Nat, status : {"unknown", "healthy", "degraded", "unhealthy"}]

\* The score and the status of a row follow from its other columns.
Sound(h) == /\ h.score = computeHealthScore(h) /\ h.status = scoreToStatus(h.score)
            /\ h.online <=> (h.fails = 0)

SoundRow == {h \in HealthRow : Sound(h)}

\* The type of the variables of module ProviderHealth; every row, stored or read, is sound.
HpType == /\ listed \in BOOLEAN /\ raced \in BOOLEAN /\ hour \in Nat /\ told \in Outcomes
          /\ health \in SoundRow \cup {NoRow}
          /\ check \in [Checks -> {NoCheck} \cup [pc : {"read"}, existing : SoundRow \cup {NoRow}]]
          /\ after \in [Afters -> {NoCheck} \cup [pc : {"start"}, status : {"success", "failed"}]
                                  \cup [pc : {"read"}, status : {"success", "failed"}, existing : SoundRow]]
          /\ hpUsed \in [checks : Nat, syncs : Nat, lost : Nat]

\* As long as nobody raced, the row tells how the last synchronisation ended, and whoever has read the
\* row and not saved it yet holds the row as it is.
RaceInv == ~raced => /\ IF health.row THEN health.sync = told ELSE told = Never
                     /\ \A c \in Checks : check[c].pc = "read" => check[c].existing = health
                     /\ \A a \in Afters : after[a].pc = "read" => after[a].existing = health

LEMMA HpInitial == HpInit => HpType /\ RaceInv
<1> SUFFICES ASSUME HpInit PROVE HpType /\ RaceInv
  OBVIOUS
<1>1. LastHour + 1 \in Nat
  BY HealthAssumption
<1>2. Never \in Outcomes
  BY <1>1 DEF Never, Outcomes
<1>3. hpUsed \in [checks : Nat, syncs : Nat, lost : Nat] /\ hour \in Nat
  BY DEF HpInit
<1>4. HpType
  BY <1>2, <1>3 DEF HpInit, HpType
<1>5. RaceInv
  BY DEF HpInit, RaceInv, NoRow, NoCheck
<1> QED
  BY <1>4, <1>5

\* The score depends on six columns only, and it is low for a hypervisor that is offline.
LEMMA ScoreColumns ==
    ASSUME NEW g \in HealthRow, NEW h \in HealthRow,
           g.online = h.online, g.fails = h.fails, g.avg = h.avg, g.rate = h.rate, g.stale = h.stale, g.auth = h.auth
    PROVE  computeHealthScore(g) = computeHealthScore(h)
  BY DEF computeHealthScore

LEMMA Penalties == \A cond : \A points \in Nat : Penalty(cond, points) \in 0..points /\ (cond => Penalty(cond, points) = points)
  BY DEF Penalty

LEMMA ScoreBounds ==
    ASSUME NEW h \in HealthRow
    PROVE  /\ computeHealthScore(h) \in 0..100
           /\ ~h.online => computeHealthScore(h) <= 60
           /\ ~h.online /\ h.fails >= 3 => computeHealthScore(h) <= 40
<1> DEFINE p1 == Penalty(~h.online, 40)
           p2 == Penalty(~h.online /\ h.fails >= 3, 20)
           p3 == Penalty(h.avg > 500, 10)
           p4 == Penalty(h.avg > 1000, 10)
           p5 == Penalty(RateAbove(h.rate, 2), 10)
           p6 == Penalty(RateAbove(h.rate, 5), 10)
           p7 == Penalty(h.stale, 10)
           p8 == Penalty(h.auth > 3, 5)
           p9 == Penalty(h.auth > 10, 5)
<1>1. p1 \in 0..40 /\ p2 \in 0..20 /\ p3 \in 0..10 /\ p4 \in 0..10 /\ p5 \in 0..10
  BY Penalties
<1>2. p6 \in 0..10 /\ p7 \in 0..10 /\ p8 \in 0..5 /\ p9 \in 0..5
  BY Penalties
<1>3. (~h.online => p1 = 40) /\ (~h.online /\ h.fails >= 3 => p2 = 20)
  BY Penalties
<1> DEFINE lost == p1 + p2 + p3 + p4 + p5 + p6 + p7 + p8 + p9
<1>4. computeHealthScore(h) = IF lost > 100 THEN 0 ELSE 100 - lost
  BY DEF computeHealthScore
<1> HIDE DEF p1, p2, p3, p4, p5, p6, p7, p8, p9
<1>5. lost \in Nat /\ (~h.online => lost >= 40) /\ (~h.online /\ h.fails >= 3 => lost >= 60)
  BY <1>1, <1>2, <1>3
<1> HIDE DEF lost
<1> QED
  BY <1>4, <1>5

LEMMA FreshTyped == Fresh \in HealthRow
<1>1. LastHour + 1 \in Nat
  BY HealthAssumption
<1>2. Never \in Outcomes
  BY <1>1 DEF Never, Outcomes
<1>3. [total |-> 0, failed |-> 0] \in Rates
  BY DEF Rates
<1> QED
  BY <1>2, <1>3 DEF Fresh, HealthRow

\* What a check saves is sound, and it carries the columns of the synchronisations over.
LEMMA SnapshotSound ==
    ASSUME hour \in Nat, NEW e \in SoundRow \cup {NoRow}, NEW online \in BOOLEAN, NEW latency \in Nat, NEW rate \in Rates, NEW auth \in Nat
    PROVE  /\ buildSnapshot(e, online, latency, rate, auth) \in SoundRow
           /\ buildSnapshot(e, online, latency, rate, auth).sync = IF e.row THEN e.sync ELSE Never
<1> DEFINE old == IF e.row THEN e ELSE Fresh
<1>1. old \in HealthRow
  BY FreshTyped DEF SoundRow, NoRow
<1>2. old.sync = IF e.row THEN e.sync ELSE Never
  BY DEF Fresh
<1> HIDE DEF old
<1>3. old.avg \in Nat /\ old.fails \in Nat
  BY <1>1 DEF HealthRow
<1> DEFINE avg   == IF online THEN Averaged(old.avg, latency) ELSE old.avg
           fails == IF online THEN 0 ELSE old.fails + 1
           stale == Stale(old.sync.at)
<1>4. avg \in Nat
  <2>1. (7 * old.avg + 3 * latency) \div 10 \in Nat
    BY <1>3
  <2> QED
    BY <1>3, <2>1 DEF Averaged
<1>5. fails \in Nat /\ (online <=> (fails = 0))
  BY <1>3
<1>6. stale \in BOOLEAN
  BY DEF Stale
<1> HIDE DEF avg, fails, stale
<1> DEFINE snap == [old EXCEPT !.online = online, !.seen = online, !.fails = fails, !.avg = avg, !.rate = rate,
                               !.auth = auth, !.stale = stale]
<1>7. /\ snap \in HealthRow /\ snap.sync = old.sync
      /\ snap.online = online /\ snap.fails = fails
  BY <1>1, <1>4, <1>5, <1>6 DEF HealthRow
<1> HIDE DEF snap
<1> DEFINE score == computeHealthScore(snap)
           r == [snap EXCEPT !.score = score, !.status = scoreToStatus(score)]
<1>8. score \in Nat
  BY <1>7, ScoreBounds
<1>9. scoreToStatus(score) \in {"unknown", "healthy", "degraded", "unhealthy"}
  BY DEF scoreToStatus
<1> HIDE DEF score
<1>10. /\ r \in HealthRow /\ r.sync = old.sync /\ r.score = score /\ r.status = scoreToStatus(score)
       /\ r.online = snap.online /\ r.fails = snap.fails /\ r.avg = snap.avg /\ r.rate = snap.rate
       /\ r.stale = snap.stale /\ r.auth = snap.auth
  BY <1>7, <1>8, <1>9 DEF HealthRow
<1>11. buildSnapshot(e, online, latency, rate, auth) = r
  BY DEF buildSnapshot, old, avg, fails, stale, snap, score
<1> HIDE DEF r
<1>12. computeHealthScore(r) = score
  BY <1>7, <1>10, ScoreColumns DEF score
<1>13. Sound(r)
  BY <1>5, <1>7, <1>10, <1>12 DEF Sound
<1> QED
  BY <1>2, <1>10, <1>11, <1>13 DEF SoundRow

\* What the goroutine after a synchronisation saves: the row it read with the columns about that.
LEMMA AfterSound ==
    ASSUME hour \in Nat, NEW e \in SoundRow, NEW st \in {"success", "failed"}
    PROVE  LET r == [e EXCEPT !.sync = SyncColumns(@, st)]
           IN  r \in SoundRow /\ r.sync = SyncColumns(e.sync, st) /\ r.row
<1>1. e \in HealthRow /\ e.sync \in Outcomes /\ Sound(e)
  BY DEF SoundRow, HealthRow
<1> DEFINE new == SyncColumns(e.sync, st)
           r == [e EXCEPT !.sync = new]
<1>2. new \in Outcomes
  <2>1. e.sync.failures + Penalty(st = "failed", 1) \in Nat
    BY <1>1 DEF Outcomes, Penalty
  <2> QED
    BY <2>1 DEF SyncColumns, Outcomes
<1> HIDE DEF new
<1>3. /\ r \in HealthRow /\ r.sync = new /\ r.score = e.score /\ r.status = e.status /\ r.row
      /\ r.online = e.online /\ r.fails = e.fails /\ r.avg = e.avg /\ r.rate = e.rate
      /\ r.stale = e.stale /\ r.auth = e.auth
  BY <1>1, <1>2 DEF HealthRow
<1> HIDE DEF r
<1>4. Sound(r)
  BY <1>1, <1>3, ScoreColumns DEF Sound
<1> QED
  BY <1>3, <1>4 DEF SoundRow, new, r

\* The states of the processes, by their program counters.
LEMMA HpKinds ==
    ASSUME HpType
    PROVE  /\ \A c \in Checks : check[c].pc = "read" => check[c].existing \in SoundRow \cup {NoRow}
           /\ \A a \in Afters : /\ after[a].pc = "start" => after[a].status \in {"success", "failed"}
                                /\ after[a].pc = "read" => /\ after[a].status \in {"success", "failed"}
                                                           /\ after[a].existing \in SoundRow
<1>1. ASSUME NEW c \in Checks, check[c].pc = "read" PROVE check[c].existing \in SoundRow \cup {NoRow}
  <2>1. check[c] \in {NoCheck} \cup [pc : {"read"}, existing : SoundRow \cup {NoRow}]
    BY DEF HpType
  <2> QED
    BY <1>1, <2>1 DEF NoCheck
<1>2. ASSUME NEW a \in Afters
      PROVE  /\ after[a].pc = "start" => after[a].status \in {"success", "failed"}
             /\ after[a].pc = "read" => after[a].status \in {"success", "failed"} /\ after[a].existing \in SoundRow
  <2>1. after[a] \in {NoCheck} \cup [pc : {"start"}, status : {"success", "failed"}]
                     \cup [pc : {"read"}, status : {"success", "failed"}, existing : SoundRow]
    BY DEF HpType
  <2> QED
    BY <2>1 DEF NoCheck
<1> QED
  BY <1>1, <1>2

LEMMA RowKinds == (\A h \in SoundRow : h.row = TRUE) /\ NoRow.row = FALSE
  BY DEF SoundRow, HealthRow, NoRow

LEMMA HpTypeNext == HpType /\ [HpNext]_hpVars => HpType'
<1> SUFFICES ASSUME HpType, [HpNext]_hpVars PROVE HpType'
  OBVIOUS
<1> DEFINE CheckRec == {NoCheck} \cup [pc : {"read"}, existing : SoundRow \cup {NoRow}]
           AfterRec == {NoCheck} \cup [pc : {"start"}, status : {"success", "failed"}]
                       \cup [pc : {"read"}, status : {"success", "failed"}, existing : SoundRow]
<1>1. ASSUME NEW c \in Checks, NEW r \in CheckRec, check' = [check EXCEPT ![c] = r] PROVE check' \in [Checks -> CheckRec]
  BY <1>1 DEF HpType
<1>2. ASSUME NEW a \in Afters, NEW r \in AfterRec, after' = [after EXCEPT ![a] = r] PROVE after' \in [Afters -> AfterRec]
  BY <1>2 DEF HpType
<1>3. /\ hpUsed' = [hpUsed EXCEPT !.checks = @ + 1] => hpUsed' \in [checks : Nat, syncs : Nat, lost : Nat]
      /\ hpUsed' = [hpUsed EXCEPT !.syncs = @ + 1] => hpUsed' \in [checks : Nat, syncs : Nat, lost : Nat]
      /\ hpUsed' = [hpUsed EXCEPT !.lost = @ + 1] => hpUsed' \in [checks : Nat, syncs : Nat, lost : Nat]
  BY DEF HpType
<1>4. NoCheck \in CheckRec /\ NoCheck \in AfterRec
  OBVIOUS
<1>5. CASE UNCHANGED hpVars
  BY <1>5 DEF HpType, hpVars
<1>6. CASE HourPasses
  <2>1. hour' \in Nat
    BY <1>6 DEF HpType, HourPasses
  <2> QED
    BY <1>6, <2>1 DEF HpType, HourPasses
<1>7. CASE DeleteHypervisor
  <2>1. Never \in Outcomes
    <3>1. LastHour + 1 \in Nat
      BY HealthAssumption
    <3> QED
      BY <3>1 DEF Never, Outcomes
  <2>2. (raced \/ Reading(check) \/ Reading(after)) \in BOOLEAN
    OBVIOUS
  <2> QED
    BY <1>7, <2>1, <2>2 DEF HpType, DeleteHypervisor
<1>8. ASSUME NEW c \in Checks, RunCheckReads(c) PROVE HpType'
  <2>1. [pc |-> "read", existing |-> health] \in CheckRec
    BY DEF HpType
  <2>2. check' \in [Checks -> CheckRec] /\ hpUsed' \in [checks : Nat, syncs : Nat, lost : Nat]
    BY <1>1, <1>3, <1>8, <2>1 DEF RunCheckReads
  <2> QED
    BY <1>8, <2>2 DEF HpType, RunCheckReads
<1>9. ASSUME NEW c \in Checks, RunCheckSaves(c) PROVE HpType'
  <2>1. check[c].existing \in SoundRow \cup {NoRow}
    BY <1>9, HpKinds DEF RunCheckSaves
  <2>2. PICK online \in BOOLEAN, latency \in Latencies, rate \in TaskStats, auth \in AuthFailures :
            health' = Upsert(health, buildSnapshot(check[c].existing, online, latency, rate, auth))
    BY <1>9 DEF RunCheckSaves
  <2>3. latency \in Nat /\ rate \in Rates /\ auth \in Nat /\ hour \in Nat
    BY HealthAssumption DEF Rates, HpType
  <2>4. health' \in SoundRow
    BY <2>1, <2>2, <2>3, SnapshotSound DEF Upsert
  <2>5. check' \in [Checks -> CheckRec]
    BY <1>1, <1>4, <1>9 DEF RunCheckSaves
  <2>6. raced' \in BOOLEAN
    <3>1. (raced \/ Reading(after) \/ Reading([check EXCEPT ![c] = NoCheck])) \in BOOLEAN
      OBVIOUS
    <3> QED
      BY <1>9, <3>1 DEF RunCheckSaves
  <2> QED
    BY <1>9, <2>4, <2>5, <2>6 DEF HpType, RunCheckSaves
<1>10. ASSUME NEW c \in Checks, RunCheckLost(c) PROVE HpType'
  <2>1. check' \in [Checks -> CheckRec] /\ hpUsed' \in [checks : Nat, syncs : Nat, lost : Nat]
    BY <1>1, <1>3, <1>4, <1>10 DEF RunCheckLost, HpType
  <2> QED
    BY <1>10, <2>1 DEF HpType, RunCheckLost
<1>11. ASSUME NEW a \in Afters, StartAfter(a) PROVE HpType'
  <2>1. \A st \in {"success", "failed"} : [pc |-> "start", status |-> st] \in AfterRec
    OBVIOUS
  <2>2. after' \in [Afters -> AfterRec] /\ hpUsed' \in [checks : Nat, syncs : Nat, lost : Nat]
    BY <1>2, <1>3, <1>11, <2>1 DEF StartAfter
  <2> QED
    BY <1>11, <2>2 DEF HpType, StartAfter
<1>12. ASSUME NEW a \in Afters, AfterReads(a) PROVE HpType'
  <2>1. after[a].status \in {"success", "failed"}
    BY <1>12, HpKinds DEF AfterReads
  <2>2. health.row => health \in SoundRow
    BY RowKinds DEF HpType
  <2>3. health.row => [pc |-> "read", status |-> after[a].status, existing |-> health] \in AfterRec
    BY <2>1, <2>2
  <2>4. after' = [after EXCEPT ![a] = IF health.row THEN [pc |-> "read", status |-> after[a].status, existing |-> health]
                                      ELSE NoCheck]
    BY <1>12 DEF AfterReads, HpType
  <2>5. after' \in [Afters -> AfterRec]
    BY <1>2, <1>4, <2>3, <2>4
  <2> QED
    BY <1>12, <2>5 DEF HpType, AfterReads
<1>13. ASSUME NEW a \in Afters, AfterSaves(a) PROVE HpType'
  <2>1. after[a].status \in {"success", "failed"} /\ after[a].existing \in SoundRow
    BY <1>13, HpKinds DEF AfterSaves
  <2>2. after' \in [Afters -> AfterRec]
    BY <1>2, <1>4, <1>13 DEF AfterSaves
  <2>3. CASE /\ health' = [after[a].existing EXCEPT !.sync = SyncColumns(@, after[a].status)]
             /\ listed' = TRUE
             /\ told' = SyncColumns(told, after[a].status)
             /\ raced' = (raced \/ Reading(check) \/ Reading([after EXCEPT ![a] = NoCheck]))
             /\ UNCHANGED hpUsed
    <3>1. health' \in SoundRow
      BY <2>1, <2>3, AfterSound DEF HpType
    <3>2. told' \in Outcomes
      <4>1. told.failures + Penalty(after[a].status = "failed", 1) \in Nat
        BY DEF HpType, Outcomes, Penalty
      <4>2. hour \in Nat
        BY DEF HpType
      <4> QED
        BY <2>1, <2>3, <4>1, <4>2 DEF SyncColumns, Outcomes
    <3>3. (raced \/ Reading(check) \/ Reading([after EXCEPT ![a] = NoCheck])) \in BOOLEAN
      OBVIOUS
    <3>4. raced' \in BOOLEAN
      BY <2>3, <3>3
    <3>5. UNCHANGED <<check, hour>>
      BY <1>13 DEF AfterSaves
    <3> QED
      BY <2>2, <2>3, <3>1, <3>2, <3>4, <3>5 DEF HpType
  <2>4. CASE /\ hpUsed' = [hpUsed EXCEPT !.lost = @ + 1]
             /\ raced' = TRUE /\ UNCHANGED <<listed, health, told>>
    <3>1. hpUsed' \in [checks : Nat, syncs : Nat, lost : Nat]
      BY <1>3, <2>4
    <3> QED
      BY <1>13, <2>2, <2>4, <3>1 DEF HpType, AfterSaves
  <2> QED
    BY <1>13, <2>3, <2>4 DEF AfterSaves
<1> QED
  BY <1>5, <1>6, <1>7, <1>8, <1>9, <1>10, <1>11, <1>12, <1>13 DEF HpNext

LEMMA RaceNext == HpType /\ RaceInv /\ [HpNext]_hpVars => RaceInv'
<1> SUFFICES ASSUME HpType, RaceInv, [HpNext]_hpVars PROVE RaceInv'
  OBVIOUS
<1>1. /\ DOMAIN check = Checks /\ DOMAIN after = Afters
      /\ \A c \in Checks : DOMAIN [check EXCEPT ![c] = NoCheck] = Checks
      /\ \A a \in Afters : DOMAIN [after EXCEPT ![a] = NoCheck] = Afters
  BY DEF HpType
<1>2. ASSUME NEW c \in Checks, NEW r, check' = [check EXCEPT ![c] = r]
      PROVE  check'[c] = r /\ \A x \in Checks \ {c} : check'[x] = check[x]
  BY <1>2 DEF HpType
<1>3. ASSUME NEW a \in Afters, NEW r, after' = [after EXCEPT ![a] = r]
      PROVE  after'[a] = r /\ \A x \in Afters \ {a} : after'[x] = after[x]
  BY <1>3 DEF HpType
<1>4. NoCheck.pc = "none"
  BY DEF NoCheck
<1>5. CASE UNCHANGED hpVars
  BY <1>5 DEF RaceInv, hpVars
<1>6. CASE HourPasses
  BY <1>6 DEF RaceInv, HourPasses
<1>7. CASE DeleteHypervisor
  <2>1. ~raced' => (\A c \in Checks : check[c].pc # "read") /\ (\A a \in Afters : after[a].pc # "read")
    BY <1>1, <1>7 DEF DeleteHypervisor, Reading
  <2>2. health' = NoRow /\ told' = Never /\ UNCHANGED <<check, after>>
    BY <1>7 DEF DeleteHypervisor
  <2> QED
    BY <2>1, <2>2, RowKinds DEF RaceInv
<1>8. ASSUME NEW c \in Checks, RunCheckReads(c) PROVE RaceInv'
  <2>1. check'[c].existing = health /\ \A x \in Checks \ {c} : check'[x] = check[x]
    <3> DEFINE r == [pc |-> "read", existing |-> health]
    <3>1. check' = [check EXCEPT ![c] = r] /\ r.existing = health
      BY <1>8 DEF RunCheckReads
    <3> HIDE DEF r
    <3> QED
      BY <1>2, <3>1
  <2>2. UNCHANGED <<health, after, told, raced>>
    BY <1>8 DEF RunCheckReads
  <2> QED
    BY <2>1, <2>2 DEF RaceInv
<1>9. ASSUME NEW c \in Checks, RunCheckSaves(c) PROVE RaceInv'
  <2> SUFFICES ASSUME ~raced'
               PROVE  /\ IF health'.row THEN health'.sync = told' ELSE told' = Never
                      /\ \A x \in Checks : check'[x].pc = "read" => check'[x].existing = health'
                      /\ \A a \in Afters : after'[a].pc = "read" => after'[a].existing = health'
    BY DEF RaceInv
  <2>1. ~raced /\ ~Reading(after) /\ ~Reading([check EXCEPT ![c] = NoCheck])
    BY <1>9 DEF RunCheckSaves
  <2>2. UNCHANGED <<after, told>> /\ check' = [check EXCEPT ![c] = NoCheck]
    BY <1>9 DEF RunCheckSaves
  <2>3. \A a \in Afters : after'[a].pc # "read"
    BY <1>1, <2>1, <2>2 DEF Reading
  <2>4. \A x \in Checks : check'[x].pc # "read"
    BY <1>1, <2>1, <2>2 DEF Reading
  <2>5. check[c].existing = health /\ health \in SoundRow \cup {NoRow}
    BY <1>9, <2>1 DEF RaceInv, RunCheckSaves, HpType
  <2>6. PICK online \in BOOLEAN, latency \in Latencies, rate \in TaskStats, auth \in AuthFailures :
            health' = buildSnapshot(health, online, latency, rate, auth)
    BY <1>9, <2>5 DEF RunCheckSaves, Upsert
  <2>7. latency \in Nat /\ rate \in Rates /\ auth \in Nat /\ hour \in Nat
    BY HealthAssumption DEF Rates, HpType
  <2>8. health' \in SoundRow /\ health'.sync = IF health.row THEN health.sync ELSE Never
    BY <2>5, <2>6, <2>7, SnapshotSound
  <2> QED
    BY <2>1, <2>2, <2>3, <2>4, <2>8, RowKinds DEF RaceInv
<1>10. ASSUME NEW c \in Checks, RunCheckLost(c) PROVE RaceInv'
  <2>1. check'[c].pc = "none" /\ \A x \in Checks \ {c} : check'[x] = check[x]
    BY <1>2, <1>4, <1>10 DEF RunCheckLost
  <2>2. UNCHANGED <<health, after, told, raced>>
    BY <1>10 DEF RunCheckLost
  <2> QED
    BY <2>1, <2>2 DEF RaceInv
<1>11. ASSUME NEW a \in Afters, StartAfter(a) PROVE RaceInv'
  <2>1. after'[a].pc = "start" /\ \A x \in Afters \ {a} : after'[x] = after[x]
    <3>1. PICK st \in {"success", "failed"} : after' = [after EXCEPT ![a] = [pc |-> "start", status |-> st]]
      BY <1>11 DEF StartAfter
    <3> DEFINE r == [pc |-> "start", status |-> st]
    <3>2. after' = [after EXCEPT ![a] = r] /\ r.pc = "start"
      BY <3>1
    <3> HIDE DEF r
    <3> QED
      BY <1>3, <3>2
  <2>2. UNCHANGED <<health, check, told, raced>>
    BY <1>11 DEF StartAfter
  <2> QED
    BY <2>1, <2>2 DEF RaceInv
<1>12. ASSUME NEW a \in Afters, AfterReads(a) PROVE RaceInv'
  <2>1. after' = [after EXCEPT ![a] = IF health.row THEN [pc |-> "read", status |-> after[a].status, existing |-> health]
                                      ELSE NoCheck]
    BY <1>12 DEF AfterReads, HpType
  <2>2. (after'[a].pc = "read" => after'[a].existing = health) /\ \A x \in Afters \ {a} : after'[x] = after[x]
    <3> DEFINE r == IF health.row THEN [pc |-> "read", status |-> after[a].status, existing |-> health] ELSE NoCheck
    <3>1. after' = [after EXCEPT ![a] = r] /\ (r.pc = "read" => r.existing = health)
      BY <1>4, <2>1
    <3> HIDE DEF r
    <3> QED
      BY <1>3, <3>1
  <2>3. UNCHANGED <<health, check, told, raced>>
    BY <1>12 DEF AfterReads
  <2> QED
    BY <2>2, <2>3 DEF RaceInv
<1>13. ASSUME NEW a \in Afters, AfterSaves(a) PROVE RaceInv'
  <2> SUFFICES ASSUME ~raced'
               PROVE  /\ IF health'.row THEN health'.sync = told' ELSE told' = Never
                      /\ \A x \in Checks : check'[x].pc = "read" => check'[x].existing = health'
                      /\ \A x \in Afters : after'[x].pc = "read" => after'[x].existing = health'
    BY DEF RaceInv
  <2>1. /\ health' = [after[a].existing EXCEPT !.sync = SyncColumns(@, after[a].status)]
        /\ told' = SyncColumns(told, after[a].status)
        /\ ~raced /\ ~Reading(check) /\ ~Reading([after EXCEPT ![a] = NoCheck])
    BY <1>13 DEF AfterSaves
  <2>2. UNCHANGED check /\ after' = [after EXCEPT ![a] = NoCheck]
    BY <1>13 DEF AfterSaves
  <2>3. \A x \in Checks : check'[x].pc # "read"
    BY <1>1, <2>1, <2>2 DEF Reading
  <2>4. \A x \in Afters : after'[x].pc # "read"
    BY <1>1, <2>1, <2>2 DEF Reading
  <2>5. after[a].existing \in SoundRow /\ after[a].status \in {"success", "failed"}
    BY <1>13, HpKinds DEF AfterSaves
  <2>6. after[a].existing = health
    BY <1>13, <2>1 DEF AfterSaves, RaceInv
  <2>7. health.row = TRUE
    BY <2>5, <2>6, RowKinds
  <2>8. health.sync = told
    BY <2>1, <2>7 DEF RaceInv
  <2>9. health'.row /\ health'.sync = SyncColumns(health.sync, after[a].status)
    BY <2>1, <2>5, <2>6, AfterSound DEF HpType
  <2> QED
    BY <2>1, <2>3, <2>4, <2>8, <2>9
<1> QED
  BY <1>5, <1>6, <1>7, <1>8, <1>9, <1>10, <1>11, <1>12, <1>13 DEF HpNext

\* Type correctness of module ProviderHealth, and the soundness of every row that is stored or read.
THEOREM HpTypeCorrect == HpSpec => []HpType
  BY HpInitial, HpTypeNext, PTL DEF HpSpec

\* provider_health_service.go: score and status of a row follow from its columns, an offline hypervisor is
\* never shown healthy, one that failed three checks is unhealthy, and as long as nobody saved between
\* another's read and save the row tells how the last synchronisation ended.
THEOREM HealthTellsCorrect == HpSpec => []HealthTells
<1>1. HpType /\ RaceInv => HealthTells
  <2> SUFFICES ASSUME HpType, RaceInv, health.row
               PROVE  /\ health.score = computeHealthScore(health) /\ health.status = scoreToStatus(health.score)
                      /\ health.online <=> health.fails = 0
                      /\ ~health.online => health.status # "healthy"
                      /\ health.fails >= 3 => health.status = "unhealthy"
                      /\ ~raced => health.sync = told
    BY DEF HealthTells
  <2>1. health \in HealthRow /\ Sound(health)
    BY RowKinds DEF HpType, SoundRow
  <2>2. health.fails \in Nat /\ health.online \in BOOLEAN
    BY <2>1 DEF HealthRow
  <2>3. health.fails >= 3 => ~health.online
    BY <2>1, <2>2 DEF Sound
  <2>4. computeHealthScore(health) \in 0..100
    BY <2>1, ScoreBounds
  <2>5. ~health.online => computeHealthScore(health) <= 60
    BY <2>1, ScoreBounds
  <2>6. health.fails >= 3 => computeHealthScore(health) <= 40
    BY <2>1, <2>3, ScoreBounds
  <2>7. health.score = computeHealthScore(health) /\ health.status = scoreToStatus(health.score)
    BY <2>1 DEF Sound
  <2>8. ~health.online => health.status # "healthy"
    BY <2>4, <2>5, <2>7 DEF scoreToStatus
  <2>9. health.fails >= 3 => health.status = "unhealthy"
    BY <2>4, <2>6, <2>7 DEF scoreToStatus
  <2>10. ~raced => health.sync = told
    BY DEF RaceInv
  <2> QED
    BY <2>1, <2>7, <2>8, <2>9, <2>10 DEF Sound
<1> QED
  BY <1>1, HpInitial, HpTypeNext, RaceNext, PTL DEF HpSpec

----------------------------------------------------------------------------
(* Policies: requests that change them *)

Draft     == [effect : STRING, prio : Int, enabled : BOOLEAN, ops : SUBSET STRING, config : STRING,
              conds : SUBSET Conditions]
PolicyRow == [live : BOOLEAN, effect : STRING, prio : Int, enabled : BOOLEAN, ops : SUBSET STRING, config : STRING]
Wanting   == [row : PolicyRow, conds : SUBSET Conditions, live : {TRUE}]

Saving    == [pc : {"save"}, policy : PolicyIDs, replace : BOOLEAN, new : Draft, conds : SUBSET Conditions,
              assigned : SUBSET Targets]
Replacing == [pc : {"conds"}, policy : PolicyIDs, new : Draft]
Linking   == [pc : {"assign"}, policy : PolicyIDs, target : Targets]
EditorRec == {Free} \cup Saving \cup Replacing \cup Linking

\* The type of the tables of module Policies and of the requests that change them.
PolType == /\ policy \in [PolicyIDs -> {NoPolicy} \cup PolicyRow]
           /\ conds \in [PolicyIDs -> SUBSET Conditions] /\ assigned \in [PolicyIDs -> SUBSET Targets]
           /\ wanted \in [PolicyIDs -> {Gone} \cup Wanting]
           /\ editor \in [Editors -> EditorRec]
           /\ mixed \in SUBSET PolicyIDs /\ disturbed \in BOOLEAN
           /\ polUsed \in [edits : Nat, failures : Nat]

Saves(e, p)    == editor[e].pc = "save" /\ editor[e].policy = p
Replaces(e, p) == editor[e].pc = "conds" /\ editor[e].policy = p
WorksOn(e, p)  == editor[e].pc # "free" /\ editor[e].policy = p

\* The tables hold what the requests on p that have ended asked for.
Settled(p) == IF wanted[p].live THEN policy[p] = wanted[p].row /\ conds[p] = wanted[p].conds ELSE ~policy[p].live

\* No request works on a policy that never was; one that does not replace the conditions keeps those it read.
\* If no requests overlapped on p, p is settled unless its conditions are about to be replaced, then it has
\* its new columns, and a request about to save it has read the conditions as they are.
Kept(p) == /\ policy[p] = NoPolicy => conds[p] = {} /\ \A e \in Editors : ~WorksOn(e, p)
           /\ \A e \in Editors : Saves(e, p) /\ ~editor[e].replace => editor[e].new.conds = editor[e].conds
           /\ p \notin mixed =>
                 /\ (\A e \in Editors : ~Replaces(e, p)) => Settled(p)
                 /\ \A e \in Editors : /\ Replaces(e, p) => policy[p] = Row(editor[e].new)
                                       /\ Saves(e, p) => editor[e].conds = conds[p]
EditInv == \A p \in PolicyIDs : Kept(p)

LEMMA EditorKinds ==
    ASSUME PolType, NEW e \in Editors
    PROVE  /\ editor[e].pc = "save" => editor[e] \in Saving
           /\ editor[e].pc = "conds" => editor[e] \in Replacing
           /\ editor[e].pc = "assign" => editor[e] \in Linking
           /\ editor[e].pc \in {"free", "save", "conds", "assign"}
           /\ editor[e] = Free <=> editor[e].pc = "free"
           /\ editor[e].pc # "free" => editor[e].policy \in PolicyIDs
           /\ \A p : p \in On(e) <=> WorksOn(e, p)
<1>1. editor[e] \in EditorRec
  BY DEF PolType
<1>2. Free.pc = "free"
  BY DEF Free
<1>3. /\ editor[e].pc = "save" => editor[e] \in Saving
      /\ editor[e].pc = "conds" => editor[e] \in Replacing
      /\ editor[e].pc = "assign" => editor[e] \in Linking
      /\ editor[e].pc \in {"free", "save", "conds", "assign"}
      /\ editor[e] = Free <=> editor[e].pc = "free"
  BY <1>1, <1>2 DEF EditorRec, Saving, Replacing, Linking
<1>4. editor[e].pc # "free" => editor[e].policy \in PolicyIDs
  BY <1>3 DEF Saving, Replacing, Linking
<1>5. \A p : p \in On(e) <=> WorksOn(e, p)
  BY <1>3 DEF On, WorksOn
<1> QED
  BY <1>3, <1>4, <1>5

LEMMA RowTyped == /\ \A d \in Draft : Row(d) \in PolicyRow /\ Row(d).live = TRUE
                  /\ \A d \in Draft : Stored(d) \in Wanting /\ Stored(d).row = Row(d) /\ Stored(d).conds = d.conds /\ Stored(d).live = TRUE
                  /\ \A r \in PolicyRow : r # NoPolicy
                  /\ Gone.live = FALSE /\ NoPolicy.live = FALSE
<1>1. \A d \in Draft : Row(d) \in PolicyRow /\ Row(d).live = TRUE
  BY DEF Draft, Row, PolicyRow
<1>2. \A d \in Draft : Stored(d) \in Wanting /\ Stored(d).row = Row(d) /\ Stored(d).conds = d.conds /\ Stored(d).live = TRUE
  BY <1>1 DEF Stored, Wanting, Draft
<1>3. ASSUME NEW r \in PolicyRow PROVE r # NoPolicy
  <2>1. "prio" \in DOMAIN r
    BY DEF PolicyRow
  <2>2. "prio" \notin DOMAIN NoPolicy
    BY DEF NoPolicy
  <2> QED
    BY <2>1, <2>2
<1>4. Gone.live = FALSE /\ NoPolicy.live = FALSE
  BY DEF Gone, NoPolicy
<1> QED
  BY <1>1, <1>2, <1>3, <1>4

LEMMA DraftsTyped == (\A d \in Drafts : d \in Draft) /\ (\A d \in Drafts : Defaulted(d) \in Draft)
<1>1. \A d \in Drafts : d \in Draft
  BY PolicyAssumption DEF Draft
<1>2. ASSUME NEW d \in Draft PROVE Defaulted(d) \in Draft
  <2> DEFINE prio == IF d.prio = 0 THEN 100 ELSE d.prio
  <2>1. prio \in Int
    BY DEF Draft
  <2>2. Defaulted(d) = [[d EXCEPT !.enabled = TRUE] EXCEPT !.prio = prio]
    BY DEF Defaulted, Draft
  <2> HIDE DEF prio
  <2> QED
    BY <2>1, <2>2 DEF Draft
<1> QED
  BY <1>1, <1>2

LEMMA PatchTyped ==
    ASSUME NEW patch \in Patches \cup {Toggle(TRUE), Toggle(FALSE)}, NEW row \in PolicyRow, NEW cs \in SUBSET Conditions
    PROVE  /\ Patched(patch, row, cs) \in Draft
           /\ "conds" \notin DOMAIN patch => Patched(patch, row, cs).conds = cs
<1>1. \A f \in DOMAIN patch : f \in DOMAIN DraftFields /\ patch[f] \in DraftFields[f]
  <2>1. CASE patch \in Patches
    BY <2>1, PolicyAssumption
  <2>2. CASE patch \in {Toggle(TRUE), Toggle(FALSE)}
    <3>1. PICK b \in BOOLEAN : patch = [enabled |-> b]
      BY <2>2 DEF Toggle
    <3>2. DOMAIN patch = {"enabled"} /\ patch["enabled"] = b
      BY <3>1
    <3>3. "enabled" \in DOMAIN DraftFields /\ DraftFields["enabled"] = BOOLEAN
      BY DEF DraftFields
    <3> QED
      BY <3>2, <3>3
  <2> QED
    BY <2>1, <2>2
<1>2. /\ Field(patch, "effect", row.effect) \in STRING
      /\ Field(patch, "prio", row.prio) \in Int
      /\ Field(patch, "enabled", row.enabled) \in BOOLEAN
  BY <1>1 DEF Field, DraftFields, PolicyRow
<1>3. /\ Field(patch, "ops", row.ops) \in SUBSET STRING
      /\ Field(patch, "config", row.config) \in STRING
      /\ Field(patch, "conds", cs) \in SUBSET Conditions
  BY <1>1 DEF Field, DraftFields, PolicyRow
<1>4. Patched(patch, row, cs) \in Draft
  BY <1>2, <1>3 DEF Patched, Draft
<1>5. "conds" \notin DOMAIN patch => Patched(patch, row, cs).conds = cs
  BY DEF Patched, Field
<1> QED
  BY <1>4, <1>5

LEMMA PolInitial == PolInit => PolType /\ EditInv
<1> SUFFICES ASSUME PolInit PROVE PolType /\ EditInv
  OBVIOUS
<1>1. PICK old \in [PolicyIDs -> Drafts \cup {NoPolicy}], to \in [PolicyIDs -> Targets \cup {"nowhere"}] :
          /\ policy   = [p \in PolicyIDs |-> IF old[p] = NoPolicy THEN NoPolicy ELSE Row(old[p])]
          /\ conds    = [p \in PolicyIDs |-> IF old[p] = NoPolicy THEN {} ELSE old[p].conds]
          /\ assigned = [p \in PolicyIDs |-> {to[p]} \ {"nowhere"}]
          /\ wanted   = [p \in PolicyIDs |-> IF old[p] = NoPolicy THEN Gone ELSE Stored(old[p])]
  BY DEF PolInit
<1>2. \A p \in PolicyIDs : old[p] = NoPolicy \/ old[p] \in Draft
  BY DraftsTyped
<1>3. \A d \in Draft : d.conds \in SUBSET Conditions
  BY DEF Draft
<1>4. policy \in [PolicyIDs -> {NoPolicy} \cup PolicyRow] /\ wanted \in [PolicyIDs -> {Gone} \cup Wanting]
  BY <1>1, <1>2, RowTyped
<1>5. conds \in [PolicyIDs -> SUBSET Conditions] /\ assigned \in [PolicyIDs -> SUBSET Targets]
  BY <1>1, <1>2, <1>3
<1>6. editor \in [Editors -> EditorRec] /\ \A e \in Editors : editor[e].pc = "free"
  BY DEF PolInit, EditorRec, Free
<1>7. polUsed \in [edits : Nat, failures : Nat] /\ mixed \in SUBSET PolicyIDs /\ disturbed \in BOOLEAN
  BY DEF PolInit
<1>8. PolType
  BY <1>4, <1>5, <1>6, <1>7 DEF PolType
<1>9. \A p \in PolicyIDs : Settled(p)
  <2> SUFFICES ASSUME NEW p \in PolicyIDs PROVE Settled(p)
    OBVIOUS
  <2>1. CASE old[p] = NoPolicy
    BY <1>1, <2>1, RowTyped DEF Settled
  <2>2. CASE old[p] # NoPolicy
    <3>1. old[p] \in Draft /\ policy[p] = Row(old[p]) /\ wanted[p] = Stored(old[p]) /\ conds[p] = old[p].conds
      BY <1>1, <1>2, <2>2
    <3> QED
      BY <3>1, RowTyped DEF Settled
  <2> QED
    BY <2>1, <2>2
<1>10. \A p \in PolicyIDs : policy[p] = NoPolicy => conds[p] = {}
  BY <1>1, <1>2, RowTyped
<1>11. EditInv
  BY <1>6, <1>9, <1>10 DEF EditInv, Kept, WorksOn, Saves, Replaces
<1> QED
  BY <1>8, <1>11

\* What a statement on p leaves of the history.
LEMMA WroteEffect ==
    ASSUME PolType, NEW p \in PolicyIDs, NEW e \in Editors, Wrote(p, e)
    PROVE  /\ mixed' \in SUBSET PolicyIDs /\ disturbed' \in BOOLEAN /\ mixed \subseteq mixed'
           /\ p \notin mixed' => \A x \in Editors \ {e} : ~WorksOn(x, p)
           /\ ~disturbed' => ~disturbed /\ eval = NoEval /\ decision = NoDecision
<1>1. (disturbed \/ eval # NoEval \/ decision # NoDecision) \in BOOLEAN
  OBVIOUS
<1>2. disturbed' \in BOOLEAN /\ (~disturbed' => ~disturbed /\ eval = NoEval /\ decision = NoDecision)
  BY <1>1 DEF Wrote
<1>3. p \notin mixed' => \A x \in Editors \ {e} : p \notin On(x)
  BY DEF Wrote, Busy
<1>4. p \notin mixed' => \A x \in Editors \ {e} : ~WorksOn(x, p)
  BY <1>3, EditorKinds
<1> QED
  BY <1>2, <1>4 DEF Wrote, PolType

LEMMA PolTypeNext == PolType /\ [PolNext]_polVars => PolType'
<1> SUFFICES ASSUME PolType, [PolNext]_polVars PROVE PolType'
  OBVIOUS
<1>1. ASSUME NEW e \in Editors, NEW r \in EditorRec, editor' = [editor EXCEPT ![e] = r] PROVE editor' \in [Editors -> EditorRec]
  BY <1>1 DEF PolType
<1>2. ASSUME NEW e \in Editors, Ends(e) PROVE editor' \in [Editors -> EditorRec]
  BY <1>2 DEF PolType, Ends, EditorRec
<1>3. ASSUME NEW p \in PolicyIDs, NEW w \in {Gone} \cup Wanting, Becomes(p, w) PROVE wanted' \in [PolicyIDs -> {Gone} \cup Wanting]
  BY <1>3 DEF PolType, Becomes
<1>4. (Editing \/ Fails) => polUsed' \in [edits : Nat, failures : Nat]
  BY DEF Editing, Fails, PolType
<1>5. ASSUME NEW p \in PolicyIDs, NEW r \in PolicyRow, policy' = [policy EXCEPT ![p] = r]
      PROVE  policy' \in [PolicyIDs -> {NoPolicy} \cup PolicyRow]
  BY <1>5 DEF PolType
<1>6. CASE UNCHANGED polVars
  BY <1>6 DEF PolType, polVars
<1>7. ASSUME NEW e \in Editors, NEW p \in PolicyIDs, Create(e, p) PROVE PolType'
  <2>1. PICK draft \in Drafts :
          LET d == Defaulted(draft) IN
          /\ policy' = [policy EXCEPT ![p] = Row(d)]
          /\ IF d.conds = {} THEN Ends(e) /\ Becomes(p, Stored(d))
             ELSE /\ editor' = [editor EXCEPT ![e] = [pc |-> "conds", policy |-> p, new |-> d]]
                  /\ UNCHANGED wanted
    BY <1>7 DEF Create
  <2> DEFINE d == Defaulted(draft)
  <2>2. d \in Draft /\ Row(d) \in PolicyRow /\ Stored(d) \in Wanting
    BY DraftsTyped, RowTyped
  <2>3. [pc |-> "conds", policy |-> p, new |-> d] \in EditorRec
    BY <2>2 DEF EditorRec, Replacing
  <2>4. editor' \in [Editors -> EditorRec]
    BY <1>1, <1>2, <2>1, <2>3
  <2>5. wanted' \in [PolicyIDs -> {Gone} \cup Wanting]
    BY <1>3, <2>1, <2>2 DEF PolType
  <2>6. policy' \in [PolicyIDs -> {NoPolicy} \cup PolicyRow]
    BY <1>5, <2>1, <2>2
  <2>7. mixed' \in SUBSET PolicyIDs /\ disturbed' \in BOOLEAN
    BY <1>7, WroteEffect DEF Create
  <2> QED
    BY <1>4, <1>7, <2>4, <2>5, <2>6, <2>7 DEF PolType, Create
<1>8. ASSUME NEW e \in Editors, NEW p \in PolicyIDs, UpdatePolicyReads(e, p) PROVE PolType'
  <2>1. PICK patch \in Patches \cup {Toggle(TRUE), Toggle(FALSE)} :
          editor' = [editor EXCEPT ![e] =
              [pc |-> "save", policy |-> p, replace |-> "conds" \in DOMAIN patch,
               new |-> Patched(patch, policy[p], conds[p]), conds |-> conds[p], assigned |-> assigned[p]]]
    BY <1>8 DEF UpdatePolicyReads
  <2>2. policy[p] \in PolicyRow /\ conds[p] \in SUBSET Conditions /\ assigned[p] \in SUBSET Targets
    BY <1>8, RowTyped DEF UpdatePolicyReads, Live, PolType
  <2>3. Patched(patch, policy[p], conds[p]) \in Draft
    BY <2>2, PatchTyped
  <2>4. ("conds" \in DOMAIN patch) \in BOOLEAN
    OBVIOUS
  <2>5. [pc |-> "save", policy |-> p, replace |-> "conds" \in DOMAIN patch,
         new |-> Patched(patch, policy[p], conds[p]), conds |-> conds[p], assigned |-> assigned[p]] \in EditorRec
    BY <2>2, <2>3, <2>4 DEF EditorRec, Saving
  <2>6. editor' \in [Editors -> EditorRec]
    BY <1>1, <2>1, <2>5
  <2> QED
    BY <1>4, <1>8, <2>6 DEF PolType, UpdatePolicyReads
<1>9. ASSUME NEW e \in Editors, UpdatePolicySaves(e) PROVE PolType'
  <2> DEFINE u == editor[e]
  <2>1. u \in Saving
    BY <1>9, EditorKinds DEF UpdatePolicySaves
  <2>2. u.policy \in PolicyIDs /\ u.new \in Draft /\ u.conds \in SUBSET Conditions /\ u.assigned \in SUBSET Targets
    BY <2>1 DEF Saving
  <2>3. Row(u.new) \in PolicyRow /\ Stored(u.new) \in Wanting
    BY <2>2, RowTyped
  <2>4. [pc |-> "conds", policy |-> u.policy, new |-> u.new] \in EditorRec
    BY <2>2 DEF EditorRec, Replacing
  <2>5. editor' \in [Editors -> EditorRec]
    BY <1>1, <1>2, <1>9, <2>4 DEF UpdatePolicySaves
  <2>6. wanted' \in [PolicyIDs -> {Gone} \cup Wanting]
    BY <1>3, <1>9, <2>2, <2>3 DEF UpdatePolicySaves, PolType
  <2>7. policy' \in [PolicyIDs -> {NoPolicy} \cup PolicyRow]
    BY <1>5, <1>9, <2>2, <2>3 DEF UpdatePolicySaves
  <2>8. conds' \in [PolicyIDs -> SUBSET Conditions] /\ assigned' \in [PolicyIDs -> SUBSET Targets]
    BY <1>9, <2>2 DEF UpdatePolicySaves, PolType
  <2>9. mixed' \in SUBSET PolicyIDs /\ disturbed' \in BOOLEAN
    BY <1>9, <2>2, WroteEffect DEF UpdatePolicySaves
  <2> QED
    BY <1>9, <2>5, <2>6, <2>7, <2>8, <2>9 DEF PolType, UpdatePolicySaves
<1>10. ASSUME NEW e \in Editors, ConditionsReplaced(e) PROVE PolType'
  <2> DEFINE u == editor[e]
  <2>1. u \in Replacing
    BY <1>10, EditorKinds DEF ConditionsReplaced
  <2>2. u.policy \in PolicyIDs /\ u.new \in Draft /\ u.new.conds \in SUBSET Conditions
    BY <2>1 DEF Replacing, Draft
  <2>3. Stored(u.new) \in Wanting
    BY <2>2, RowTyped
  <2>4. conds' \in [PolicyIDs -> SUBSET Conditions]
    BY <1>10, <2>2 DEF ConditionsReplaced, ReplaceConditions, PolType
  <2>5. editor' \in [Editors -> EditorRec] /\ wanted' \in [PolicyIDs -> {Gone} \cup Wanting]
    BY <1>2, <1>3, <1>10, <2>2, <2>3 DEF ConditionsReplaced
  <2>6. mixed' \in SUBSET PolicyIDs /\ disturbed' \in BOOLEAN
    BY <1>10, <2>2, WroteEffect DEF ConditionsReplaced
  <2> QED
    BY <1>10, <2>4, <2>5, <2>6 DEF PolType, ConditionsReplaced
<1>11. ASSUME NEW e \in Editors, EditFails(e) PROVE PolType'
  <2>1. editor[e].policy \in PolicyIDs
    BY <1>11, EditorKinds DEF EditFails
  <2>2. mixed' \in SUBSET PolicyIDs
    BY <1>11, <2>1 DEF EditFails, PolType
  <2>3. editor' \in [Editors -> EditorRec]
    BY <1>2, <1>11 DEF EditFails
  <2> QED
    BY <1>4, <1>11, <2>2, <2>3 DEF PolType, EditFails
<1>12. ASSUME NEW e \in Editors, NEW p \in PolicyIDs, DeletePolicy(e, p) PROVE PolType'
  <2>1. policy[p] \in PolicyRow
    BY <1>12, RowTyped DEF DeletePolicy, Live, PolType
  <2>2. [policy[p] EXCEPT !.live = FALSE] \in PolicyRow
    BY <2>1 DEF PolicyRow
  <2>3. policy' = [policy EXCEPT ![p] = [policy[p] EXCEPT !.live = FALSE]]
    BY <1>12 DEF DeletePolicy, PolType
  <2>4. policy' \in [PolicyIDs -> {NoPolicy} \cup PolicyRow]
    BY <1>5, <2>2, <2>3
  <2>5. wanted' \in [PolicyIDs -> {Gone} \cup Wanting]
    BY <1>3, <1>12 DEF DeletePolicy
  <2>6. mixed' \in SUBSET PolicyIDs /\ disturbed' \in BOOLEAN
    BY <1>12, WroteEffect DEF DeletePolicy
  <2> QED
    BY <1>4, <1>12, <2>4, <2>5, <2>6 DEF PolType, DeletePolicy
<1>13. ASSUME NEW e \in Editors, NEW p \in PolicyIDs, AssignReads(e, p) PROVE PolType'
  <2>1. PICK t \in Targets : editor' = [editor EXCEPT ![e] = [pc |-> "assign", policy |-> p, target |-> t]]
    BY <1>13 DEF AssignReads
  <2>2. [pc |-> "assign", policy |-> p, target |-> t] \in EditorRec
    BY DEF EditorRec, Linking
  <2>3. editor' \in [Editors -> EditorRec]
    BY <1>1, <2>1, <2>2
  <2> QED
    BY <1>4, <1>13, <2>3 DEF PolType, AssignReads
<1>14. ASSUME NEW e \in Editors, AssignInserts(e) PROVE PolType'
  <2>1. editor[e] \in Linking
    BY <1>14, EditorKinds DEF AssignInserts
  <2>2. editor[e].policy \in PolicyIDs /\ editor[e].target \in Targets
    BY <2>1 DEF Linking
  <2>3. assigned' \in [PolicyIDs -> SUBSET Targets]
    BY <1>14, <2>2 DEF AssignInserts, PolType
  <2>4. editor' \in [Editors -> EditorRec] /\ mixed' \in SUBSET PolicyIDs /\ disturbed' \in BOOLEAN
    BY <1>2, <1>14, <2>2, WroteEffect DEF AssignInserts
  <2> QED
    BY <1>14, <2>3, <2>4 DEF PolType, AssignInserts
<1>15. ASSUME NEW e \in Editors, NEW p \in PolicyIDs, Unassign(e, p) PROVE PolType'
  <2>1. assigned' \in [PolicyIDs -> SUBSET Targets]
    BY <1>15 DEF Unassign, PolType
  <2>2. mixed' \in SUBSET PolicyIDs /\ disturbed' \in BOOLEAN
    BY <1>15, WroteEffect DEF Unassign
  <2> QED
    BY <1>4, <1>15, <2>1, <2>2 DEF PolType, Unassign
<1>16. CASE EvalBegins \/ EvalLoads \/ EvalAssigned \/ EvalSkips
  BY <1>16 DEF PolType, EvalBegins, EvalLoads, EvalAssigned, EvalSkips
<1>17. CASE EvalFails \/ EvalApplies
  BY <1>4, <1>17 DEF PolType, EvalFails, EvalApplies
<1> QED
  BY <1>6, <1>7, <1>8, <1>9, <1>10, <1>11, <1>12, <1>13, <1>14, <1>15, <1>16, <1>17 DEF PolNext

\* What a step of request e on p leaves of the other policies.
LEMMA OthersKept ==
    ASSUME EditInv, PolType, NEW e \in Editors, NEW p \in PolicyIDs, NEW r \in EditorRec,
           editor' = [editor EXCEPT ![e] = r],
           editor[e].pc = "free" \/ editor[e].policy = p, r.pc = "free" \/ r.policy = p,
           mixed \subseteq mixed',
           \A q \in PolicyIDs \ {p} : policy'[q] = policy[q] /\ conds'[q] = conds[q] /\ wanted'[q] = wanted[q]
    PROVE  \A q \in PolicyIDs \ {p} : Kept(q)'
<1> SUFFICES ASSUME NEW q \in PolicyIDs \ {p} PROVE Kept(q)'
  OBVIOUS
<1>1. policy'[q] = policy[q] /\ conds'[q] = conds[q] /\ wanted'[q] = wanted[q]
  OBVIOUS
<1>2. editor'[e] = r /\ \A x \in Editors \ {e} : editor'[x] = editor[x]
  BY DEF PolType
<1>3. ~WorksOn(e, q) /\ ~(r.pc # "free" /\ r.policy = q)
  BY DEF WorksOn
<1>4. \A x \in Editors : /\ WorksOn(x, q)' => x # e /\ WorksOn(x, q)
                         /\ Saves(x, q)' => x # e /\ Saves(x, q)
                         /\ Replaces(x, q)' => x # e /\ Replaces(x, q)
  BY <1>2, <1>3 DEF WorksOn, Saves, Replaces
<1>5. \A x \in Editors : Replaces(x, q) => x # e /\ Replaces(x, q)'
  BY <1>2, <1>3 DEF WorksOn, Replaces
<1>6. Settled(q) => Settled(q)'
  BY <1>1 DEF Settled
<1>7. Kept(q)
  BY DEF EditInv
<1>8. q \notin mixed' => q \notin mixed
  OBVIOUS
<1>9. policy'[q] = NoPolicy => conds'[q] = {} /\ \A x \in Editors : ~WorksOn(x, q)'
  BY <1>1, <1>4, <1>7 DEF Kept
<1>10. ASSUME NEW x \in Editors, Saves(x, q)', ~editor'[x].replace PROVE editor'[x].new.conds = editor'[x].conds
  BY <1>2, <1>4, <1>7, <1>10 DEF Kept
<1>11. q \notin mixed' /\ (\A x \in Editors : ~Replaces(x, q)') => Settled(q)'
  BY <1>5, <1>6, <1>7, <1>8 DEF Kept
<1>12. ASSUME q \notin mixed', NEW x \in Editors
       PROVE  (Replaces(x, q)' => policy'[q] = Row(editor'[x].new)) /\ (Saves(x, q)' => editor'[x].conds = conds'[q])
  BY <1>1, <1>2, <1>4, <1>7, <1>8, <1>12 DEF Kept
<1> QED
  BY <1>9, <1>10, <1>11, <1>12 DEF Kept

\* The same step leaves p itself as Kept wants it if it writes what p should be.
LEMMA Unwritten ==
    ASSUME EditInv, PolType, NEW e \in Editors, NEW p \in PolicyIDs, NEW r \in EditorRec,
           editor' = [editor EXCEPT ![e] = r], mixed \subseteq mixed',
           policy'[p] = policy[p], conds'[p] = conds[p], wanted'[p] = wanted[p], policy[p] # NoPolicy,
           p \notin mixed' => editor[e].pc # "conds",
           r.pc # "conds",
           r.pc = "save" => r.policy = p /\ r.conds = conds[p] /\ (~r.replace => r.new.conds = r.conds)
    PROVE  Kept(p)'
<1>1. editor'[e] = r /\ \A x \in Editors \ {e} : editor'[x] = editor[x]
  BY DEF PolType
<1>2. Kept(p)
  BY DEF EditInv
<1>3. Settled(p) => Settled(p)'
  BY DEF Settled
<1>4. \A x \in Editors \ {e} : (Saves(x, p)' <=> Saves(x, p)) /\ (Replaces(x, p)' <=> Replaces(x, p))
  BY <1>1 DEF Saves, Replaces
<1>5. ASSUME NEW x \in Editors, Saves(x, p)', ~editor'[x].replace PROVE editor'[x].new.conds = editor'[x].conds
  BY <1>1, <1>2, <1>4, <1>5 DEF Kept, Saves
<1>6. p \notin mixed' /\ (\A x \in Editors : ~Replaces(x, p)') => Settled(p)'
  <2>1. p \notin mixed' => ~Replaces(e, p)
    BY DEF Replaces
  <2> QED
    BY <1>2, <1>3, <1>4, <2>1 DEF Kept
<1>7. ASSUME p \notin mixed', NEW x \in Editors
      PROVE  (Replaces(x, p)' => policy'[p] = Row(editor'[x].new)) /\ (Saves(x, p)' => editor'[x].conds = conds'[p])
  <2>1. CASE x = e
    BY <1>1, <2>1 DEF Replaces, Saves
  <2>2. CASE x # e
    BY <1>1, <1>2, <1>4, <1>7, <2>2 DEF Kept
  <2> QED
    BY <2>1, <2>2
<1> QED
  BY <1>5, <1>6, <1>7 DEF Kept

\* A request e that alone writes p leaves it settled, or with its new columns and the conditions to follow.
LEMMA LoneWriter ==
    ASSUME PolType, NEW e \in Editors, NEW p \in PolicyIDs, NEW r \in EditorRec,
           editor' = [editor EXCEPT ![e] = r], policy'[p] # NoPolicy,
           \A x \in Editors \ {e} : Saves(x, p) /\ ~editor[x].replace => editor[x].new.conds = editor[x].conds,
           p \notin mixed' => \A x \in Editors \ {e} : ~WorksOn(x, p),
           p \notin mixed' => \/ r.pc = "free" /\ Settled(p)'
                              \/ r.pc = "conds" /\ r.policy = p /\ policy'[p] = Row(r.new),
           r.pc # "save"
    PROVE  Kept(p)'
<1>1. editor'[e] = r /\ \A x \in Editors \ {e} : editor'[x] = editor[x]
  BY DEF PolType
<1>2. \A x \in Editors \ {e} : (Saves(x, p)' <=> Saves(x, p)) /\ (Replaces(x, p)' <=> Replaces(x, p))
  BY <1>1 DEF Saves, Replaces
<1>3. \A x \in Editors \ {e} : ~WorksOn(x, p) => ~Saves(x, p) /\ ~Replaces(x, p)
  BY DEF WorksOn, Saves, Replaces
<1>4. ~Saves(e, p)'
  BY <1>1 DEF Saves
<1>5. \A x \in Editors : Saves(x, p)' /\ ~editor'[x].replace => editor'[x].new.conds = editor'[x].conds
  BY <1>1, <1>2, <1>4
<1>6. p \notin mixed' /\ (\A x \in Editors : ~Replaces(x, p)') => Settled(p)'
  BY <1>1 DEF Replaces
<1>7. p \notin mixed' => \A x \in Editors : /\ Replaces(x, p)' => policy'[p] = Row(editor'[x].new)
                                            /\ ~Saves(x, p)'
  <2> SUFFICES ASSUME p \notin mixed', NEW x \in Editors
               PROVE  (Replaces(x, p)' => policy'[p] = Row(editor'[x].new)) /\ ~Saves(x, p)'
    OBVIOUS
  <2>1. CASE x = e
    BY <1>1, <1>4, <2>1 DEF Replaces
  <2>2. CASE x # e
    BY <1>2, <1>3, <2>2
  <2> QED
    BY <2>1, <2>2
<1> QED
  BY <1>5, <1>6, <1>7 DEF Kept

\* A step that changes no table but the assignments.
LEMMA TablesKept ==
    ASSUME EditInv, UNCHANGED <<policy, conds, wanted, editor>>, mixed \subseteq mixed'
    PROVE  EditInv'
<1> SUFFICES ASSUME NEW p \in PolicyIDs PROVE Kept(p)'
  BY DEF EditInv
<1>1. Kept(p)
  BY DEF EditInv
<1>2. p \notin mixed' => p \notin mixed
  OBVIOUS
<1>3. \A e \in Editors : /\ WorksOn(e, p)' <=> WorksOn(e, p)
                         /\ Saves(e, p)' <=> Saves(e, p)
                         /\ Replaces(e, p)' <=> Replaces(e, p)
  BY DEF WorksOn, Saves, Replaces
<1>4. Settled(p)' <=> Settled(p)
  BY DEF Settled
<1> QED
  BY <1>1, <1>2, <1>3, <1>4 DEF Kept

LEMMA EditNext == PolType /\ EditInv /\ [PolNext]_polVars => EditInv'
<1> SUFFICES ASSUME PolType, EditInv, [PolNext]_polVars PROVE EditInv'
  OBVIOUS
<1>1. PolType'
  BY PolTypeNext
<1>2. \A p \in PolicyIDs : Kept(p)
  BY DEF EditInv
<1>3. ASSUME NEW p \in PolicyIDs, Kept(p)', \A q \in PolicyIDs \ {p} : Kept(q)' PROVE EditInv'
  BY <1>3 DEF EditInv
<1>4. Free \in EditorRec /\ Free.pc = "free"
  BY DEF EditorRec, Free
<1>5. \A e \in Editors, p \in PolicyIDs : WorksOn(e, p) => policy[p] # NoPolicy
  BY <1>2 DEF Kept
<1>6. \A e \in Editors, p \in PolicyIDs : Saves(e, p) /\ ~editor[e].replace => editor[e].new.conds = editor[e].conds
  BY <1>2 DEF Kept
<1>7. CASE UNCHANGED polVars
  BY <1>7, TablesKept DEF polVars
<1>8. ASSUME NEW e \in Editors, NEW p \in PolicyIDs, Create(e, p) PROVE EditInv'
  <2>1. PICK draft \in Drafts :
          LET d == Defaulted(draft) IN
          /\ policy' = [policy EXCEPT ![p] = Row(d)]
          /\ IF d.conds = {} THEN Ends(e) /\ Becomes(p, Stored(d))
             ELSE /\ editor' = [editor EXCEPT ![e] = [pc |-> "conds", policy |-> p, new |-> d]]
                  /\ UNCHANGED wanted
    BY <1>8 DEF Create
  <2> DEFINE d == Defaulted(draft)
             r == IF d.conds = {} THEN Free ELSE [pc |-> "conds", policy |-> p, new |-> d]
  <2>2. d \in Draft
    BY DraftsTyped
  <2>3. Row(d) # NoPolicy /\ Stored(d).row = Row(d) /\ Stored(d).conds = d.conds /\ Stored(d).live = TRUE
    BY <2>2, RowTyped
  <2>4. r \in EditorRec /\ (r.pc = "free" \/ r.policy = p) /\ r.pc # "save"
        /\ ((r.pc = "free" /\ d.conds = {}) \/ (r.pc = "conds" /\ r.policy = p /\ r.new = d))
    <3>1. CASE d.conds = {}
      <4>1. r = Free
        BY <3>1
      <4> HIDE DEF r
      <4> QED
        BY <1>4, <3>1, <4>1
    <3>2. CASE d.conds # {}
      BY <2>2, <3>2 DEF EditorRec, Replacing
    <3> QED
      BY <3>1, <3>2
  <2>5. editor' = [editor EXCEPT ![e] = r]
    BY <2>1 DEF Ends
  <2>6. policy'[p] = Row(d) /\ (\A q \in PolicyIDs \ {p} : policy'[q] = policy[q]) /\ conds' = conds
    BY <1>8, <2>1 DEF Create, PolType
  <2>7. \A q \in PolicyIDs \ {p} : wanted'[q] = wanted[q]
    BY <2>1 DEF Becomes, PolType
  <2>8. d.conds = {} => wanted'[p] = Stored(d)
    BY <2>1 DEF Becomes, PolType
  <2>9. conds[p] = {}
    BY <1>2, <1>8 DEF Kept, Create
  <2>10. d.conds = {} => Settled(p)'
    BY <2>3, <2>6, <2>8, <2>9 DEF Settled
  <2>11. mixed \subseteq mixed' /\ (p \notin mixed' => \A x \in Editors \ {e} : ~WorksOn(x, p))
    BY <1>8, WroteEffect DEF Create
  <2>12. editor[e].pc = "free"
    BY <1>4, <1>8 DEF Create
  <2> HIDE DEF d, r
  <2>13. p \notin mixed' => \/ r.pc = "free" /\ Settled(p)'
                            \/ r.pc = "conds" /\ r.policy = p /\ policy'[p] = Row(r.new)
    BY <2>4, <2>6, <2>10
  <2>14. Kept(p)'
    BY <1>6, <2>3, <2>4, <2>5, <2>6, <2>11, <2>13, LoneWriter
  <2>15. \A q \in PolicyIDs \ {p} : Kept(q)'
    BY <2>4, <2>5, <2>6, <2>7, <2>11, <2>12, OthersKept
  <2> QED
    BY <1>3, <2>14, <2>15
<1>9. ASSUME NEW e \in Editors, NEW p \in PolicyIDs, UpdatePolicyReads(e, p) PROVE EditInv'
  <2>1. PICK patch \in Patches \cup {Toggle(TRUE), Toggle(FALSE)} :
          editor' = [editor EXCEPT ![e] =
              [pc |-> "save", policy |-> p, replace |-> "conds" \in DOMAIN patch,
               new |-> Patched(patch, policy[p], conds[p]), conds |-> conds[p], assigned |-> assigned[p]]]
    BY <1>9 DEF UpdatePolicyReads
  <2> DEFINE r == [pc |-> "save", policy |-> p, replace |-> "conds" \in DOMAIN patch,
                   new |-> Patched(patch, policy[p], conds[p]), conds |-> conds[p], assigned |-> assigned[p]]
  <2>2. policy[p] \in PolicyRow /\ conds[p] \in SUBSET Conditions /\ policy[p] # NoPolicy
    BY <1>9, RowTyped DEF UpdatePolicyReads, Live, PolType
  <2>3. "conds" \notin DOMAIN patch => Patched(patch, policy[p], conds[p]).conds = conds[p]
    BY <2>2, PatchTyped
  <2>4. r.pc = "save" /\ r.policy = p /\ r.conds = conds[p] /\ (~r.replace => r.new.conds = r.conds)
    BY <2>3
  <2>5. editor' = [editor EXCEPT ![e] = r]
    BY <2>1
  <2> HIDE DEF r
  <2>6. r \in EditorRec
    BY <1>1, <2>5 DEF PolType
  <2>7. editor[e].pc = "free"
    BY <1>4, <1>9 DEF UpdatePolicyReads
  <2>8. policy' = policy /\ conds' = conds /\ wanted' = wanted /\ mixed' = mixed
    BY <1>9 DEF UpdatePolicyReads
  <2>9. Kept(p)'
    BY <2>2, <2>4, <2>5, <2>6, <2>7, <2>8, Unwritten
  <2>10. \A q \in PolicyIDs \ {p} : Kept(q)'
    BY <2>4, <2>5, <2>6, <2>7, <2>8, OthersKept
  <2> QED
    BY <1>3, <2>9, <2>10
<1>10. ASSUME NEW e \in Editors, UpdatePolicySaves(e) PROVE EditInv'
  <2>1. editor[e] \in Saving
    BY <1>10, EditorKinds DEF UpdatePolicySaves
  <2>2. PICK u \in Saving, p \in PolicyIDs : u = editor[e] /\ p = u.policy /\ u.pc = "save" /\ u.new \in Draft /\ u.replace \in BOOLEAN
    BY <2>1 DEF Saving
  <2> DEFINE r == IF u.replace THEN [pc |-> "conds", policy |-> p, new |-> u.new] ELSE Free
  <2>3. Row(u.new) # NoPolicy /\ Stored(u.new).row = Row(u.new) /\ Stored(u.new).conds = u.new.conds /\ Stored(u.new).live = TRUE
    BY <2>2, RowTyped
  <2>4. r \in EditorRec /\ (r.pc = "free" \/ r.policy = p) /\ r.pc # "save"
        /\ ((r.pc = "free" /\ ~u.replace) \/ (r.pc = "conds" /\ r.policy = p /\ r.new = u.new))
    <3>1. CASE ~u.replace
      <4>1. r = Free
        BY <3>1
      <4> HIDE DEF r
      <4> QED
        BY <1>4, <3>1, <4>1
    <3>2. CASE u.replace
      BY <2>2, <3>2 DEF EditorRec, Replacing
    <3> QED
      BY <2>2, <3>1, <3>2
  <2>5. editor' = [editor EXCEPT ![e] = r]
    BY <1>10, <2>2 DEF UpdatePolicySaves, Ends
  <2>6. policy'[p] = Row(u.new) /\ (\A q \in PolicyIDs \ {p} : policy'[q] = policy[q])
    BY <1>10, <2>2 DEF UpdatePolicySaves, PolType
  <2>7. conds'[p] = conds[p] \cup u.conds /\ (\A q \in PolicyIDs \ {p} : conds'[q] = conds[q])
    BY <1>10, <2>2 DEF UpdatePolicySaves, PolType
  <2>8. (~u.replace => wanted'[p] = Stored(u.new)) /\ (\A q \in PolicyIDs \ {p} : wanted'[q] = wanted[q])
    BY <1>10, <2>2 DEF UpdatePolicySaves, Becomes, PolType
  <2>9. mixed \subseteq mixed' /\ (p \notin mixed' => \A x \in Editors \ {e} : ~WorksOn(x, p))
    BY <1>10, <2>2, WroteEffect DEF UpdatePolicySaves
  <2>10. p \notin mixed => u.conds = conds[p]
    BY <1>2, <2>2 DEF Kept, Saves
  <2>11. ~u.replace => u.new.conds = u.conds
    BY <1>6, <2>2 DEF Saves
  <2> HIDE DEF r
  <2>12. p \notin mixed' /\ ~u.replace => Settled(p)'
    BY <2>3, <2>6, <2>7, <2>8, <2>9, <2>10, <2>11 DEF Settled
  <2>13. p \notin mixed' => \/ r.pc = "free" /\ Settled(p)'
                            \/ r.pc = "conds" /\ r.policy = p /\ policy'[p] = Row(r.new)
    BY <2>4, <2>6, <2>12
  <2>14. Kept(p)'
    BY <1>6, <2>2, <2>3, <2>4, <2>5, <2>6, <2>9, <2>13, LoneWriter
  <2>15. \A q \in PolicyIDs \ {p} : Kept(q)'
    BY <2>2, <2>4, <2>5, <2>6, <2>7, <2>8, <2>9, OthersKept
  <2> QED
    BY <1>3, <2>2, <2>14, <2>15
<1>11. ASSUME NEW e \in Editors, ConditionsReplaced(e) PROVE EditInv'
  <2>1. editor[e] \in Replacing
    BY <1>11, EditorKinds DEF ConditionsReplaced
  <2>2. PICK u \in Replacing, p \in PolicyIDs : u = editor[e] /\ p = u.policy /\ u.pc = "conds" /\ u.new \in Draft
    BY <2>1 DEF Replacing
  <2>3. Row(u.new) # NoPolicy /\ Stored(u.new).row = Row(u.new) /\ Stored(u.new).conds = u.new.conds /\ Stored(u.new).live = TRUE
    BY <2>2, RowTyped
  <2>4. editor' = [editor EXCEPT ![e] = Free] /\ policy' = policy
    BY <1>11 DEF ConditionsReplaced, Ends
  <2>5. conds'[p] = u.new.conds /\ (\A q \in PolicyIDs \ {p} : conds'[q] = conds[q])
    BY <1>11, <2>2 DEF ConditionsReplaced, ReplaceConditions, PolType
  <2>6. wanted'[p] = Stored(u.new) /\ (\A q \in PolicyIDs \ {p} : wanted'[q] = wanted[q])
    BY <1>11, <2>2 DEF ConditionsReplaced, Becomes, PolType
  <2>7. mixed \subseteq mixed' /\ (p \notin mixed' => \A x \in Editors \ {e} : ~WorksOn(x, p))
    BY <1>11, <2>2, WroteEffect DEF ConditionsReplaced
  <2>8. p \notin mixed => policy[p] = Row(u.new)
    BY <1>2, <2>2 DEF Kept, Replaces
  <2>9. policy[p] # NoPolicy
    BY <1>5, <2>2 DEF WorksOn
  <2>10. p \notin mixed' => Settled(p)'
    BY <2>3, <2>4, <2>5, <2>6, <2>7, <2>8 DEF Settled
  <2>11. Kept(p)'
    BY <1>4, <1>6, <2>2, <2>4, <2>7, <2>9, <2>10, LoneWriter
  <2>12. \A q \in PolicyIDs \ {p} : Kept(q)'
    BY <1>4, <2>2, <2>4, <2>5, <2>6, <2>7, OthersKept
  <2> QED
    BY <1>3, <2>2, <2>11, <2>12
<1>12. ASSUME NEW e \in Editors, EditFails(e) \/ AssignInserts(e) PROVE EditInv'
  <2>1. PICK p \in PolicyIDs : p = editor[e].policy /\ editor[e].pc # "free"
    BY <1>12, EditorKinds DEF EditFails, AssignInserts
  <2>2. editor' = [editor EXCEPT ![e] = Free] /\ policy' = policy /\ conds' = conds /\ wanted' = wanted
    BY <1>12 DEF EditFails, AssignInserts, Ends
  <2>3. AssignInserts(e) => mixed \subseteq mixed'
    BY <2>1, WroteEffect DEF AssignInserts
  <2>4. mixed \subseteq mixed' /\ (p \notin mixed' => editor[e].pc # "conds")
    BY <1>12, <2>1, <2>3 DEF EditFails, AssignInserts
  <2>5. policy[p] # NoPolicy
    BY <1>5, <2>1 DEF WorksOn
  <2>6. Kept(p)'
    BY <1>4, <2>1, <2>2, <2>4, <2>5, Unwritten
  <2>7. \A q \in PolicyIDs \ {p} : Kept(q)'
    BY <1>4, <2>1, <2>2, <2>4, OthersKept
  <2> QED
    BY <1>3, <2>1, <2>6, <2>7
<1>13. ASSUME NEW e \in Editors, NEW p \in PolicyIDs, DeletePolicy(e, p) PROVE EditInv'
  <2>1. policy[p] \in PolicyRow /\ editor[e] = Free
    BY <1>13, RowTyped DEF DeletePolicy, Live, PolType
  <2>2. [policy[p] EXCEPT !.live = FALSE] \in PolicyRow /\ [policy[p] EXCEPT !.live = FALSE].live = FALSE
    BY <2>1 DEF PolicyRow
  <2>3. policy'[p] = [policy[p] EXCEPT !.live = FALSE] /\ (\A q \in PolicyIDs \ {p} : policy'[q] = policy[q])
    BY <1>13 DEF DeletePolicy, PolType
  <2>4. policy'[p] # NoPolicy /\ ~policy'[p].live
    BY <2>2, <2>3, RowTyped
  <2>5. wanted'[p] = Gone /\ (\A q \in PolicyIDs \ {p} : wanted'[q] = wanted[q]) /\ conds' = conds
    BY <1>13 DEF DeletePolicy, Becomes, PolType
  <2>6. editor' = [editor EXCEPT ![e] = Free]
    BY <1>13, <2>1 DEF DeletePolicy, PolType
  <2>7. mixed \subseteq mixed' /\ (p \notin mixed' => \A x \in Editors \ {e} : ~WorksOn(x, p))
    BY <1>13, WroteEffect DEF DeletePolicy
  <2>8. Settled(p)'
    BY <2>4, <2>5, RowTyped DEF Settled
  <2>9. Kept(p)'
    BY <1>4, <1>6, <2>4, <2>6, <2>7, <2>8, LoneWriter
  <2>10. \A q \in PolicyIDs \ {p} : Kept(q)'
    BY <1>4, <2>1, <2>3, <2>5, <2>6, <2>7, OthersKept
  <2> QED
    BY <1>3, <2>9, <2>10
<1>14. ASSUME NEW e \in Editors, NEW p \in PolicyIDs, AssignReads(e, p) PROVE EditInv'
  <2>1. PICK t \in Targets : editor' = [editor EXCEPT ![e] = [pc |-> "assign", policy |-> p, target |-> t]]
    BY <1>14 DEF AssignReads
  <2> DEFINE r == [pc |-> "assign", policy |-> p, target |-> t]
  <2>2. r \in EditorRec /\ r.pc = "assign" /\ r.policy = p
    BY DEF EditorRec, Linking
  <2>3. policy[p] # NoPolicy /\ editor[e].pc = "free"
    BY <1>4, <1>14, RowTyped DEF AssignReads, Live
  <2>4. policy' = policy /\ conds' = conds /\ wanted' = wanted /\ mixed' = mixed
    BY <1>14 DEF AssignReads
  <2>5. editor' = [editor EXCEPT ![e] = r]
    BY <2>1
  <2> HIDE DEF r
  <2>6. Kept(p)'
    BY <2>2, <2>3, <2>4, <2>5, Unwritten
  <2>7. \A q \in PolicyIDs \ {p} : Kept(q)'
    BY <2>2, <2>3, <2>4, <2>5, OthersKept
  <2> QED
    BY <1>3, <2>6, <2>7
<1>15. ASSUME NEW e \in Editors, NEW p \in PolicyIDs, Unassign(e, p) PROVE EditInv'
  <2>1. mixed \subseteq mixed'
    BY <1>15, WroteEffect DEF Unassign
  <2> QED
    BY <1>15, <2>1, TablesKept DEF Unassign
<1>16. CASE EvalBegins \/ EvalLoads \/ EvalAssigned \/ EvalFails \/ EvalSkips \/ EvalApplies
  <2>1. UNCHANGED <<policy, conds, wanted, editor>> /\ mixed \subseteq mixed'
    BY <1>16 DEF EvalBegins, EvalLoads, EvalAssigned, EvalFails, EvalSkips, EvalApplies
  <2> QED
    BY <2>1, TablesKept
<1> QED
  BY <1>7, <1>8, <1>9, <1>10, <1>11, <1>12, <1>13, <1>14, <1>15, <1>16 DEF PolNext

\* The tables and the requests under way keep their type whatever interleaving of requests and evaluations.
THEOREM PolTypeCorrect == PolSpec => []PolType
<1>1. PolInit => PolType
  BY PolInitial
<1> QED
  BY <1>1, PolTypeNext, PTL DEF PolSpec

\* Requests on a policy that do not overlap leave what they were asked for, although each writes the row and
\* the conditions in separate statements and Save writes back whatever was loaded before.
THEOREM LoneEditorKeepsCorrect == PolSpec => []LoneEditorKeeps
<1>1. PolType /\ EditInv => LoneEditorKeeps
  <2> SUFFICES ASSUME PolType, EditInv, NEW p \in PolicyIDs \ mixed, \A e \in Editors : p \notin On(e)
               PROVE  Settled(p)
    BY DEF LoneEditorKeeps, Settled
  <2>1. \A e \in Editors : ~Replaces(e, p)
    BY EditorKinds DEF WorksOn, Replaces
  <2> QED
    BY <2>1 DEF EditInv, Kept
<1> QED
  BY <1>1, PolInitial, PolTypeNext, EditNext, PTL DEF PolSpec

----------------------------------------------------------------------------
(* Policies: the evaluation *)

RowsRead    == UNION {[ps -> {NoPolicy} \cup PolicyRow] : ps \in SUBSET PolicyIDs}
EvalListed  == [pc : {"conds"}, req : Evaluations, list : Seq(PolicyIDs), rows : RowsRead]
EvalLoaded  == [pc : {"assigned"}, req : Evaluations, list : Seq(PolicyIDs), rows : RowsRead,
                conds : [PolicyIDs -> SUBSET Conditions]]
EvalLooping == [pc : {"loop"}, req : Evaluations, list : Seq(PolicyIDs), rows : RowsRead,
                conds : [PolicyIDs -> SUBSET Conditions], i : Nat \ {0}, mine : SUBSET PolicyIDs]

Enabled == {p \in Live : policy[p].enabled}

\* What an evaluation that nothing disturbed has loaded is in the tables, and no policy before the one it looks
\* at matches.
Current == /\ eval.list \in ListEnabled
           /\ \A k \in 1..Len(eval.list) : eval.rows[eval.list[k]] = policy[eval.list[k]]
           /\ eval.pc \in {"assigned", "loop"} => eval.conds = conds
           /\ eval.pc = "loop" => /\ eval.mine = {p \in PolicyIDs : AssignedTo(assigned[p], eval.req)}
                                  /\ \A p \in PolicyIDs, k \in 1..Len(eval.list) : eval.list[k] = p /\ k < eval.i => ~Matched(p)

\* Decision d is the one FirstMatchDecides asks for on the tables as they are.
Right(d) == LET apply == Applying(d.req)
                first == {p \in apply : \A q \in apply : policy[p].prio <= policy[q].prio}
            IN  IF apply = {} THEN d.by = {} /\ d.allowed /\ d.violation = "none"
                ELSE \E p \in first :
                        /\ d.by = {p} /\ d.effect = policy[p].effect
                        /\ d.allowed <=> \/ d.effect \in {"allow", "require_snapshot"}
                                         \/ d.effect = "require_justification" /\ d.req.justified
                        /\ d.violation # "none" <=> \/ d.effect \in {"deny", "require_approval"}
                                                    \/ d.effect = "require_justification" /\ d.allowed

\* An evaluation under way has decided nothing, and what it has loaded is current unless it was disturbed.
EvalInv == /\ eval \in {NoEval} \cup EvalListed \cup EvalLoaded \cup EvalLooping
           /\ eval # NoEval => decision = NoDecision
           /\ eval # NoEval /\ ~disturbed => Current

LEMMA EvalKinds ==
    ASSUME EvalInv
    PROVE  /\ eval.pc = "conds" => eval \in EvalListed
           /\ eval.pc = "assigned" => eval \in EvalLoaded
           /\ eval.pc = "loop" => eval \in EvalLooping
           /\ eval = NoEval <=> eval.pc = "none"
           /\ eval # NoEval => eval.list \in Seq(PolicyIDs)
<1>1. NoEval.pc = "none"
  BY DEF NoEval
<1>2. /\ eval.pc = "conds" => eval \in EvalListed
      /\ eval.pc = "assigned" => eval \in EvalLoaded
      /\ eval.pc = "loop" => eval \in EvalLooping
      /\ eval = NoEval <=> eval.pc = "none"
  BY <1>1 DEF EvalInv, EvalListed, EvalLoaded, EvalLooping
<1>3. eval # NoEval => eval.list \in Seq(PolicyIDs)
  BY DEF EvalInv, EvalListed, EvalLoaded, EvalLooping
<1> QED
  BY <1>2, <1>3

\* A list of the database has every enabled policy, by priority: it is injective and as long as they are many.
LEMMA ListCovers ==
    ASSUME PolType, NEW s \in ListEnabled
    PROVE  /\ s \in Seq(PolicyIDs)
           /\ \A k \in 1..Len(s) : s[k] \in Enabled
           /\ \A q \in Enabled : \E k \in 1..Len(s) : s[k] = q
           /\ \A j, k \in 1..Len(s) : j <= k => policy[s[j]].prio <= policy[s[k]].prio
<1> DEFINE n == Cardinality(Enabled)
<1>1. Enabled \in SUBSET PolicyIDs
  BY DEF Enabled, Live
<1>2. IsFiniteSet(Enabled)
  BY <1>1, PolicyAssumption, FS_Subset
<1>3. n \in Nat
  BY <1>2, FS_CardinalityType
<1>4. /\ s \in [1..n -> Enabled]
      /\ \A i, j \in DOMAIN s : i < j => s[i] # s[j] /\ policy[s[i]].prio <= policy[s[j]].prio
  BY DEF ListEnabled, Enabled
<1> HIDE DEF n
<1>5. DOMAIN s = 1..n /\ s \in Seq(PolicyIDs) /\ Len(s) = n
  BY <1>1, <1>3, <1>4
<1>6. \A i, j \in 1..n : i # j => s[i] # s[j]
  <2> SUFFICES ASSUME NEW i \in 1..n, NEW j \in 1..n, i # j PROVE s[i] # s[j]
    OBVIOUS
  <2>1. i < j \/ j < i
    BY <1>3
  <2> QED
    BY <1>4, <1>5, <2>1
<1>7. s \in Injection(1..n, Enabled)
  BY <1>4, <1>6 DEF Injection, IsInjective
<1>8. IsFiniteSet(1..n) /\ Cardinality(1..n) = n
  <2>1. IsFiniteSet(1..n) /\ Cardinality(1..n) = IF 1 > n THEN 0 ELSE n - 1 + 1
    BY <1>3, FS_Interval
  <2> QED
    BY <1>3, <2>1
<1>9. s \in Surjection(1..n, Enabled)
  BY <1>2, <1>7, <1>8, FS_Injection DEF n
<1>10. \A q \in Enabled : \E k \in 1..n : s[k] = q
  BY <1>9 DEF Surjection
<1>11. \A p \in Enabled : policy[p].prio \in Int
  <2>1. \A p \in Enabled : policy[p] \in PolicyRow
    BY RowTyped DEF Enabled, Live, PolType
  <2> QED
    BY <2>1 DEF PolicyRow
<1>12. ASSUME NEW j \in 1..n, NEW k \in 1..n, j <= k PROVE policy[s[j]].prio <= policy[s[k]].prio
  <2>1. CASE j = k
    BY <1>4, <1>11, <2>1
  <2>2. CASE j # k
    <3>1. j < k
      BY <1>3, <1>12, <2>2
    <3> QED
      BY <1>4, <1>5, <3>1
  <2> QED
    BY <2>1, <2>2
<1> QED
  BY <1>4, <1>5, <1>10, <1>12

\* On current data the engine's test of a listed policy is the specification's.
LEMMA MatchedApplies ==
    ASSUME PolType, EvalInv, ~disturbed, eval.pc = "loop", NEW p \in Enabled, eval.rows[p] = policy[p]
    PROVE  Matched(p) <=> p \in Applying(eval.req)
<1>1. eval \in EvalLooping /\ Current
  BY EvalKinds DEF EvalInv
<1>2. eval.conds = conds /\ eval.mine = {q \in PolicyIDs : AssignedTo(assigned[q], eval.req)}
  BY <1>1 DEF Current
<1>3. p \in PolicyIDs /\ p \in Live /\ policy[p].enabled
  BY DEF Enabled, Live
<1>4. p \in eval.mine <=> assigned[p] \cap (eval.req.targets \cup {"global"}) # {}
  BY <1>2, <1>3 DEF AssignedTo
<1>5. ASSUME NEW c \in conds[p]
      PROVE  evaluateCondition(c, eval.req) # c.negate <=>
             IF c.negate THEN ~evaluateCondition(c, eval.req) ELSE evaluateCondition(c, eval.req)
  <2>1. evaluateCondition(c, eval.req) \in BOOLEAN
    BY DEF evaluateCondition
  <2>2. c.negate \in BOOLEAN
    BY <1>3 DEF PolType, Conditions
  <2> QED
    BY <2>1, <2>2, Zenon
<1>6. evaluateConditions(eval.conds[p], eval.req) <=>
      \A c \in conds[p] : IF c.negate THEN ~evaluateCondition(c, eval.req) ELSE evaluateCondition(c, eval.req)
  BY <1>2, <1>5 DEF evaluateConditions
<1> QED
  BY <1>3, <1>4, <1>6 DEF Matched, Applying

\* The specification's terms depend on the tables only.
LEMMA TablesDecide ==
    ASSUME UNCHANGED <<policy, conds, assigned>>
    PROVE  /\ ListEnabled' = ListEnabled /\ Enabled' = Enabled
           /\ \A r : Applying(r)' = Applying(r)
           /\ \A d : Right(d)' <=> Right(d)
<1>1. Live' = Live
  BY DEF Live
<1>2. ListEnabled' = ListEnabled /\ Enabled' = Enabled
  BY <1>1 DEF ListEnabled, Enabled
<1>3. \A r : Applying(r)' = Applying(r)
  BY <1>1 DEF Applying
<1>4. \A d : Right(d)' <=> Right(d)
  BY <1>3 DEF Right
<1> QED
  BY <1>2, <1>3, <1>4

LEMMA DecisionRight == FirstMatchDecides <=> (decision # NoDecision /\ ~disturbed => Right(decision))
BY DEF FirstMatchDecides, Right

\* Nothing enabled applies: all is allowed.
LEMMA NothingApplies ==
    ASSUME NEW req, Applying(req) = {} PROVE Right(Decision("none", TRUE, req))
<1>1. /\ Decision("none", TRUE, req).req = req /\ Decision("none", TRUE, req).by = {}
      /\ Decision("none", TRUE, req).allowed = TRUE /\ Decision("none", TRUE, req).violation = "none"
  BY DEF Decision
<1> QED
  BY <1>1 DEF Right

\* A first applying policy decides as its effect says.
LEMMA FirstApplies ==
    ASSUME PolType, NEW req, NEW made, NEW p \in Applying(req),
           \A q \in Applying(req) : policy[p].prio <= policy[q].prio
    PROVE  Right(applyEffect(p, policy[p], req, made))
<1> DEFINE d == applyEffect(p, policy[p], req, made)
<1>1. d.req = req /\ d.by = {p} /\ d.effect = policy[p].effect
  BY DEF applyEffect
<1>2. d.allowed <=> \/ policy[p].effect \in {"allow", "require_snapshot"}
                    \/ policy[p].effect = "require_justification" /\ req.justified
  BY DEF applyEffect
<1>3. d.violation = CASE policy[p].effect = "deny" -> "blocked"
                      [] policy[p].effect = "require_approval" -> "pending_approval"
                      [] policy[p].effect = "require_justification" /\ req.justified -> "overridden"
                      [] OTHER -> "none"
  BY DEF applyEffect
<1> HIDE DEF d
<1>4. d.violation # "none" <=> \/ d.effect \in {"deny", "require_approval"}
                               \/ d.effect = "require_justification" /\ req.justified
  BY <1>1, <1>3
<1>5. d.violation # "none" <=> \/ d.effect \in {"deny", "require_approval"}
                               \/ d.effect = "require_justification" /\ d.allowed
  BY <1>1, <1>2, <1>4
<1>6. Applying(d.req) # {} /\ p \in {x \in Applying(d.req) : \A q \in Applying(d.req) : policy[x].prio <= policy[q].prio}
  BY <1>1
<1>7. Right(d)
  BY <1>1, <1>2, <1>5, <1>6 DEF Right
<1> QED
  BY <1>7 DEF d

LEMMA EvalInitial == PolInit => EvalInv /\ FirstMatchDecides
BY DEF PolInit, EvalInv, FirstMatchDecides

\* A request that changes a table disturbs the evaluation; the other steps of requests leave all it depends on.
LEMMA EvalApart ==
    ASSUME PolType, EvalInv, FirstMatchDecides, eval' = eval, decision' = decision,
           \/ ~disturbed' => eval = NoEval /\ decision = NoDecision
           \/ UNCHANGED <<policy, conds, assigned, disturbed>>
    PROVE  EvalInv' /\ FirstMatchDecides'
<1>1. CASE ~disturbed' => eval = NoEval /\ decision = NoDecision
  BY <1>1 DEF EvalInv, FirstMatchDecides
<1>2. CASE UNCHANGED <<policy, conds, assigned, disturbed>>
  <2>1. ListEnabled' = ListEnabled /\ \A d : Right(d)' <=> Right(d)
    BY <1>2, TablesDecide
  <2>2. \A p : Matched(p)' <=> Matched(p)
    BY DEF Matched
  <2>3. Current' <=> Current
    BY <1>2, <2>1, <2>2 DEF Current
  <2>4. EvalInv'
    BY <1>2, <2>3 DEF EvalInv
  <2>5. PICK d : d = decision
    OBVIOUS
  <2>6. decision # NoDecision /\ ~disturbed => Right(d)
    BY <2>5, DecisionRight
  <2>7. (decision # NoDecision /\ ~disturbed)' => Right(d)'
    BY <1>2, <2>1, <2>6
  <2>8. d = decision'
    BY <2>5
  <2>9. FirstMatchDecides'
    BY <2>7, <2>8 DEF FirstMatchDecides, Right
  <2> QED
    BY <2>4, <2>9
<1> QED
  BY <1>1, <1>2

\* An evaluation that ends with d keeps what it owes if d is right unless it was disturbed.
LEMMA Judged ==
    ASSUME EvalInv, NEW d, Decides(d), UNCHANGED <<policy, conds, assigned>>, ~disturbed' => Right(d)
    PROVE  EvalInv' /\ FirstMatchDecides'
<1>1. decision' = d /\ eval' = NoEval
  BY DEF Decides
<1>2. EvalInv'
  BY <1>1 DEF EvalInv
<1>3. ~disturbed' => Right(d)'
  BY TablesDecide
<1>4. FirstMatchDecides'
  BY <1>1, <1>3 DEF FirstMatchDecides, Right
<1> QED
  BY <1>2, <1>4

LEMMA EvalNext == PolType /\ EvalInv /\ FirstMatchDecides /\ [PolNext]_polVars => EvalInv' /\ FirstMatchDecides'
<1> SUFFICES ASSUME PolType, EvalInv, FirstMatchDecides, [PolNext]_polVars PROVE EvalInv' /\ FirstMatchDecides'
  OBVIOUS
<1>1. CASE UNCHANGED polVars
  BY <1>1, EvalApart DEF polVars
<1>2. ASSUME NEW e \in Editors, NEW p \in PolicyIDs, Create(e, p) \/ DeletePolicy(e, p) \/ Unassign(e, p)
      PROVE  EvalInv' /\ FirstMatchDecides'
  <2>1. Wrote(p, e) /\ eval' = eval /\ decision' = decision
    BY <1>2 DEF Create, DeletePolicy, Unassign
  <2>2. ~disturbed' => eval = NoEval /\ decision = NoDecision
    BY <2>1, WroteEffect
  <2> QED
    BY <2>1, <2>2, EvalApart
<1>3. ASSUME NEW e \in Editors, UpdatePolicySaves(e) \/ ConditionsReplaced(e) \/ AssignInserts(e)
      PROVE  EvalInv' /\ FirstMatchDecides'
  <2>1. Wrote(editor[e].policy, e) /\ eval' = eval /\ decision' = decision
    BY <1>3 DEF UpdatePolicySaves, ConditionsReplaced, AssignInserts
  <2>2. PICK p \in PolicyIDs : p = editor[e].policy
    BY <1>3, EditorKinds DEF UpdatePolicySaves, ConditionsReplaced, AssignInserts
  <2>3. ~disturbed' => eval = NoEval /\ decision = NoDecision
    BY <2>1, <2>2, WroteEffect
  <2> QED
    BY <2>1, <2>3, EvalApart
<1>4. ASSUME NEW e \in Editors, NEW p \in PolicyIDs, UpdatePolicyReads(e, p) \/ AssignReads(e, p)
      PROVE  EvalInv' /\ FirstMatchDecides'
  <2>1. UNCHANGED <<policy, conds, assigned, disturbed>> /\ eval' = eval /\ decision' = decision
    BY <1>4 DEF UpdatePolicyReads, AssignReads, EditFails
  <2> QED
    BY <2>1, EvalApart
<1>5. ASSUME NEW e \in Editors, EditFails(e) PROVE EvalInv' /\ FirstMatchDecides'
  <2>1. UNCHANGED <<policy, conds, assigned, disturbed>> /\ eval' = eval /\ decision' = decision
    BY <1>5 DEF EditFails
  <2> QED
    BY <2>1, EvalApart
<1>6. CASE EvalBegins
  <2>1. PICK req \in Evaluations, list \in ListEnabled :
            eval' = [pc |-> "conds", req |-> req, list |-> list,
                     rows |-> [p \in {list[i] : i \in DOMAIN list} |-> policy[p]]]
    BY <1>6 DEF EvalBegins
  <2>2. list \in Seq(PolicyIDs) /\ DOMAIN list = 1..Len(list) /\ \A k \in 1..Len(list) : list[k] \in PolicyIDs
    BY ListCovers
  <2>3. [p \in {list[i] : i \in DOMAIN list} |-> policy[p]] \in RowsRead
    <3> DEFINE ps == {list[i] : i \in DOMAIN list}
    <3>1. ps \in SUBSET PolicyIDs
      BY <2>2
    <3>2. [p \in ps |-> policy[p]] \in [ps -> {NoPolicy} \cup PolicyRow]
      BY <3>1 DEF PolType
    <3> QED
      BY <3>1, <3>2 DEF RowsRead
  <2>4. eval' \in EvalListed /\ eval'.list = list /\ eval'.pc = "conds"
    BY <2>1, <2>2, <2>3 DEF EvalListed
  <2>5. \A k \in 1..Len(list) : eval'.rows[list[k]] = policy[list[k]]
    BY <2>1, <2>2
  <2>6. UNCHANGED <<policy, conds, assigned>> /\ decision' = NoDecision
    BY <1>6 DEF EvalBegins
  <2>7. ListEnabled' = ListEnabled
    BY <2>6, TablesDecide
  <2>8. Current'
    BY <2>4, <2>5, <2>6, <2>7 DEF Current
  <2>9. EvalInv'
    BY <2>4, <2>6, <2>8 DEF EvalInv
  <2>10. FirstMatchDecides'
    BY <2>6 DEF FirstMatchDecides
  <2> QED
    BY <2>9, <2>10
<1>7. CASE EvalLoads
  <2>1. eval \in EvalListed /\ eval # NoEval
    BY <1>7, EvalKinds DEF EvalLoads, NoEval
  <2>2. UNCHANGED <<policy, conds, assigned, disturbed>>
    BY <1>7 DEF EvalLoads
  <2>3. CASE eval.list = << >>
    <3>1. ~disturbed => Applying(eval.req) = {}
      <4> SUFFICES ASSUME ~disturbed, NEW p \in Applying(eval.req) PROVE FALSE
        OBVIOUS
      <4>1. eval.list \in ListEnabled
        BY <2>1 DEF EvalInv, Current
      <4>2. p \in Enabled
        BY DEF Applying, Enabled, Live
      <4>3. \E k \in 1..Len(eval.list) : eval.list[k] = p
        BY <4>1, <4>2, ListCovers
      <4> QED
        BY <2>3, <4>3
    <3>2. ~disturbed' => Right(Decision("none", TRUE, eval.req))
      BY <2>2, <3>1, NothingApplies
    <3>3. PICK d : d = Decision("none", TRUE, eval.req)
      OBVIOUS
    <3>4. Decides(d) /\ (~disturbed' => Right(d))
      BY <1>7, <2>3, <3>2, <3>3 DEF EvalLoads, Decides
    <3> QED
      BY <2>2, <3>4, Judged
  <2>4. CASE eval.list # << >>
    <3>1. /\ eval' = [pc |-> "assigned", req |-> eval.req, list |-> eval.list, rows |-> eval.rows, conds |-> conds]
          /\ decision' = decision
      BY <1>7, <2>4 DEF EvalLoads
    <3>2. eval' \in EvalLoaded
      BY <2>1, <3>1 DEF EvalListed, EvalLoaded, PolType
    <3>3. eval'.pc = "assigned" /\ eval'.list = eval.list /\ eval'.rows = eval.rows /\ eval'.conds = conds
      BY <3>1
    <3>4. ~disturbed => Current'
      BY <2>1, <2>2, <3>3, TablesDecide DEF EvalInv, Current
    <3>5. decision' = NoDecision
      BY <2>1, <3>1 DEF EvalInv
    <3>6. EvalInv'
      BY <2>2, <3>2, <3>4, <3>5 DEF EvalInv
    <3> QED
      BY <3>5, <3>6 DEF FirstMatchDecides
  <2> QED
    BY <2>3, <2>4
<1>8. CASE EvalAssigned
  <2>1. eval \in EvalLoaded /\ eval # NoEval
    BY <1>8, EvalKinds DEF EvalAssigned, NoEval
  <2>2. UNCHANGED <<policy, conds, assigned, disturbed, decision>>
    BY <1>8 DEF EvalAssigned
  <2>3. eval' = [pc |-> "loop", req |-> eval.req, list |-> eval.list, rows |-> eval.rows, conds |-> eval.conds,
                 i |-> 1, mine |-> {p \in PolicyIDs : AssignedTo(assigned[p], eval.req)}]
    BY <1>8 DEF EvalAssigned
  <2>4. eval' \in EvalLooping
    BY <2>1, <2>3 DEF EvalLoaded, EvalLooping
  <2>5. eval'.pc = "loop" /\ eval'.req = eval.req /\ eval'.list = eval.list /\ eval'.rows = eval.rows /\ eval'.conds = eval.conds
        /\ eval'.i = 1 /\ eval'.mine = {p \in PolicyIDs : AssignedTo(assigned[p], eval.req)}
    BY <2>3
  <2>6. \A k \in 1..Len(eval.list) : ~(k < 1)
    BY <2>1, EvalKinds
  <2>7. ~disturbed => eval.list \in ListEnabled' /\ eval.conds = conds /\ eval.pc = "assigned"
                      /\ \A k \in 1..Len(eval.list) : eval.rows[eval.list[k]] = policy[eval.list[k]]
    BY <2>1, <2>2, TablesDecide DEF EvalInv, Current, EvalLoaded
  <2>8. ~disturbed => Current'
    BY <2>2, <2>5, <2>6, <2>7 DEF Current
  <2>9. decision' = NoDecision
    BY <2>1, <2>2 DEF EvalInv
  <2>10. EvalInv'
    BY <2>2, <2>4, <2>8, <2>9 DEF EvalInv
  <2> QED
    BY <2>9, <2>10 DEF FirstMatchDecides
<1>9. CASE EvalFails
  <2>1. PICK d : d = Decision("unavailable", TRUE, eval.req)
    OBVIOUS
  <2>2. Decides(d) /\ UNCHANGED <<policy, conds, assigned>> /\ disturbed' = TRUE
    BY <1>9, <2>1 DEF EvalFails, Decides
  <2> QED
    BY <2>2, Judged
<1>10. ASSUME eval.pc = "loop", eval.i <= Len(eval.list)
       PROVE  /\ eval \in EvalLooping /\ eval # NoEval /\ eval.list \in Seq(PolicyIDs) /\ Len(eval.list) \in Nat
              /\ eval.i \in 1..Len(eval.list)
              /\ ~disturbed => Current
  <2>1. eval \in EvalLooping /\ eval # NoEval
    BY <1>10, EvalKinds DEF NoEval
  <2>2. eval.i \in Nat \ {0} /\ eval.list \in Seq(PolicyIDs)
    BY <2>1 DEF EvalLooping
  <2>3. ~disturbed => Current
    BY <2>1 DEF EvalInv
  <2> QED
    BY <1>10, <2>1, <2>2, <2>3
<1>11. ASSUME eval.pc = "loop", eval.i <= Len(eval.list), ~disturbed
       PROVE  /\ \A k \in 1..Len(eval.list) : eval.list[k] \in PolicyIDs /\ (Matched(eval.list[k]) <=> eval.list[k] \in Applying(eval.req))
              /\ \A q \in Applying(eval.req) : \E k \in 1..Len(eval.list) : eval.list[k] = q
  <2>1. Current /\ eval.list \in ListEnabled
    BY <1>10, <1>11 DEF Current
  <2>2. \A k \in 1..Len(eval.list) : eval.list[k] \in Enabled /\ eval.rows[eval.list[k]] = policy[eval.list[k]]
    BY <2>1, ListCovers DEF Current
  <2>3. \A k \in 1..Len(eval.list) : eval.list[k] \in PolicyIDs /\ (Matched(eval.list[k]) <=> eval.list[k] \in Applying(eval.req))
    <3> SUFFICES ASSUME NEW k \in 1..Len(eval.list)
                 PROVE  eval.list[k] \in PolicyIDs /\ (Matched(eval.list[k]) <=> eval.list[k] \in Applying(eval.req))
      OBVIOUS
    <3>1. PICK p \in Enabled : p = eval.list[k] /\ eval.rows[p] = policy[p]
      BY <2>2
    <3>2. Matched(p) <=> p \in Applying(eval.req)
      BY <1>11, <3>1, MatchedApplies
    <3> QED
      BY <3>1, <3>2 DEF Enabled, Live
  <2>4. \A q \in Applying(eval.req) : q \in Enabled
    BY DEF Applying, Enabled, Live
  <2>5. \A q \in Applying(eval.req) : \E k \in 1..Len(eval.list) : eval.list[k] = q
    BY <2>1, <2>4, ListCovers
  <2> QED
    BY <2>3, <2>5
<1>12. CASE EvalSkips
  <2>1. eval.pc = "loop" /\ eval.i <= Len(eval.list) /\ ~Matched(eval.list[eval.i]) /\ UNCHANGED <<policy, conds, assigned, disturbed>>
    BY <1>12 DEF EvalSkips
  <2>2. /\ eval \in EvalLooping /\ eval # NoEval /\ eval.list \in Seq(PolicyIDs) /\ Len(eval.list) \in Nat
        /\ eval.i \in 1..Len(eval.list)
        /\ ~disturbed => Current
    BY <1>10, <2>1
  <2>3. ~disturbed => \A k \in 1..Len(eval.list) : k <= eval.i => ~Matched(eval.list[k])
    <3> SUFFICES ASSUME ~disturbed, NEW k \in 1..Len(eval.list), k <= eval.i PROVE ~Matched(eval.list[k])
      OBVIOUS
    <3>1. CASE k = eval.i
      BY <2>1, <3>1
    <3>2. CASE k < eval.i
      <4>1. PICK p \in PolicyIDs : p = eval.list[k]
        BY <2>2
      <4>2. ~Matched(p)
        BY <2>1, <2>2, <3>2, <4>1 DEF Current
      <4> QED
        BY <4>1, <4>2
    <3> QED
      BY <2>2, <3>1, <3>2
  <2>4. CASE eval.i = Len(eval.list)
    <3>1. ~disturbed => Applying(eval.req) = {}
      <4> SUFFICES ASSUME ~disturbed, NEW q \in Applying(eval.req) PROVE FALSE
        OBVIOUS
      <4>1. PICK k \in 1..Len(eval.list) : eval.list[k] = q
        BY <1>11, <2>1
      <4>2. Matched(eval.list[k])
        BY <1>11, <2>1, <4>1
      <4>3. k <= eval.i
        BY <2>2, <2>4
      <4> QED
        BY <2>3, <4>2, <4>3
    <3>2. ~disturbed' => Right(Decision("none", TRUE, eval.req))
      BY <2>1, <3>1, NothingApplies
    <3>3. PICK d : d = Decision("none", TRUE, eval.req)
      OBVIOUS
    <3>4. Decides(d) /\ (~disturbed' => Right(d))
      BY <1>12, <2>4, <3>2, <3>3 DEF EvalSkips, Decides
    <3> QED
      BY <2>1, <3>4, Judged
  <2>5. CASE eval.i # Len(eval.list)
    <3>1. eval' = [eval EXCEPT !.i = eval.i + 1] /\ decision' = decision
      BY <1>12, <2>2, <2>5 DEF EvalSkips, EvalLooping
    <3>2. eval.i \in Nat \ {0} /\ eval.i + 1 \in Nat \ {0}
      BY <2>2
    <3>3. eval' \in EvalLooping /\ eval'.i = eval.i + 1
      BY <2>2, <3>1, <3>2 DEF EvalLooping
    <3>4. eval'.pc = eval.pc /\ eval'.req = eval.req /\ eval'.list = eval.list /\ eval'.rows = eval.rows /\ eval'.conds = eval.conds
          /\ eval'.mine = eval.mine
      BY <2>2, <3>1 DEF EvalLooping
    <3>5. \A p : Matched(p)' <=> Matched(p)
      BY <3>4 DEF Matched
    <3>6. ~disturbed => \A p \in PolicyIDs, k \in 1..Len(eval.list) : eval.list[k] = p /\ k < eval.i + 1 => ~Matched(p)
      BY <2>2, <2>3
    <3>7. ~disturbed => eval.list \in ListEnabled' /\ eval.conds = conds
                      /\ (\A k \in 1..Len(eval.list) : eval.rows[eval.list[k]] = policy[eval.list[k]])
                      /\ eval.mine = {p \in PolicyIDs : AssignedTo(assigned[p], eval.req)}
      BY <2>1, <2>2, TablesDecide DEF Current
    <3>8. ~disturbed => Current'
      BY <2>1, <3>3, <3>4, <3>5, <3>6, <3>7 DEF Current
    <3>9. decision' = NoDecision
      BY <2>2, <3>1 DEF EvalInv
    <3>10. EvalInv'
      BY <2>1, <3>3, <3>8, <3>9 DEF EvalInv
    <3> QED
      BY <3>9, <3>10 DEF FirstMatchDecides
  <2> QED
    BY <2>4, <2>5
<1>13. CASE EvalApplies
  <2>1. eval.pc = "loop" /\ eval.i <= Len(eval.list) /\ Matched(eval.list[eval.i]) /\ UNCHANGED <<policy, conds, assigned, disturbed>>
    BY <1>13 DEF EvalApplies
  <2>2. /\ eval.list \in Seq(PolicyIDs) /\ Len(eval.list) \in Nat /\ eval.i \in 1..Len(eval.list)
        /\ ~disturbed => Current
    BY <1>10, <2>1
  <2>3. PICK p : p = eval.list[eval.i]
    OBVIOUS
  <2>4. PICK made \in BOOLEAN : Decides(applyEffect(p, eval.rows[p], eval.req, made))
    BY <1>13, <2>3 DEF EvalApplies
  <2>5. ~disturbed => p \in Applying(eval.req) /\ eval.rows[p] = policy[p]
    BY <1>11, <2>1, <2>2, <2>3 DEF Current
  <2>6. ASSUME ~disturbed, NEW q \in Applying(eval.req) PROVE policy[p].prio <= policy[q].prio
    <3>1. PICK k \in 1..Len(eval.list) : eval.list[k] = q
      BY <1>11, <2>1, <2>6
    <3>2. Matched(q)
      BY <1>11, <2>1, <2>6, <3>1
    <3>3. ~(k < eval.i)
      BY <1>11, <2>1, <2>2, <2>6, <3>1, <3>2 DEF Current
    <3>4. eval.i <= k
      BY <2>2, <3>3
    <3>5. eval.list \in ListEnabled
      BY <2>2, <2>6 DEF Current
    <3> QED
      BY <2>2, <2>3, <3>1, <3>4, <3>5, ListCovers
  <2>7. ~disturbed => Right(applyEffect(p, policy[p], eval.req, made))
    BY <2>5, <2>6, FirstApplies
  <2>8. PICK d : d = applyEffect(p, eval.rows[p], eval.req, made)
    OBVIOUS
  <2>9. Decides(d) /\ (~disturbed' => Right(d))
    BY <2>1, <2>4, <2>5, <2>7, <2>8 DEF Decides
  <2> QED
    BY <2>1, <2>9, Judged
<1> QED
  BY <1>1, <1>2, <1>3, <1>4, <1>5, <1>6, <1>7, <1>8, <1>9, <1>12, <1>13 DEF PolNext

\* An evaluation that no request disturbed is decided by the first policy, by priority, that is enabled, live,
\* assigned and matches, as its effect says; without such a policy everything is allowed.  The engine reads
\* policies, conditions and assignments in three statements.
THEOREM FirstMatchDecidesCorrect == PolSpec => []FirstMatchDecides
<1>1. PolInit => PolType /\ EvalInv /\ FirstMatchDecides
  BY PolInitial, EvalInitial
<1> QED
  BY <1>1, PolTypeNext, EvalNext, PTL DEF PolSpec

=============================================================================
