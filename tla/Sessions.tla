---- MODULE Sessions ----
(***************************************************************************)
(* Refresh-token sessions (app/modules/auth/service.py): a login starts a  *)
(* family of sessions, a refresh revokes the session of the presented      *)
(* token and inserts its replacement, and a token that is presented after  *)
(* it was revoked revokes what is active in its family.                    *)
(*                                                                         *)
(* A request locks the row of its token (FOR UPDATE) and reads it; the     *)
(* rest of its transaction is a second step, or two for the revocation of  *)
(* a family, whose UPDATE looks for its rows first (its snapshot) and then *)
(* waits for them. READ COMMITTED looks again at a row it waited for and   *)
(* never at a row that was inserted meanwhile.                             *)
(*                                                                         *)
(* Anybody may present any token at any time, as often as they like: an    *)
(* answer may be lost, a token stolen.                                     *)
(*                                                                         *)
(* AnyRow, OnlyReplacement and WholeFamily are mutants of the definitions  *)
(* they stand beside and used by nothing else.                             *)
(*                                                                         *)
(* Left out: passwords, devices, and the contents of tokens.               *)
(***************************************************************************)
EXTENDS Naturals, FiniteSets

CONSTANTS
    MaxSessions,  \* bound: number of auth_sessions rows
    Requests,     \* calls of refresh_session
    NoRequest     \* holder of a free row

ASSUME SessionConstants == MaxSessions \in Nat /\ NoRequest \notin Requests

VARIABLES
    state,       \* of a session: "none", "active" or "revoked"
    family,      \* its token_family_id, named by the family's first session
    replacedBy,  \* its replaced_by_session_id
    userActive,  \* users.is_active
    lock,        \* the request that holds each row
    stage,       \* how far each request is
    token,       \* the session whose token it presents
    targets,     \* the rows its UPDATE of the family found
    detected,    \* history: families in which a reuse has been answered
    racing       \* history: sessions that go back to one rotated during a revocation

rowVars == <<state, family, replacedBy, userActive>>
requestVars == <<lock, stage, token, targets>>
history == <<detected, racing>>
sessionVars == <<rowVars, requestVars, history>>

Sessions == 1..MaxSessions
NoSession == 0

SessionStates == {"none", "active", "revoked"}
Stages == {"new", "rotate", "reuse", "revoke", "done"}

SessionInit ==
    /\ state = [s \in Sessions |-> "none"]
    /\ family = [s \in Sessions |-> NoSession]
    /\ replacedBy = [s \in Sessions |-> NoSession]
    /\ userActive = TRUE
    /\ lock = [s \in Sessions |-> NoRequest]
    /\ stage = [r \in Requests |-> "new"]
    /\ token = [r \in Requests |-> NoSession]
    /\ targets = [r \in Requests |-> {}]
    /\ detected = {}
    /\ racing = {}

ActiveIn(f) == {s \in Sessions : state[s] = "active" /\ family[s] = f}

(* Rows are inserted in the order of their numbers.                        *)
Unused(s) == state[s] = "none"
NextRow(s) == Unused(s) /\ \A x \in 1..(s - 1) : ~Unused(x)

(* register_user and login_user: _issue_tokens inserts the first session   *)
(* of a new family.                                                        *)
Login(s) ==
    /\ userActive
    /\ NextRow(s)
    /\ state' = [state EXCEPT ![s] = "active"]
    /\ family' = [family EXCEPT ![s] = s]
    /\ UNCHANGED <<replacedBy, userActive, requestVars, history>>

(* The environment: an operator disables the account.                      *)
Disable ==
    /\ userActive
    /\ userActive' = FALSE
    /\ UNCHANGED <<state, family, replacedBy, requestVars, history>>

-----------------------------------------------------------------------------
(* refresh_session.                                                        *)

AnyRow(s) == TRUE
RowFree(s) == lock[s] = NoRequest

(* The token's row, FOR UPDATE. A token that names no row is refused and   *)
(* changes nothing. The row and every branch but the reuse are decided on  *)
(* what is read here.                                                      *)
RefreshLock(r, s) ==
    /\ stage[r] = "new"
    /\ ~Unused(s)
    /\ RowFree(s)
    /\ lock' = [lock EXCEPT ![s] = r]
    /\ token' = [token EXCEPT ![r] = s]
    /\ stage' = [stage EXCEPT ![r] = IF state[s] = "active" THEN "rotate" ELSE "reuse"]
    /\ UNCHANGED <<rowVars, targets, history>>

Finish(r) ==
    /\ stage' = [stage EXCEPT ![r] = "done"]
    /\ lock' = [s \in Sessions |-> IF lock[s] = r THEN NoRequest ELSE lock[s]]
    /\ token' = [token EXCEPT ![r] = NoSession]
    /\ targets' = [targets EXCEPT ![r] = {}]

(* The old session is revoked and the new one inserted and linked in one   *)
(* transaction.                                                            *)
Rotate(r, n) ==
    LET s == token[r]
    IN  /\ stage[r] = "rotate"
        /\ userActive
        /\ NextRow(n)
        /\ state' = [state EXCEPT ![s] = "revoked", ![n] = "active"]
        /\ family' = [family EXCEPT ![n] = family[s]]
        /\ replacedBy' = [replacedBy EXCEPT ![s] = n]
        /\ racing' = IF s \in racing \/ \E x \in Requests : s \in targets[x]
                     THEN racing \cup {n} ELSE racing
        /\ Finish(r)
        /\ UNCHANGED <<userActive, detected>>

(* The session has expired, which may happen at any time, or its user is   *)
(* gone or disabled.                                                       *)
Retire(r) ==
    /\ stage[r] = "rotate"
    /\ state' = [state EXCEPT ![token[r]] = "revoked"]
    /\ Finish(r)
    /\ UNCHANGED <<family, replacedBy, userActive, history>>

(* The UPDATE of the family: the rows its snapshot finds active, ...       *)
OnlyReplacement(f, s) == {replacedBy[s]} \cap ActiveIn(f)
WholeFamily(f, s) == {x \in Sessions : family[x] = f}
Targets(f, s) == ActiveIn(f)

RevokeFind(r) ==
    /\ stage[r] = "reuse"
    /\ targets' = [targets EXCEPT ![r] = Targets(family[token[r]], token[r])]
    /\ stage' = [stage EXCEPT ![r] = "revoke"]
    /\ UNCHANGED <<rowVars, lock, token, history>>

(* ... and, once nobody else holds them, those that are active still.      *)
RevokeCommit(r) ==
    /\ stage[r] = "revoke"
    /\ \A s \in targets[r] : lock[s] \in {NoRequest, r}
    /\ state' = [s \in Sessions |-> IF s \in targets[r] THEN "revoked" ELSE state[s]]
    /\ detected' = detected \cup {family[token[r]]}
    /\ Finish(r)
    /\ UNCHANGED <<family, replacedBy, userActive, racing>>

(* The transaction is rolled back: a lost connection, a crash.             *)
AbortRefresh(r) ==
    /\ stage[r] \in {"rotate", "reuse", "revoke"}
    /\ Finish(r)
    /\ UNCHANGED <<rowVars, history>>

(* logout_session: the row, FOR UPDATE, revoked once.                      *)
Logout(s) ==
    /\ RowFree(s)
    /\ state[s] = "active"
    /\ state' = [state EXCEPT ![s] = "revoked"]
    /\ UNCHANGED <<family, replacedBy, userActive, requestVars, history>>

SessionNext ==
    \/ \E s \in Sessions : Login(s) \/ Logout(s)
    \/ Disable
    \/ \E r \in Requests :
        \/ \E s \in Sessions : RefreshLock(r, s) \/ Rotate(r, s)
        \/ Retire(r) \/ RevokeFind(r) \/ RevokeCommit(r) \/ AbortRefresh(r)

(* The server runs a started request on; nothing makes anybody send one.   *)
Continue(r) ==
    \/ \E s \in Sessions : Rotate(r, s)
    \/ Retire(r) \/ RevokeFind(r) \/ RevokeCommit(r)

SessionSpec ==
    /\ SessionInit /\ [][SessionNext]_sessionVars
    /\ \A r \in Requests : WF_sessionVars(Continue(r))

-----------------------------------------------------------------------------

SessionTypeOK ==
    /\ state \in [Sessions -> SessionStates]
    /\ family \in [Sessions -> Sessions \cup {NoSession}]
    /\ replacedBy \in [Sessions -> Sessions \cup {NoSession}]
    /\ userActive \in BOOLEAN
    /\ lock \in [Sessions -> Requests \cup {NoRequest}]
    /\ stage \in [Requests -> Stages]
    /\ token \in [Requests -> Sessions \cup {NoSession}]
    /\ targets \in [Requests -> SUBSET Sessions]
    /\ detected \subseteq Sessions
    /\ racing \subseteq Sessions
    /\ \A s \in Sessions : Unused(s) <=> family[s] = NoSession
    /\ \A r \in Requests :
        stage[r] \in {"rotate", "reuse", "revoke"} =>
            token[r] \in Sessions /\ lock[token[r]] = r

(* docs/authentication.md, "rotate a refresh token exactly once": however  *)
(* often and by however many clients its tokens are presented, a family    *)
(* has one session that still works.                                       *)
OneActivePerFamily ==
    \A s, t \in Sessions :
        state[s] = "active" /\ state[t] = "active" /\ family[s] = family[t] => s = t

(* "Reuse of a previously revoked token revokes all still-active sessions  *)
(* in that family" (docs/authentication.md:22). Less is true, and this is  *)
(* all of it: what is active in a family after a reuse was answered goes   *)
(* back to a rotation that ran between the UPDATE's snapshot and its       *)
(* commit; everything else is dead for good.                               *)
ReuseLeavesOnlyRacers == \A f \in detected : ActiveIn(f) \subseteq racing

(* Two reuses and a rotation of one family wait for each other's rows, and *)
(* never in a circle: every request is answered.                           *)
RequestsEnd == \A r \in Requests : stage[r] # "new" ~> stage[r] = "done"
====
