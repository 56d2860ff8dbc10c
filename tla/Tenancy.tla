------------------------------- MODULE Tenancy -------------------------------
(***************************************************************************)
(* Accounts, workspaces, members and what lets them in: routes/auth.ts,    *)
(* workspaces.ts, members.ts, api-tokens.ts, auth/session.ts and           *)
(* middleware/auth.ts.                                                     *)
(*                                                                         *)
(* A handler authorises its caller and reads what it decides on, then      *)
(* writes; the statements it does not put in one transaction are steps of  *)
(* their own, between which other handlers run or the process dies.        *)
(* Sessions are known by user and workspace, tokens by user, workspace and *)
(* role snapshot: two alike are one.                                       *)
(***************************************************************************)
EXTENDS Naturals, FiniteSets, Maps

CONSTANTS MaxUsers, MaxSpaces,  \* bounds: accounts and workspaces, numbered as they come
          Busy,       \* bound: the workspaces used for more than to sign in
          Roles,      \* the roles in use, of owner, admin, member, viewer
          Handlers,   \* requests served at the same time
          InviteIds,
          MaxTokens   \* bound on live API tokens

ASSUME TenancyAssumption ==
  /\ Busy \subseteq 1..MaxSpaces /\ MaxUsers \in Nat \ {0} /\ MaxSpaces \in Nat
  /\ "owner" \in Roles /\ Roles \subseteq {"owner", "admin", "member", "viewer"}
  /\ MaxTokens \in Nat

Users == 1..MaxUsers
WsIds == 1..MaxSpaces
NoWs == 0   \* workspace_id of a pre-workspace session

VARIABLES users,    \* registered accounts
          spaces,   \* workspaces: deleted or not
          members,  \* workspace_members: <<workspace, user>> to role
          sess,     \* live sessions: <<user, workspace>>
          tokens,   \* live API tokens: <<user, workspace, role>>
          invites,  \* invitations
          op        \* what each handler is about to do

tenancyVars == <<users, spaces, members, sess, tokens, invites, op>>

-----------------------------------------------------------------------------
NoOp(u) == [pc |-> "idle", u |-> u, w |-> NoWs, t |-> u, r |-> "owner", from |-> NoWs]
AnyUser == CHOOSE u \in Users : TRUE
Unused(h) == op[h].pc = "idle"
Begin(h, pc, u, w, t, r, from) ==
  op' = [op EXCEPT ![h] = [pc |-> pc, u |-> u, w |-> w, t |-> t, r |-> r, from |-> from]]
Then(h, pc) == op' = [op EXCEPT ![h].pc = pc]
Finish(h) == op' = [op EXCEPT ![h] = NoOp(AnyUser)]
Due(h, pc) == op[h].pc = pc

(* rbac.ts, for the permissions these handlers ask for.                    *)
hasPermission(role, permission) ==
  role \in CASE permission \in {"change_member_roles", "delete_workspace"} -> {"owner"}
             [] permission \in {"manage_members", "invite_members", "remove_members",
                                "manage_others_tokens"} -> {"owner", "admin"}
             [] permission = "manage_own_tokens" -> {"owner", "admin", "member"}

Undeleted(w) == w \in DOMAIN spaces /\ spaces[w] = "live"

(* requireAuth: a session counts while its user is a member; a token       *)
(* counts by itself, with the role it was issued for.                      *)
requireAuth(u, w, r) ==
  \/ <<u, w>> \in sess /\ <<w, u>> \in DOMAIN members /\ members[<<w, u>>] = r
  \/ <<u, w, r>> \in tokens

May(u, w, permission) == \E r \in Roles : requireAuth(u, w, r) /\ hasPermission(r, permission)

HasWorkspace(u) == \E w \in WsIds : Undeleted(w) /\ <<w, u>> \in DOMAIN members

ownerCount(w) == Cardinality({u \in Users : At(members, <<w, u>>, "none") = "owner"})

(* Removing or demoting the only owner is refused.                         *)
LastOwner(w, t) == At(members, <<w, t>>, "none") = "owner" /\ ownerCount(w) <= 1

-----------------------------------------------------------------------------
(* Accounts and sessions.                                                  *)

(* The user's row is committed by itself; the workspace follows, under one *)
(* of ten slugs, with its owner and subscription; then the session.        *)
Register(h, u) ==
  /\ Unused(h) /\ u = Cardinality(users) + 1
  /\ users' = users \cup {u}
  /\ Begin(h, "first workspace", u, NoWs, u, "owner", NoWs)
  /\ UNCHANGED <<spaces, members, sess, tokens, invites>>

SlugsTaken(h) ==
  /\ Due(h, "first workspace") \/ Due(h, "another workspace")
  /\ Finish(h)
  /\ UNCHANGED <<users, spaces, members, sess, tokens, invites>>

NewSpace(h, w) ==
  /\ w = Cardinality(DOMAIN spaces) + 1
  /\ spaces' = Extend(spaces, w, "live")
  /\ members' = Extend(members, <<w, op[h].u>>, "owner")

FirstWorkspace(h, w) ==
  /\ Due(h, "first workspace")
  /\ NewSpace(h, w)
  /\ Then(h, "first session")
  /\ UNCHANGED <<users, sess, tokens, invites>>

FirstSession(h) ==
  /\ Due(h, "first session")
  /\ sess' = sess \cup {<<op[h].u, NoWs>>}
  /\ Finish(h)
  /\ UNCHANGED <<users, spaces, members, tokens, invites>>

(* A correct password (what happens to a wrong one is Login); an account   *)
(* without a workspace is refused.                                         *)
LoginCorrect(h, u) ==
  /\ Unused(h) /\ u \in users
  /\ HasWorkspace(u)
  /\ Begin(h, "first session", u, NoWs, u, "owner", NoWs)
  /\ UNCHANGED <<users, spaces, members, sess, tokens, invites>>

Logout(u, w) ==
  /\ <<u, w>> \in sess
  /\ sess' = sess \ {<<u, w>>}
  /\ UNCHANGED <<users, spaces, members, tokens, invites, op>>

(* POST /workspaces with any session, which the scoped one then replaces.  *)
CreateWorkspace(h, u, from) ==
  /\ Unused(h) /\ <<u, from>> \in sess
  /\ Begin(h, "another workspace", u, NoWs, u, "owner", from)
  /\ UNCHANGED <<users, spaces, members, sess, tokens, invites>>

AnotherWorkspace(h, w) ==
  /\ Due(h, "another workspace")
  /\ NewSpace(h, w)
  /\ op' = [op EXCEPT ![h].pc = "scope", ![h].w = w]
  /\ UNCHANGED <<users, sess, tokens, invites>>

SelectWorkspace(h, u, w, from) ==
  /\ Unused(h) /\ <<u, from>> \in sess
  /\ Undeleted(w) /\ <<w, u>> \in DOMAIN members
  /\ Begin(h, "scope", u, w, u, "owner", from)
  /\ UNCHANGED <<users, spaces, members, sess, tokens, invites>>

(* createSession, then revokeSession of the session the request came with. *)
ScopedSession(h) ==
  /\ Due(h, "scope")
  /\ sess' = sess \cup {<<op[h].u, op[h].w>>}
  /\ Then(h, "drop")
  /\ UNCHANGED <<users, spaces, members, tokens, invites>>

DropSession(h) ==
  /\ Due(h, "drop")
  /\ sess' = sess \ (IF op[h].from = op[h].w THEN {} ELSE {<<op[h].u, op[h].from>>})
  /\ Finish(h)
  /\ UNCHANGED <<users, spaces, members, tokens, invites>>

(* One transaction: the hash, all sessions and all tokens of the user.     *)
ChangePassword(u, w) ==
  /\ \E r \in Roles : requireAuth(u, w, r)
  /\ sess' = {s \in sess : s[1] # u}
  /\ tokens' = {t \in tokens : t[1] # u}
  /\ UNCHANGED <<users, spaces, members, invites, op>>

-----------------------------------------------------------------------------
(* Tokens.                                                                 *)

CreateToken(h, u, w, r) ==
  /\ Unused(h)
  /\ requireAuth(u, w, r) /\ hasPermission(r, "manage_own_tokens")
  /\ Cardinality(tokens) < MaxTokens
  /\ Begin(h, "token", u, w, u, r, NoWs)
  /\ UNCHANGED <<users, spaces, members, sess, tokens, invites>>

InsertToken(h) ==
  /\ Due(h, "token")
  /\ tokens' = tokens \cup {<<op[h].u, op[h].w, op[h].r>>}
  /\ Finish(h)
  /\ UNCHANGED <<users, spaces, members, sess, invites>>

RevokeToken(u, t) ==
  /\ t \in tokens
  /\ \/ May(u, t[2], "manage_own_tokens") /\ t[1] = u
     \/ May(u, t[2], "manage_others_tokens")
  /\ tokens' = tokens \ {t}
  /\ UNCHANGED <<users, spaces, members, sess, invites, op>>

-----------------------------------------------------------------------------
(* Invitations: single statements, but for the acceptance.                 *)

Invite(u, w, i, r) ==
  /\ May(u, w, "invite_members")
  /\ i \notin DOMAIN invites
  /\ invites' = Extend(invites, i, [w |-> w, r |-> r, state |-> "open"])
  /\ UNCHANGED <<users, spaces, members, sess, tokens, op>>

RevokeInvite(u, i) ==
  /\ invites[i].state \in {"open", "expired"}
  /\ May(u, invites[i].w, "manage_members")
  /\ invites' = [invites EXCEPT ![i].state = "revoked"]
  /\ UNCHANGED <<users, spaces, members, sess, tokens, op>>

(* A new token hash and a new expiry.                                      *)
ResendInvite(u, i) ==
  /\ invites[i].state \in {"open", "expired"}
  /\ May(u, invites[i].w, "manage_members")
  /\ invites' = [invites EXCEPT ![i].state = "open"]
  /\ UNCHANGED <<users, spaces, members, sess, tokens, op>>

InviteExpires(i) ==
  /\ invites[i].state = "open"
  /\ invites' = [invites EXCEPT ![i].state = "expired"]
  /\ UNCHANGED <<users, spaces, members, sess, tokens, op>>

(* Whoever has a session and the link; an invitation that was accepted     *)
(* before is not refused.                                                  *)
AcceptInvite(h, u, from, i) ==
  /\ Unused(h) /\ <<u, from>> \in sess
  /\ invites[i].state \in {"open", "accepted"}
  /\ invites' = [invites EXCEPT ![i].state = "accepted"]
  /\ Begin(h, "join", u, invites[i].w, u, invites[i].r, from)
  /\ UNCHANGED <<users, spaces, members, sess, tokens>>

(* ON CONFLICT DO NOTHING: a member keeps the role it has.                 *)
Join(h) ==
  /\ Due(h, "join")
  /\ LET key == <<op[h].w, op[h].u>>
     IN members' = IF key \in DOMAIN members THEN members ELSE Extend(members, key, op[h].r)
  /\ Then(h, "scope")
  /\ UNCHANGED <<users, spaces, sess, tokens, invites>>

-----------------------------------------------------------------------------
(* Members.                                                                *)

(* The check, outside the transaction ...                                  *)
CheckRemove(h, u, w, t) ==
  /\ Unused(h)
  /\ May(u, w, "remove_members")
  /\ ~LastOwner(w, t)
  /\ Begin(h, "remove", u, w, t, "owner", NoWs)
  /\ UNCHANGED <<users, spaces, members, sess, tokens, invites>>

(* Mutation: the tokens of the removed member live on. *)
RemoveKeepingTokens(h) ==
  /\ Due(h, "remove")
  /\ LET w == op[h].w
         t == op[h].t
     IN IF <<w, t>> \in DOMAIN members
          THEN /\ members' = Without(members, <<w, t>>)
               /\ sess' = sess \ {<<t, w>>}
          ELSE UNCHANGED <<members, sess>>
  /\ Finish(h)
  /\ UNCHANGED <<users, spaces, tokens, invites>>

(* ... and the transaction: the member, its tokens and its sessions.       *)
RemoveMember(h) ==
  /\ Due(h, "remove")
  /\ LET w == op[h].w
         t == op[h].t
     IN IF <<w, t>> \in DOMAIN members
          THEN /\ members' = Without(members, <<w, t>>)
               /\ tokens' = {k \in tokens : ~(k[1] = t /\ k[2] = w)}
               /\ sess' = sess \ {<<t, w>>}
          ELSE UNCHANGED <<members, tokens, sess>>
  /\ Finish(h)
  /\ UNCHANGED <<users, spaces, invites>>

(* Mutation: a change of role does not look for the last owner. *)
CheckRoleAnyOwner(h, u, w, t, r) ==
  /\ Unused(h)
  /\ May(u, w, "change_member_roles")
  /\ Begin(h, "role", u, w, t, r, NoWs)
  /\ UNCHANGED <<users, spaces, members, sess, tokens, invites>>

CheckRole(h, u, w, t, r) ==
  /\ Unused(h)
  /\ May(u, w, "change_member_roles")
  /\ r # "owner" => ~LastOwner(w, t)
  /\ Begin(h, "role", u, w, t, r, NoWs)
  /\ UNCHANGED <<users, spaces, members, sess, tokens, invites>>

ChangeRole(h) ==
  /\ Due(h, "role")
  /\ LET key == <<op[h].w, op[h].t>>
     IN members' = IF key \in DOMAIN members THEN [members EXCEPT ![key] = op[h].r] ELSE members
  /\ Finish(h)
  /\ UNCHANGED <<users, spaces, sess, tokens, invites>>

(* One member's sessions of the workspace, or all but the caller's (a      *)
(* token's caller has none).                                               *)
RevokeSessions(u, w, t) ==
  /\ May(u, w, "manage_members")
  /\ \/ sess' = sess \ {<<t, w>>}
     \/ sess' = {s \in sess : s[2] # w \/ s = <<u, w>>}
     \/ tokens # {} /\ sess' = {s \in sess : s[2] # w}
  /\ UNCHANGED <<users, spaces, members, tokens, invites, op>>

(* Soft: the row first, then its workflows, then its sessions; not its     *)
(* tokens.                                                                 *)
DeleteWorkspace(h, u, w) ==
  /\ Unused(h)
  /\ May(u, w, "delete_workspace")
  /\ Undeleted(w)
  /\ spaces' = [spaces EXCEPT ![w] = "deleted"]
  /\ Begin(h, "revoke all", u, w, u, "owner", NoWs)
  /\ UNCHANGED <<users, members, sess, tokens, invites>>

RevokeAll(h) ==
  /\ Due(h, "revoke all")
  /\ sess' = {s \in sess : s[2] # op[h].w}
  /\ Finish(h)
  /\ UNCHANGED <<users, spaces, members, tokens, invites>>

(* The process dies, or a statement throws.                                *)
HandlerDies(h) ==
  /\ ~Unused(h)
  /\ Finish(h)
  /\ UNCHANGED <<users, spaces, members, sess, tokens, invites>>

-----------------------------------------------------------------------------
TenancyInit ==
  /\ users = {} /\ spaces = EmptyMap /\ members = EmptyMap
  /\ sess = {} /\ tokens = {} /\ invites = EmptyMap
  /\ op = [h \in Handlers |-> NoOp(AnyUser)]

Scopes == WsIds \cup {NoWs}

Handle(h) ==
  \/ SlugsTaken(h) \/ FirstSession(h) \/ ScopedSession(h) \/ DropSession(h) \/ InsertToken(h)
  \/ Join(h) \/ RemoveMember(h) \/ ChangeRole(h) \/ RevokeAll(h) \/ HandlerDies(h)
  \/ \E w \in WsIds : FirstWorkspace(h, w) \/ AnotherWorkspace(h, w)
  \/ \E u \in Users :
       \/ Register(h, u) \/ LoginCorrect(h, u)
       \/ \E from \in Scopes : CreateWorkspace(h, u, from)
       \/ \E w \in Busy, from \in Scopes : SelectWorkspace(h, u, w, from)
       \/ \E w \in Busy, r \in Roles : CreateToken(h, u, w, r)
       \/ \E from \in Scopes, i \in DOMAIN invites : AcceptInvite(h, u, from, i)
       \/ \E w \in WsIds, t \in Users : CheckRemove(h, u, w, t)
       \/ \E w \in WsIds, t \in Users, r \in Roles : CheckRole(h, u, w, t, r)
       \/ \E w \in Busy : DeleteWorkspace(h, u, w)

AtOnce(u) ==
  \/ \E w \in Scopes : Logout(u, w)
  \/ \E w \in WsIds : ChangePassword(u, w)
  \/ \E t \in tokens : RevokeToken(u, t)
  \/ \E w \in Busy, i \in InviteIds, r \in Roles : Invite(u, w, i, r)
  \/ \E i \in DOMAIN invites : RevokeInvite(u, i) \/ ResendInvite(u, i)
  \/ \E w \in WsIds, t \in Users : RevokeSessions(u, w, t)

TenancyNext ==
  \/ \E h \in Handlers : Handle(h)
  \/ \E u \in Users : AtOnce(u)
  \/ \E i \in DOMAIN invites : InviteExpires(i)

TenancySpec == TenancyInit /\ [][TenancyNext]_tenancyVars

-----------------------------------------------------------------------------
(* members.ts:6-7: "No operation may leave the workspace without an owner".*)
(* Each operation checks before it writes, so it holds as long as requests *)
(* are served one after the other, whatever they are and wherever they die.*)
OwnerRemains == \A w \in DOMAIN spaces : ownerCount(w) >= 1

(* members.ts:8-9: what a member was let in by does not outlive the        *)
(* membership, over any sequence of joining, leaving, role changes,        *)
(* password changes and returning.                                         *)
AccessFollowsMembership ==
  /\ \A s \in sess : s[2] # NoWs => <<s[2], s[1]>> \in DOMAIN members
  /\ \A k \in tokens : <<k[2], k[1]>> \in DOMAIN members
=============================================================================
