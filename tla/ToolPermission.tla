--------------------------- MODULE ToolPermission ---------------------------
(***************************************************************************)
(* The permission of a tool call: its row in tool_permission_requests, the *)
(* in-process Waiter that carries the decision to the broker, the people   *)
(* who decide through the gateway, and the capability grants an allowance  *)
(* issues.  core.db has a single connection, so a statement or a           *)
(* transaction is one action; between two of them a decider may be         *)
(* overtaken.                                                              *)
(*                                                                         *)
(* A call asks for at most one permission (the retry after an allowance    *)
(* never asks again), so a permission is named by the call that asks.      *)
(***************************************************************************)
EXTENDS Naturals

CONSTANTS
  Attempts,    \* calls of Broker.Execute
  Deciders,    \* requests to POST /v1/permissions/{id}/decide
  SessionCalls,\* MaxCalls of a grant that is not one-time
  Offered      \* bound: the decisions people make

Tools == {"read", "write", "exec", "ask_user"}

\* Tools whose grants the turn's plan issues in advance.
Preauthorized == {"read", "write"}

Allowances == {"once", "similar", "permanent"}
Decisions == Allowances \cup {"deny"}

ASSUME PermissionAssumption ==
  /\ SessionCalls \in Nat
  /\ Offered \subseteq Decisions
  /\ Attempts # {} /\ Attempts \cap Tools = {}

VARIABLES
  perm,          \* rows: "none", "pending" or the decision
  waiter,        \* Waiter.wait: "none", an "empty" channel or the decision in it
  grant, used,   \* capability_grants rows
  decider        \* <<its place, the permission it decides, its decision>>

permVars == <<perm, waiter>>
grantVars == <<grant, used>>
permissionVars == <<permVars, grantVars, decider>>

-----------------------------------------------------------------------------

\* The grant a decision issues, its id made of both; and the grants a turn's
\* plan pre-authorizes for a tool.
PermGrants == Attempts \X Allowances
Grants == PermGrants \cup (Preauthorized \X {"preauth"})
NoGrant == <<"none", "none">>

MaxCalls(g) == IF g[2] = "once" THEN 1 ELSE SessionCalls

Idle == <<"idle", "none", "none">>
DeciderPcs == {"issue", "trust", "mark", "notify"}

PermissionInit ==
  /\ perm = [a \in Attempts |-> "none"]
  /\ waiter = [a \in Attempts |-> "none"]
  /\ grant = [g \in Grants |-> IF g \in PermGrants THEN "none" ELSE "live"]
  /\ used = [g \in Grants |-> 0]
  /\ decider = [k \in Deciders |-> Idle]

-----------------------------------------------------------------------------
(* The broker's side: Gate.CreatePending and Gate.Wait.                    *)

\* Mutant: nothing waits for the decision yet.
RegisterLate(a) == waiter' = waiter

\* Waiter.Register, before the row can be seen.
Register(a) ==
  waiter' = [waiter EXCEPT ![a] = IF @ = "none" THEN "empty" ELSE @]

\* Store.Insert.
InsertPending(a) ==
  perm' = [perm EXCEPT ![a] = "pending"]

\* Gate.Wait reads the row first; the entry of the Waiter then stays behind.
AlreadyDecided(a) == perm[a] \in Decisions

\* Waiter.Wait makes a channel where there is none.
OpenChannel(a) ==
  waiter' = [waiter EXCEPT ![a] = IF @ = "none" THEN "empty" ELSE @]

Cleanup(a) ==
  waiter' = [waiter EXCEPT ![a] = "none"]

-----------------------------------------------------------------------------
(* The gateway's side: Service.DecideWithOptions.                          *)

Place(k) == decider[k][1]
Asked(k) == decider[k][2]
Choice(k) == decider[k][3]

MoveTo(k, place) ==
  decider' = [decider EXCEPT ![k] = IF place = "idle" THEN Idle
                                      ELSE <<place, Asked(k), Choice(k)>>]

\* A valid decision is read against a pending row.
Decide(k) ==
  /\ Place(k) = "idle"
  /\ \E a \in Attempts, d \in Offered :
       /\ perm[a] = "pending"
       /\ decider' = [decider EXCEPT ![k] = <<IF d = "deny" THEN "mark" ELSE "issue", a, d>>]
  /\ UNCHANGED <<permVars, grantVars>>

\* IssueGrant; a grant that exists already is kept.  It may be refused.
IssueGrant(k) ==
  /\ Place(k) = "issue"
  /\ \/ /\ grant' = [grant EXCEPT ![<<Asked(k), Choice(k)>>] =
                       IF @ = "none" THEN "live" ELSE @]
        /\ MoveTo(k, IF Choice(k) = "permanent" THEN "trust" ELSE "mark")
     \/ /\ MoveTo(k, "idle")
        /\ UNCHANGED grant
  /\ UNCHANGED <<permVars, used>>

\* AppendTrustEntry, which may fail after the grant was issued.
AppendTrust(k) ==
  /\ Place(k) = "trust"
  /\ \E next \in {"mark", "idle"} : MoveTo(k, next)
  /\ UNCHANGED <<permVars, grantVars>>

\* Mutant: whoever lost the race still wakes the broker.
MarkDecidedLoser(k) ==
  /\ Place(k) = "mark"
  /\ perm' = [perm EXCEPT ![Asked(k)] = IF @ = "pending" THEN Choice(k) ELSE @]
  /\ MoveTo(k, "notify")
  /\ UNCHANGED <<waiter, grantVars>>

\* MarkDecided updates a pending row only; ErrNotPending ends the request.
MarkDecided(k) ==
  /\ Place(k) = "mark"
  /\ \/ /\ perm[Asked(k)] = "pending"
        /\ perm' = [perm EXCEPT ![Asked(k)] = Choice(k)]
        /\ MoveTo(k, "notify")
     \/ /\ perm[Asked(k)] # "pending"
        /\ MoveTo(k, "idle")
        /\ UNCHANGED perm
  /\ UNCHANGED <<waiter, grantVars>>

\* Waiter.Notify: dropped when nobody waits or the channel is full.
Notify(k) ==
  /\ Place(k) = "notify"
  /\ waiter' = [waiter EXCEPT ![Asked(k)] = IF @ = "empty" THEN Choice(k) ELSE @]
  /\ MoveTo(k, "idle")
  /\ UNCHANGED <<perm, grantVars>>

DeciderRuns(k) == IssueGrant(k) \/ AppendTrust(k) \/ MarkDecided(k) \/ Notify(k)

=============================================================================
