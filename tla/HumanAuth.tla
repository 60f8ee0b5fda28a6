------------------------------- MODULE HumanAuth -------------------------------
(***************************************************************************)
(* Logins and verifications of access tokens (human-auth.ts), over awaited *)
(* reads of accounts that a manager changes meanwhile.  A dependency that  *)
(* misbehaves in its synchronous part freezes the capability for good,     *)
(* calls that are waiting for another dependency included.                 *)
(***************************************************************************)
EXTENDS Naturals, FiniteSets

CONSTANTS AuthCalls,     \* callers, with one call at a time
          Accounts,
          TokenLifetime, \* JWT_TTL_SECONDS
          LastSecond     \* the clock reads 0..LastSecond, in any order

ASSUME AuthAssumption == TokenLifetime \in Nat \ {0} /\ LastSecond \in Nat

VARIABLES enabled,    \* accounts that are enabled
          roles,      \* account -> its role
          authFrozen,
          calls,      \* caller -> the call it waits in
          tokens,     \* tokens handed out: [sub, iat]
          principals  \* caller -> the principal it was handed

authVars == <<enabled, roles, authFrozen, calls, tokens, principals>>

Roles == {"OPERATOR", "VIEWER"}

Seconds == 0..LastSecond

NoCall == [stage |-> "NONE"]

NoPrincipal == [sub |-> "NONE", role |-> "NONE"]

AuthInit ==
    /\ enabled = Accounts
    /\ roles = [a \in Accounts |-> "VIEWER"]
    /\ authFrozen = FALSE
    /\ calls = [c \in AuthCalls |-> NoCall]
    /\ tokens = {}
    /\ principals = [c \in AuthCalls |-> NoPrincipal]

Enters(c, stage) == calls[c].stage = stage

\* What a principal of an account would say now: nothing if it is disabled.
Facts(a) == IF a \in enabled THEN {[sub |-> a, role |-> roles[a]]} ELSE {}

-----------------------------------------------------------------------------
(* login. *)

\* enter(), then findByUsername is called.
Login(c, a) ==
    /\ Enters(c, "NONE")
    /\ ~authFrozen
    /\ calls' = [calls EXCEPT ![c] = [stage |-> "FINDING", sub |-> a]]
    /\ UNCHANGED <<enabled, roles, authFrozen, tokens, principals>>

\* The account is read: a disabled one goes on with the dummy credential.
Found(c) ==
    /\ Enters(c, "FINDING")
    /\ calls' = [calls EXCEPT ![c] = [stage |-> "FOUND", sub |-> calls[c].sub,
                                      real |-> calls[c].sub \in enabled]]
    /\ UNCHANGED <<enabled, roles, authFrozen, tokens, principals>>

\* Back from the await: not frozen, and derive is called.
Derive(c) ==
    /\ Enters(c, "FOUND")
    /\ ~authFrozen
    /\ calls' = [calls EXCEPT ![c].stage = "DERIVING"]
    /\ UNCHANGED <<enabled, roles, authFrozen, tokens, principals>>

\* The password matches the real credential: a token, of a clock that reads
\* well.  Whether it matches is the caller's to know.
IssueToken(c) ==
    /\ Enters(c, "DERIVING")
    /\ ~authFrozen
    /\ calls[c].real
    /\ \E now \in Seconds : tokens' = tokens \cup {[sub |-> calls[c].sub, iat |-> now]}
    /\ calls' = [calls EXCEPT ![c] = NoCall]
    /\ UNCHANGED <<enabled, roles, authFrozen, principals>>

-----------------------------------------------------------------------------
(* verifyAccessToken. *)

Expired(token, now) == token.iat > now \/ token.iat + TokenLifetime <= now

\* The clock is read, the claims are checked, findCurrentById is called.
Verify(c, token) ==
    /\ Enters(c, "NONE")
    /\ ~authFrozen
    /\ \E now \in Seconds : ~Expired(token, now)
    /\ calls' = [calls EXCEPT ![c] = [stage |-> "STATUS", sub |-> token.sub]]
    /\ UNCHANGED <<enabled, roles, authFrozen, tokens, principals>>

\* The account is read, as it is now.
StatusRead(c) ==
    /\ Enters(c, "STATUS")
    /\ calls' = [calls EXCEPT ![c] = [stage |-> "STATUS_READ", facts |-> Facts(@.sub)]]
    /\ UNCHANGED <<enabled, roles, authFrozen, tokens, principals>>

\* Mutant of MayHandOut: the await before is not followed by a check.
MayHandOutAfterAwait(c) == Enters(c, "STATUS_READ")

\* Back from the await: frozen meanwhile?
MayHandOut(c) == Enters(c, "STATUS_READ") /\ ~authFrozen

\* A principal with the facts that were read; facts() and assertRole() only
\* ever tell those.  An account that is gone or disabled makes none.
HandOut(c) ==
    /\ MayHandOut(c)
    /\ \E facts \in calls[c].facts : principals' = [principals EXCEPT ![c] = facts]
    /\ calls' = [calls EXCEPT ![c] = NoCall]
    /\ UNCHANGED <<enabled, roles, authFrozen, tokens>>

\* Whoever was handed a principal lets go of it.
Forget(c) ==
    /\ principals' = [principals EXCEPT ![c] = NoPrincipal]
    /\ UNCHANGED <<enabled, roles, authFrozen, calls, tokens>>

\* A call ends without anything: refused, disabled, unknown, rejected.
CallFails(c) ==
    /\ calls[c].stage # "NONE"
    /\ calls' = [calls EXCEPT ![c] = NoCall]
    /\ UNCHANGED <<enabled, roles, authFrozen, tokens, principals>>

-----------------------------------------------------------------------------

\* freeze(): a dependency throws, answers no promise, reads a bad clock, or
\* calls back into the capability.
Freeze ==
    /\ ~authFrozen
    /\ authFrozen' = TRUE
    /\ UNCHANGED <<enabled, roles, calls, tokens, principals>>

\* A manager disables or enables an account, or changes its role.
ManageAccount(a) ==
    /\ \/ enabled' = enabled \ {a} /\ a \in enabled /\ UNCHANGED roles
       \/ enabled' = enabled \cup {a} /\ a \notin enabled /\ UNCHANGED roles
       \/ \E role \in Roles \ {roles[a]} :
            roles' = [roles EXCEPT ![a] = role] /\ UNCHANGED enabled
    /\ UNCHANGED <<authFrozen, calls, tokens, principals>>

AuthNext ==
    \/ \E c \in AuthCalls :
         \/ \E a \in Accounts : Login(c, a)
         \/ \E token \in tokens : Verify(c, token)
         \/ Found(c) \/ Derive(c) \/ IssueToken(c)
         \/ StatusRead(c) \/ HandOut(c) \/ Forget(c) \/ CallFails(c)
    \/ Freeze
    \/ \E a \in Accounts : ManageAccount(a)

AuthSpec == AuthInit /\ [][AuthNext]_authVars

\* Once frozen, for good, nothing is handed out: no login and no verification
\* that was waiting for another dependency when it froze ends in a token or a
\* principal (every await of human-auth.ts is followed by a check).
NothingFromTheFrozen ==
    [][authFrozen => /\ authFrozen' /\ UNCHANGED tokens
                     /\ \A c \in AuthCalls :
                          principals'[c] \in {principals[c], NoPrincipal}]_authVars
=============================================================================
