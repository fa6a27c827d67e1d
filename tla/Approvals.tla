----------------------------- MODULE Approvals ------------------------------
(***************************************************************************)
(* Per-action approvals (ash-ops authorization.rs). A request that needs a *)
(* capability under approval is answered by a challenge; the harness signs *)
(* the challenge of an action it approves; the client sends the request    *)
(* again with the token, which is good for that action, once, until it     *)
(* expires. The clock is SystemTime: it is read before the lock is taken,  *)
(* and it may be set back.                                                 *)
(*                                                                         *)
(* A nonce is the number of its challenge (the hash of a counter and the   *)
(* action), and a token the challenge it signs: hashes do not collide and  *)
(* MACs are not guessed.                                                   *)
(***************************************************************************)
EXTENDS Naturals, FiniteSets, Sequences

CONSTANTS Callers,          \* requests being authorized at the same time
          Actions,          \* digests of authorization targets
          Required,         \* action to the capabilities it needs
          Granted, ApprovalRequired,    \* the policy
          Ttl, MaxClock, MaxPendingPermits, MaxUsedPermits,
          MaxNonce          \* bound: challenges made
ASSUME PolicyAssumption == Granted \cap ApprovalRequired = {} /\ Required \in [Actions -> SUBSET (Granted \cup ApprovalRequired \cup {"other"})]
ASSUME PermitLimits == {Ttl, MaxClock, MaxPendingPermits, MaxUsedPermits, MaxNonce} \subseteq Nat

VARIABLES clock,
          pending,          \* nonce to challenge [action, capabilities, expires]
          used,             \* nonce to the time its challenge expires
          counter,
          call,             \* caller to its progress
          tokens,           \* challenges the harness has signed: [nonce, challenge]
          shown,            \* challenges clients have received
          grants            \* history: every execution a token allowed
approvalVars == <<clock, pending, used, counter, call, tokens, shown, grants>>

Idle == [at |-> "idle"]
NoToken == [nonce |-> 0]
Nothing == [n \in {} |-> 0]

ApprovalsInit ==
    /\ clock = 0 /\ pending = Nothing /\ used = Nothing /\ counter = 0
    /\ call = [c \in Callers |-> Idle] /\ tokens = {} /\ shown = {} /\ grants = <<>>

\* unix_millis: any other value, earlier ones included.
Tick ==
    /\ clock' \in 0 .. MaxClock
    /\ UNCHANGED <<pending, used, counter, call, tokens, shown, grants>>

SetCall(c, r) == call' = [call EXCEPT ![c] = r]
CapabilityMask == Granted \cup ApprovalRequired
Unexpired(f, now) == [n \in {m \in DOMAIN f : f[m] > now} |-> f[n]]
Holding(f, nonce, v) == [n \in DOMAIN f \cup {nonce} |-> IF n = nonce THEN v ELSE f[n]]
Outstanding(now) == [n \in {m \in DOMAIN pending : pending[m].expires > now} |-> pending[n]]

\* authorize, up to the clock: a token is one that was issued, for whatever action.
Authorize(c) ==
    /\ call[c] = Idle
    /\ \E action \in Actions, token \in tokens \cup {NoToken} :
         LET approval == Required[action] \cap ApprovalRequired IN
         IF ~(Required[action] \subseteq CapabilityMask) \/ approval = {} THEN UNCHANGED call
         ELSE SetCall(c, [at |-> IF token = NoToken THEN "challenge" ELSE "verify",
                      action |-> action, capabilities |-> approval, token |-> token, now |-> clock])
    /\ UNCHANGED <<clock, pending, used, counter, tokens, shown, grants>>

\* Mutant: the capabilities are compared, the action is not.
MatchesCapabilities(r) ==
    /\ r.token.nonce \in DOMAIN Outstanding(r.now)
    /\ pending[r.token.nonce].capabilities = r.capabilities

\* PermitAuthority::verify under the lock: the pending challenge and the MAC.
Matches(r) ==
    /\ r.token.nonce \in DOMAIN Outstanding(r.now)
    /\ LET challenge == pending[r.token.nonce] IN
       /\ challenge.capabilities = r.capabilities /\ challenge.action = r.action
       /\ challenge = r.token.challenge

Accepted(r) ==
    /\ pending' = [n \in DOMAIN Outstanding(r.now) \ {r.token.nonce} |-> pending[n]]
    /\ used' = Holding(Unexpired(used, r.now), r.token.nonce, pending[r.token.nonce].expires)

Verify(c) ==
    /\ call[c].at = "verify"
    /\ LET r == call[c]
           fine == r.token.nonce \notin DOMAIN Unexpired(used, r.now) /\ Matches(r)
                     /\ Cardinality(DOMAIN Unexpired(used, r.now)) < MaxUsedPermits
       IN IF fine
          THEN /\ Accepted(r) /\ SetCall(c, Idle)
               /\ grants' = Append(grants, [nonce |-> r.token.nonce, action |-> r.action, now |-> r.now])
          ELSE /\ pending' = Outstanding(r.now) /\ used' = Unexpired(used, r.now)
               /\ SetCall(c, [r EXCEPT !.at = "challenge", !.now = clock]) /\ UNCHANGED grants
    /\ UNCHANGED <<clock, counter, tokens, shown>>

\* PermitAuthority::challenge under the lock. What follows may fail: the response does not
\* fit, its budget or the result store is exhausted; the challenge then stays unseen.
Challenge(c) ==
    /\ call[c].at = "challenge" /\ counter < MaxNonce
    /\ LET r == call[c]
           nonce == counter + 1
           challenge == [action |-> r.action, capabilities |-> r.capabilities, expires |-> r.now + Ttl]
       IN /\ used' = Unexpired(used, r.now)
          /\ IF Cardinality(DOMAIN Outstanding(r.now)) >= MaxPendingPermits
             THEN pending' = Outstanding(r.now) /\ UNCHANGED shown
             ELSE /\ pending' = Holding(Outstanding(r.now), nonce, challenge)
                  /\ shown' \in {shown, shown \cup {[nonce |-> nonce, challenge |-> challenge]}}
          /\ counter' = nonce
    /\ SetCall(c, Idle) /\ UNCHANGED <<clock, tokens, grants>>

\* The harness, for a challenge it approves: PermitAuthority::issue.
Approve(c) ==
    /\ call[c] = Idle
    /\ \E s \in shown :
         IF s.challenge.expires <= clock THEN UNCHANGED call
         ELSE SetCall(c, [at |-> "issue", token |-> s, now |-> clock])
    /\ UNCHANGED <<clock, pending, used, counter, tokens, shown, grants>>

Issue(c) ==
    /\ call[c].at = "issue"
    /\ LET r == call[c] IN
       /\ pending' = Outstanding(r.now) /\ used' = Unexpired(used, r.now)
       /\ tokens' = IF r.token.nonce \in DOMAIN Outstanding(r.now) /\ pending[r.token.nonce] = r.token.challenge
                    THEN tokens \cup {r.token} ELSE tokens
    /\ SetCall(c, Idle) /\ UNCHANGED <<clock, counter, shown, grants>>

ApprovalsNext ==
    \/ Tick
    \/ \E c \in Callers : Authorize(c) \/ Verify(c) \/ Challenge(c) \/ Approve(c) \/ Issue(c)

ApprovalsTypeOK ==
    /\ clock \in 0 .. MaxClock /\ counter \in 0 .. MaxNonce
    /\ DOMAIN pending \subseteq 1 .. counter /\ DOMAIN used \subseteq 1 .. counter
    /\ Cardinality(DOMAIN pending) <= MaxPendingPermits /\ Cardinality(DOMAIN used) <= MaxUsedPermits

\* A token allows one execution, of the action it was issued for, on a clock that had not
\* reached its end (docs/protocol.md, PermitAuthority): also when several requests present it
\* at once, when the cache that remembers used nonces has forgotten it, and when the clock is
\* set back after the time it expired.
PermitSound ==
    /\ ApprovalsTypeOK
    /\ \A i, j \in DOMAIN grants : grants[i].nonce = grants[j].nonce => i = j
    /\ \A i \in DOMAIN grants : \E t \in tokens :
         /\ t.nonce = grants[i].nonce /\ t.challenge.action = grants[i].action
         /\ grants[i].now < t.challenge.expires
         /\ Required[grants[i].action] \subseteq Granted \cup t.challenge.capabilities
=============================================================================
